------------------------ MODULE EventPipelineProofs ------------------------
(***************************************************************************)
(* Proofs about EventPipeline for every number of events, slots, retries,  *)
(* deliveries, restarts and faults, or for the deliveries and restarts a   *)
(* theorem assumes; and the refinement of EventPromise for a calm worker.  *)
(* Each property has an inductive strengthening of its own, on top of the  *)
(* types.                                                                  *)
(***************************************************************************)
EXTENDS EventPipeline, FiniteSetTheorems, SequenceTheorems, TLAPS

-----------------------------------------------------------------------------
(* The shape of the task records *)

\* The type invariant in four parts. A task has an event exactly while it is not
\* idle, a task about to write a status back has read a real one, and a process
\* that is not running has no tasks.
ListsOK == /\ queue \in Seq(Events)
           /\ parked \in [Events -> Nat]
           /\ delivered \in [Events -> Nat]
           /\ pending \in [Events -> Nat]

RowsOK == /\ row \in [Events -> Row]
          /\ todo \in SUBSET Events /\ due \in SUBSET Events

TasksOK == /\ phase \in {"up", "draining", "down", "reclaim", "stuck", "orphans"}
           /\ task \in [Slots -> Task]
           /\ \A s \in Slots : task[s].pc = "idle" <=> task[s].ev = NoEvent
           /\ \A s \in Slots : task[s].pc = "finish" => task[s].seen \in Statuses \ {"absent"}
           /\ ~Running => \A s \in Slots : task[s] = Idle

EffectsOK == /\ files \in [Events -> {"none", "fresh", "old"}]
             /\ verdicts \in [Events -> Nat] /\ alerts \in [Events -> Nat]
             /\ failAlerts \in SUBSET Events
             /\ restarts \in Nat /\ faults \in Nat

TypeInv == ListsOK /\ RowsOK /\ TasksOK /\ EffectsOK

\* The parts of the type invariant add up to it.
LEMMA TypeInvTypes == TypeInv => TypeOK
BY DEF TypeInv, ListsOK, RowsOK, TasksOK, EffectsOK, TypeOK

\* What WithStatus returns.
LEMMA WithStatusType ==
    ASSUME NEW r \in Row, NEW st \in Statuses
    PROVE  /\ WithStatus(r, st) \in Row
           /\ WithStatus(r, st).retries = r.retries
           /\ r.status = "absent" => WithStatus(r, st) = r
           /\ r.status # "absent" => WithStatus(r, st).status = st
BY DEF WithStatus, Row

\* What Requeued returns.
LEMMA RequeuedType ==
    ASSUME NEW r \in Row
    PROVE  /\ Requeued(r) \in Row
           /\ Requeued(r).retries = r.retries + 1
           /\ Requeued(r).status = "queued"
BY DEF Requeued, Row, Statuses

\* A status read from the table is one a row can have.
LEMMA CurrentStatusType ==
    ASSUME NEW e \in Events, row \in [Events -> Row]
    PROVE  CurrentStatus(e) \in Statuses \ {"absent"}
BY DEF CurrentStatus, Row, Statuses, Terminal

\* A claimed row is still a row.
LEMMA ClaimedType ==
    ASSUME NEW r \in Row
    PROVE  [r EXCEPT !.status = "processing", !.started = "recent"] \in Row
BY DEF Row, Statuses

\* A row that time passes over is still a row.
LEMMA AgedType ==
    ASSUME NEW r \in Row
    PROVE  /\ [r EXCEPT !.started = "old"] \in Row
           /\ [r EXCEPT !.stale = TRUE] \in Row
BY DEF Row, Statuses

-----------------------------------------------------------------------------
(* How the steps of a task change the task records *)

\* Task s moves to program counter pc and keeps its event.
MovesTo(s, pc) ==
    /\ task' \in [Slots -> Task]
    /\ \A x \in Slots : x # s => task'[x] = task[x]
    /\ task'[s].pc = pc /\ task'[s].ev = task[s].ev
    /\ pc = "finish" => task'[s].seen \in Statuses \ {"absent"}

\* A task that goes on keeps the types of all tasks.
LEMMA GotoMoves ==
    ASSUME TasksOK, NEW s \in Slots, NEW pc \in PCs \ {"finish"}, Goto(s, pc)
    PROVE  MovesTo(s, pc)
BY DEF Goto, MovesTo, TasksOK, Task

\* A task steps only while the worker runs and the task has an event.
LEMMA TaskStepRuns ==
    ASSUME TasksOK, NEW s \in Slots, TaskStep(s)
    PROVE  Running /\ task[s].pc # "idle" /\ task[s].ev \in Events
<1>1. Running /\ task[s].pc # "idle"
  BY DEF At, TaskStep, Claim, Duplicate, Raise, Dispose, SkipDownload, Download, Extract,
         SingleFileFails, TransientFailure, RecordVerdict, Notify, Complete, RequeueRead,
         RequeueRetry, RequeueExhausted, RequeueFails, NotifyFailure, RaisedRead, RaisedFail,
         RaisedKeep, CleanupRead, CleanupWrite, Unpark
<1> QED
  BY <1>1 DEF TasksOK, Task

\* Which variables a step of a task leaves alone, and which action touches the others.
LEMMA TaskStepFrame ==
    ASSUME NEW s \in Slots, TaskStep(s)
    PROVE  /\ UNCHANGED <<queue, delivered, phase, todo, due, restarts>>
           /\ UNCHANGED parked \/ Unpark(s)
           /\ UNCHANGED pending \/ RequeueRetry(s)
           /\ UNCHANGED verdicts \/ \E risky \in BOOLEAN : RecordVerdict(s, risky)
           /\ UNCHANGED alerts \/ Notify(s)
           /\ UNCHANGED failAlerts \/ NotifyFailure(s)
           /\ UNCHANGED files \/ Download(s) \/ RemoveFiles(task[s].ev)
           /\ UNCHANGED faults \/ Fault
           /\ \/ UNCHANGED row
              \/ Claim(s) \/ RequeueRetry(s) \/ CleanupWrite(s)
              \/ \E st \in Terminal : SetStatus(task[s].ev, st)
<1> USE DEF lists, startup, effects, bounds
<1>1. UNCHANGED <<queue, delivered, phase, todo, due, restarts>>
  BY DEF TaskStep, Claim, Duplicate, Raise, Dispose, SkipDownload, Download, Extract,
         SingleFileFails, TransientFailure, RecordVerdict, Notify, Complete, RequeueRead,
         RequeueRetry, RequeueExhausted, RequeueFails, NotifyFailure, RaisedRead, RaisedFail,
         RaisedKeep, CleanupRead, CleanupWrite, Unpark, Fault
<1>2. UNCHANGED parked \/ Unpark(s)
  BY DEF TaskStep, Claim, Duplicate, Raise, Dispose, SkipDownload, Download, Extract,
         SingleFileFails, TransientFailure, RecordVerdict, Notify, Complete, RequeueRead,
         RequeueRetry, RequeueExhausted, RequeueFails, NotifyFailure, RaisedRead, RaisedFail,
         RaisedKeep, CleanupRead, CleanupWrite, Unpark
<1>3. UNCHANGED pending \/ RequeueRetry(s)
  BY DEF TaskStep, Claim, Duplicate, Raise, Dispose, SkipDownload, Download, Extract,
         SingleFileFails, TransientFailure, RecordVerdict, Notify, Complete, RequeueRead,
         RequeueRetry, RequeueExhausted, RequeueFails, NotifyFailure, RaisedRead, RaisedFail,
         RaisedKeep, CleanupRead, CleanupWrite, Unpark
<1>4. /\ UNCHANGED verdicts \/ \E risky \in BOOLEAN : RecordVerdict(s, risky)
      /\ UNCHANGED alerts \/ Notify(s)
      /\ UNCHANGED failAlerts \/ NotifyFailure(s)
  BY DEF TaskStep, Claim, Duplicate, Raise, Dispose, SkipDownload, Download, Extract,
         SingleFileFails, TransientFailure, RecordVerdict, Notify, Complete, RequeueRead,
         RequeueRetry, RequeueExhausted, RequeueFails, NotifyFailure, RaisedRead, RaisedFail,
         RaisedKeep, CleanupRead, CleanupWrite, Unpark
<1>5. UNCHANGED files \/ Download(s) \/ RemoveFiles(task[s].ev)
  BY DEF TaskStep, Claim, Duplicate, Raise, Dispose, SkipDownload, Download, Extract,
         SingleFileFails, TransientFailure, RecordVerdict, Notify, Complete, RequeueRead,
         RequeueRetry, RequeueExhausted, RequeueFails, NotifyFailure, RaisedRead, RaisedFail,
         RaisedKeep, CleanupRead, CleanupWrite, Unpark
<1>6. UNCHANGED faults \/ Fault
  BY DEF TaskStep, Claim, Duplicate, Raise, Dispose, SkipDownload, Download, Extract,
         SingleFileFails, TransientFailure, RecordVerdict, Notify, Complete, RequeueRead,
         RequeueRetry, RequeueExhausted, RequeueFails, NotifyFailure, RaisedRead, RaisedFail,
         RaisedKeep, CleanupRead, CleanupWrite, Unpark
<1>7. \/ UNCHANGED row
      \/ Claim(s) \/ RequeueRetry(s) \/ CleanupWrite(s)
      \/ \E st \in Terminal : SetStatus(task[s].ev, st)
  BY DEF TaskStep, Claim, Duplicate, Raise, Dispose, SkipDownload, Download, Extract,
         SingleFileFails, TransientFailure, RecordVerdict, Notify, Complete, RequeueRead,
         RequeueRetry, RequeueExhausted, RequeueFails, NotifyFailure, RaisedRead, RaisedFail,
         RaisedKeep, CleanupRead, CleanupWrite, Unpark, Terminal
<1> QED
  BY <1>1, <1>2, <1>3, <1>4, <1>5, <1>6, <1>7

\* The plain moves of a task. The steps that read a counter or a status first, and the
\* last steps of a task, are told apart.
PlainPCs == PCs \ {"idle", "claim", "requeueWrite", "finish", "unpark"}

\* A task replaced by another record of the same event
LEMMA UpdateMoves ==
    ASSUME TypeInv, NEW s \in Slots, NEW t \in Task, task' = [task EXCEPT ![s] = t],
           t.ev = task[s].ev, t.pc = "finish" => t.seen \in Statuses \ {"absent"}
    PROVE  MovesTo(s, t.pc)
BY DEF MovesTo, TypeInv, TasksOK

\* Every step of a task moves it, by one of the moves below.
LEMMA TaskStepMoves ==
    ASSUME TypeInv, NEW s \in Slots, TaskStep(s)
    PROVE  \/ \E pc \in PlainPCs : MovesTo(s, pc) /\ task[s].pc \notin {"finish", "unpark"}
           \/ RequeueRead(s) /\ MovesTo(s, "requeueWrite")
           \/ CleanupRead(s) /\ MovesTo(s, "finish")
           \/ CleanupWrite(s) /\ MovesTo(s, "unpark")
           \/ Unpark(s)
<1> USE DEF PCs, PlainPCs
<1>1. CASE Claim(s)
  <2> DEFINE t == [task[s] EXCEPT !.pc = "working", !.own = TRUE]
  <2>1. t \in Task /\ t.pc = "working" /\ t.ev = task[s].ev
    BY DEF TypeInv, TasksOK, Task
  <2>2. task' = [task EXCEPT ![s] = t]
    BY <1>1 DEF Claim
  <2> HIDE DEF t
  <2>3. MovesTo(s, "working")
    BY <2>1, <2>2, UpdateMoves
  <2> QED
    BY <1>1, <2>3 DEF Claim, At
<1>2. CASE RequeueRead(s)
  <2> DEFINE k == row[task[s].ev].retries
             t == [task[s] EXCEPT !.pc = "requeueWrite", !.n = k]
  <2>1. k \in Nat
    BY TaskStepRuns DEF TypeInv, RowsOK, Row
  <2>2. task' = [task EXCEPT ![s] = t]
    BY <1>2 DEF RequeueRead
  <2> HIDE DEF k
  <2>3. t \in Task /\ t.pc = "requeueWrite" /\ t.ev = task[s].ev
    BY <2>1 DEF TypeInv, TasksOK, Task
  <2> HIDE DEF t
  <2> QED
    BY <1>2, <2>2, <2>3, UpdateMoves
<1>3. CASE RaisedRead(s)
  <2> DEFINE c == CurrentStatus(task[s].ev)
             t == [task[s] EXCEPT !.pc = "raisedWrite", !.seen = c]
  <2>1. c \in Statuses
    BY CurrentStatusType, TaskStepRuns DEF TypeInv, RowsOK
  <2>2. task' = [task EXCEPT ![s] = t]
    BY <1>3 DEF RaisedRead
  <2> HIDE DEF c
  <2>3. t \in Task /\ t.pc = "raisedWrite" /\ t.ev = task[s].ev
    BY <2>1 DEF TypeInv, TasksOK, Task
  <2> HIDE DEF t
  <2>4. MovesTo(s, "raisedWrite")
    BY <2>2, <2>3, UpdateMoves
  <2> QED
    BY <1>3, <2>4 DEF RaisedRead, At
<1>4. CASE CleanupRead(s)
  <2> DEFINE c == CurrentStatus(task[s].ev)
             t == [task[s] EXCEPT !.pc = "finish", !.seen = c]
  <2>1. c \in Statuses \ {"absent"}
    BY CurrentStatusType, TaskStepRuns DEF TypeInv, RowsOK
  <2>2. task' = [task EXCEPT ![s] = t]
    BY <1>4 DEF CleanupRead
  <2> HIDE DEF c
  <2>3. t \in Task /\ t.pc = "finish" /\ t.ev = task[s].ev /\ t.seen \in Statuses \ {"absent"}
    BY <2>1 DEF TypeInv, TasksOK, Task
  <2> HIDE DEF t
  <2> QED
    BY <1>4, <2>2, <2>3, UpdateMoves
<1>5. CASE Unpark(s)
  BY <1>5
<1>6. CASE \/ Duplicate(s) \/ Raise(s) \/ SkipDownload(s) \/ Download(s) \/ Extract(s)
           \/ SingleFileFails(s) \/ TransientFailure(s) \/ Notify(s) \/ Complete(s)
           \/ RequeueRetry(s) \/ RequeueExhausted(s) \/ RequeueFails(s) \/ NotifyFailure(s)
           \/ RaisedFail(s) \/ RaisedKeep(s)
           \/ \E st \in {"completed", "pending_manual_inspection"} : Dispose(s, st)
           \/ \E risky \in BOOLEAN : RecordVerdict(s, risky)
  <2>1. /\ \E pc \in PlainPCs : Goto(s, pc)
        /\ task[s].pc \notin {"finish", "unpark"}
    BY <1>6 DEF Duplicate, Raise, Dispose, SkipDownload, Download, Extract, SingleFileFails,
         TransientFailure, RecordVerdict, Notify, Complete, RequeueRetry, RequeueExhausted,
         RequeueFails, NotifyFailure, RaisedFail, RaisedKeep, At
  <2> QED
    BY <2>1, GotoMoves DEF TypeInv
<1>7. CASE CleanupWrite(s)
  BY <1>7, GotoMoves DEF CleanupWrite, TypeInv
<1> QED
  BY <1>1, <1>2, <1>3, <1>4, <1>5, <1>6, <1>7 DEF TaskStep

\* A task that took its event off the parked list is free again.
LEMMA UnparkIdles ==
    ASSUME TasksOK, NEW s \in Slots, Unpark(s)
    PROVE  /\ task' \in [Slots -> Task]
           /\ \A x \in Slots : x # s => task'[x] = task[x]
           /\ task'[s] = Idle
BY DEF Unpark, TasksOK, Idle, Task, PCs

-----------------------------------------------------------------------------
(* Type correctness *)

\* The worker starts with variables of their types.
LEMMA InitTypeInv == Init => TypeInv
BY DEF Init, TypeInv, ListsOK, RowsOK, TasksOK, EffectsOK, Idle, Task, PCs, Statuses, Row, NoRow,
       NoTimers, NoFiles, Running

\* A step of a task keeps the types.
LEMMA TaskStepTypeInv ==
    ASSUME TypeInv, NEW s \in Slots, TaskStep(s)
    PROVE  TypeInv'
<1> DEFINE e == task[s].ev
<1>1. Running /\ task[s].pc # "idle" /\ e \in Events
  BY TaskStepRuns DEF TypeInv
<1>2. TasksOK'
  <2>1. CASE Unpark(s)
    BY <1>1, <2>1, UnparkIdles, TaskStepFrame DEF TypeInv, TasksOK, Idle, Running
  <2>2. ASSUME NEW pc \in PCs \ {"idle"}, MovesTo(s, pc) PROVE TasksOK'
    BY <1>1, <2>2, TaskStepFrame DEF TypeInv, TasksOK, MovesTo, Running
  <2> QED
    BY <2>1, <2>2, TaskStepMoves DEF PlainPCs, PCs
<1>3. RowsOK'
  <2> USE DEF TypeInv, RowsOK
  <2>1. ASSUME NEW st \in Statuses, SetStatus(e, st) PROVE row' \in [Events -> Row]
    BY <1>1, <2>1, WithStatusType DEF SetStatus
  <2>2. CASE Claim(s)
    BY <1>1, <2>2, ClaimedType, TaskStepFrame DEF Claim
  <2>3. CASE RequeueRetry(s)
    BY <1>1, <2>3, RequeuedType, TaskStepFrame DEF RequeueRetry
  <2>4. CASE CleanupWrite(s)
    BY <2>1, <2>4, TaskStepFrame DEF CleanupWrite, At, TasksOK
  <2>5. ASSUME NEW st \in Terminal, SetStatus(e, st) PROVE RowsOK'
    BY <2>1, <2>5, TaskStepFrame DEF Statuses
  <2> QED
    BY <2>2, <2>3, <2>4, <2>5, TaskStepFrame
<1>4. ListsOK'
  <2>1. parked' \in [Events -> Nat]
    <3>1. CASE Unpark(s)
      <4> DEFINE n == IF parked[e] > 0 THEN parked[e] - 1 ELSE 0
      <4>1. parked[e] \in Nat
        BY <1>1 DEF TypeInv, ListsOK
      <4>2. n \in Nat
        BY <4>1
      <4>3. parked' = parked \/ parked' = [parked EXCEPT ![e] = n]
        BY <3>1 DEF Unpark
      <4> HIDE DEF n
      <4> QED
        BY <4>2, <4>3 DEF TypeInv, ListsOK
    <3> QED
      BY <3>1, TaskStepFrame DEF TypeInv, ListsOK
  <2>2. pending' \in [Events -> Nat]
    BY <1>1, TaskStepFrame DEF RequeueRetry, ScheduleRetry, TypeInv, ListsOK
  <2> QED
    BY <2>1, <2>2, TaskStepFrame DEF TypeInv, ListsOK
<1>5. EffectsOK'
  <2> USE DEF TypeInv, EffectsOK
  <2>1. files' \in [Events -> {"none", "fresh", "old"}]
    BY <1>1, TaskStepFrame DEF Download, RemoveFiles
  <2>2. verdicts' \in [Events -> Nat]
    BY <1>1, TaskStepFrame DEF RecordVerdict
  <2>3. alerts' \in [Events -> Nat]
    BY <1>1, TaskStepFrame DEF Notify
  <2>4. failAlerts' \in SUBSET Events
    BY <1>1, TaskStepFrame DEF NotifyFailure
  <2> QED
    BY <2>1, <2>2, <2>3, <2>4, TaskStepFrame DEF Fault
<1> QED
  BY <1>2, <1>3, <1>4, <1>5 DEF TypeInv

\* The steps of the producers and the timers.
LEMMA TimerStepTypeInv ==
    ASSUME TypeInv, NEW e \in Events,
           Deliver(e) \/ DelayedPush(e) \/ StaleSweep(e) \/ AgeRow(e) \/ AgeFile(e)
    PROVE  TypeInv'
<1> USE DEF TypeInv
<1>1. ListsOK'
  <2>1. CASE Deliver(e) \/ DelayedPush(e)
    <3>1. queue' = Append(queue, e)
      BY <2>1 DEF Deliver, DelayedPush
    <3>2. queue' \in Seq(Events)
      BY <3>1, AppendProperties DEF ListsOK
    <3>3. UNCHANGED parked /\ delivered' \in [Events -> Nat] /\ pending' \in [Events -> Nat]
      BY <2>1 DEF Deliver, DelayedPush, ListsOK
    <3> QED
      BY <3>2, <3>3 DEF ListsOK
  <2> QED
    BY <2>1 DEF StaleSweep, AgeRow, AgeFile, ListsOK, lists
<1>2. RowsOK'
  <2>1. CASE AgeRow(e)
    <3>1. \/ row' = [row EXCEPT ![e] = [row[e] EXCEPT !.started = "old"]]
          \/ row' = [row EXCEPT ![e] = [row[e] EXCEPT !.stale = TRUE]]
      BY <2>1 DEF AgeRow
    <3>2. row[e] \in Row
      BY DEF RowsOK
    <3>3. row' \in [Events -> Row]
      BY <3>1, <3>2, AgedType DEF RowsOK
    <3> QED
      BY <2>1, <3>3 DEF AgeRow, RowsOK, startup
  <2> QED
    BY <2>1 DEF Deliver, DelayedPush, StaleSweep, AgeFile, RowsOK, startup
<1>3. TasksOK'
  BY DEF Deliver, DelayedPush, StaleSweep, AgeRow, AgeFile, TasksOK, Running
<1>4. EffectsOK'
  BY DEF Deliver, DelayedPush, StaleSweep, AgeRow, AgeFile, EffectsOK, effects, bounds
<1> QED
  BY <1>1, <1>2, <1>3, <1>4

\* The main loop takes a job off the queue.
LEMMA PopTypeInv ==
    ASSUME TypeInv, NEW s \in Slots, Pop(s)
    PROVE  TypeInv'
<1> DEFINE h == Head(queue)
<1> USE DEF TypeInv
<1>1. h \in Events /\ h # NoEvent /\ Tail(queue) \in Seq(Events)
  BY HeadTailProperties, EventsAssumption DEF Pop, ListsOK
<1>2. ListsOK'
  <2>1. /\ queue' = Tail(queue) /\ parked' = [parked EXCEPT ![h] = @ + 1]
        /\ delivered' = delivered /\ pending' = pending
    BY DEF Pop, Park
  <2> HIDE DEF h
  <2>2. parked[h] + 1 \in Nat
    BY <1>1 DEF ListsOK
  <2>3. parked' \in [Events -> Nat]
    BY <2>1, <2>2 DEF ListsOK
  <2>4. queue' \in Seq(Events) /\ delivered' \in [Events -> Nat] /\ pending' \in [Events -> Nat]
    BY <1>1, <2>1 DEF ListsOK
  <2> QED
    BY <2>3, <2>4 DEF ListsOK
<1>3. TasksOK'
  <2>1. /\ task' \in [Slots -> Task]
        /\ \A x \in Slots : x # s => task'[x] = task[x]
        /\ task'[s].pc = "claim" /\ task'[s].ev = h
    BY <1>1 DEF Pop, Idle, TasksOK, Task, PCs
  <2> QED
    BY <1>1, <2>1 DEF Pop, TasksOK, Running
<1> QED
  BY <1>2, <1>3 DEF Pop, RowsOK, EffectsOK, startup, effects, bounds

\* The end of a process and the recovery of the next one.
LEMMA RestartTypeInv ==
    ASSUME TypeInv, Crash \/ Shutdown \/ Drained \/ StartupStep
    PROVE  TypeInv'
<1> USE DEF TypeInv
<1>1. CASE Crash \/ Drained
  <2>1. TasksOK'
    <3>1. Idle \in Task /\ Idle.pc = "idle" /\ Idle.ev = NoEvent
      BY DEF Idle, Task, PCs
    <3>2. phase' = "down" /\ task' = [s \in Slots |-> Idle]
      BY <1>1 DEF Crash, Drained, Stop
    <3> QED
      BY <3>1, <3>2 DEF TasksOK, Running
  <2>2. EffectsOK'
    BY <1>1 DEF Crash, Drained, Stop, NoFiles, EffectsOK, bounds
  <2> QED
    BY <1>1, <2>1, <2>2 DEF Crash, Drained, Stop, NoTimers, ListsOK, RowsOK, lists
<1>2. CASE Shutdown \/ Restart \/ FindStuck \/ FindOrphans \/ OrphanScanFails \/ Listen
  <2>1. TasksOK'
    BY <1>2 DEF Shutdown, Restart, FindStuck, FindOrphans, OrphanScanFails, Listen, TasksOK, Running
  <2>2. EffectsOK' /\ RowsOK' /\ ListsOK'
    BY <1>2 DEF Shutdown, Restart, FindStuck, FindOrphans, OrphanScanFails, Fault, Listen, ListsOK, RowsOK, EffectsOK,
         lists, startup, effects, bounds
  <2> QED
    BY <2>1, <2>2
<1>3. ASSUME NEW e \in Events, Reclaim(e) PROVE TypeInv'
  <2>1. ListsOK'
    BY <1>3, ConcatProperties DEF Reclaim, Reinsert, ListsOK
  <2> QED
    BY <1>3, <2>1 DEF Reclaim, RowsOK, TasksOK, EffectsOK, Running, startup, effects, bounds
<1>4. ASSUME NEW e \in Events, RecoverStuck(e) PROVE TypeInv'
  <2>1. RowsOK'
    BY <1>4, WithStatusType, RequeuedType DEF RecoverStuck, SetStatus, Statuses, Terminal, RowsOK
  <2> QED
    BY <1>4, <2>1 DEF RecoverStuck, ListsOK, TasksOK, EffectsOK, Running, lists, effects, bounds
<1>5. ASSUME NEW e \in Events, PushStuck(e) \/ PushOrphan(e) PROVE TypeInv'
  <2>1. ListsOK'
    <3>1. queue' = Append(queue, e) /\ UNCHANGED <<parked, delivered, pending>>
      BY <1>5 DEF PushStuck, PushOrphan
    <3> QED
      BY <3>1, AppendProperties DEF ListsOK
  <2> QED
    BY <1>5, <2>1 DEF PushStuck, PushOrphan, RowsOK, TasksOK, EffectsOK, Running, effects, bounds
<1> QED
  BY <1>1, <1>2, <1>3, <1>4, <1>5 DEF StartupStep

\* Every step keeps the types.
LEMMA NextTypeInv == TypeInv /\ [Next]_vars => TypeInv'
<1> SUFFICES ASSUME TypeInv, [Next]_vars PROVE TypeInv'
  OBVIOUS
<1>1. CASE UNCHANGED vars
  BY <1>1 DEF vars, lists, startup, effects, bounds, TypeInv, ListsOK, RowsOK, TasksOK, EffectsOK, Running
<1>2. CASE Next
  BY <1>2, TaskStepTypeInv, TimerStepTypeInv, PopTypeInv, RestartTypeInv DEF Next
<1> QED
  BY <1>1, <1>2

\* The types hold throughout, part by part.
THEOREM TypeInvInvariant == Spec => []TypeInv
BY InitTypeInv, NextTypeInv, PTL DEF Spec

\* Every variable keeps its type.
THEOREM TypeCorrect == Spec => []TypeOK
BY TypeInvInvariant, TypeInvTypes, PTL

-----------------------------------------------------------------------------
(* Downloaded files *)

\* A file that is there belongs to a task that still has its cleanup before it.
FilesInv ==
    \A e \in Events : files[e] # "none" =>
        \E s \in Slots : task[s].ev = e /\ task[s].pc \notin {"idle", "finish", "unpark"}

\* Files on disk stay with a task of their event: over the steps of a task.
LEMMA FilesTaskStep ==
    ASSUME TypeInv, FilesInv, NEW s \in Slots, TaskStep(s)
    PROVE  FilesInv'
<1> SUFFICES ASSUME NEW e \in Events, files'[e] # "none"
             PROVE  \E x \in Slots : task'[x].ev = e /\ task'[x].pc \notin {"idle", "finish", "unpark"}
  BY DEF FilesInv
<1>1. task[s].ev \in Events /\ task[s].pc # "idle"
  BY TaskStepRuns DEF TypeInv
<1>2. files[e] # "none" \/ (Download(s) /\ e = task[s].ev)
  <2>1. CASE Download(s)
    BY <1>1, <2>1 DEF Download, TypeInv, EffectsOK
  <2>2. CASE RemoveFiles(task[s].ev)
    BY <1>1, <2>2 DEF RemoveFiles, TypeInv, EffectsOK
  <2> QED
    BY <2>1, <2>2, TaskStepFrame
<1>3. CASE \E pc \in PlainPCs : MovesTo(s, pc) /\ task[s].pc \notin {"finish", "unpark"}
  BY <1>1, <1>2, <1>3 DEF FilesInv, MovesTo, PlainPCs, PCs
<1>4. CASE RequeueRead(s) /\ MovesTo(s, "requeueWrite")
  BY <1>1, <1>2, <1>4 DEF FilesInv, MovesTo
<1>5. CASE CleanupRead(s) /\ MovesTo(s, "finish")
  <2>1. files[e] # "none" /\ e # task[s].ev
    BY <1>1, <1>5 DEF CleanupRead, RemoveFiles, TypeInv, EffectsOK
  <2> QED
    BY <1>5, <2>1 DEF FilesInv, MovesTo
<1>6. CASE CleanupWrite(s) /\ MovesTo(s, "unpark")
  BY <1>2, <1>6 DEF FilesInv, MovesTo, CleanupWrite, At, Download
<1>7. CASE Unpark(s)
  <2>1. files[e] # "none" /\ task[s].pc = "unpark"
    BY <1>7 DEF Unpark, At, effects
  <2> QED
    BY <1>7, <2>1, UnparkIdles DEF FilesInv, TypeInv
<1> QED
  BY <1>3, <1>4, <1>5, <1>6, <1>7, TaskStepMoves

\* Files on disk stay with a task of their event: over every step.
LEMMA FilesNext == TypeInv /\ FilesInv /\ [Next]_vars => FilesInv'
<1> SUFFICES ASSUME TypeInv, FilesInv, [Next]_vars PROVE FilesInv'
  OBVIOUS
<1>1. ASSUME NEW s \in Slots, Pop(s) PROVE FilesInv'
  <2>1. /\ UNCHANGED files /\ task[s].pc = "idle"
        /\ \A x \in Slots : x # s => task'[x] = task[x]
    BY <1>1 DEF Pop, effects, TypeInv, TasksOK
  <2> QED
    BY <2>1 DEF FilesInv
<1>2. ASSUME NEW e \in Events, StaleSweep(e) \/ AgeFile(e) PROVE FilesInv'
  BY <1>2 DEF StaleSweep, AgeFile, FilesInv, TypeInv, EffectsOK
<1>3. ASSUME NEW e \in Events, Deliver(e) \/ DelayedPush(e) \/ AgeRow(e) PROVE FilesInv'
  BY <1>3 DEF Deliver, DelayedPush, AgeRow, FilesInv, effects
<1>4. CASE Crash \/ Drained
  BY <1>4 DEF Crash, Drained, Stop, NoFiles, FilesInv
<1>5. CASE Shutdown \/ StartupStep
  BY <1>5 DEF Shutdown, StartupStep, Restart, FindStuck, FindOrphans, OrphanScanFails, Listen, Reclaim,
       RecoverStuck, PushStuck, PushOrphan, FilesInv, effects
<1>6. CASE UNCHANGED vars
  BY <1>6 DEF vars, effects, FilesInv
<1> QED
  BY <1>1, <1>2, <1>3, <1>4, <1>5, <1>6, FilesTaskStep DEF Next

\* No downloaded file outlives the tasks of its event, whichever copy of the job
\* downloaded it and whichever removes it (cleanup_event_files in process_job).
THEOREM FilesSafe == Spec => []FilesHaveTask
<1>1. Init => FilesInv
  BY DEF Init, NoFiles, FilesInv
<1>2. FilesInv => FilesHaveTask
  BY DEF FilesInv, FilesHaveTask, TasksOf
<1> QED
  BY <1>1, <1>2, FilesNext, TypeInvInvariant, PTL DEF Spec

-----------------------------------------------------------------------------
(* Jobs that have no row yet *)

\* Without failed calls a task past its claim works on an event that has a row.
RowlessInv ==
    faults = 0 =>
        /\ \A s \in Slots : task[s].pc \notin {"idle", "claim"} => row[task[s].ev].status # "absent"
        /\ \A e \in Events : delivered[e] > 0 /\ row[e].status = "absent" => OnAList(e)

\* No step of a task deletes a row.
LEMMA RowsStay ==
    ASSUME TypeInv, NEW s \in Slots, TaskStep(s), NEW e \in Events, row'[e].status = "absent"
    PROVE  row[e].status = "absent"
<1>1. task[s].ev \in Events
  BY TaskStepRuns DEF TypeInv
<1>2. ASSUME NEW st \in Statuses, st # "absent", SetStatus(task[s].ev, st) PROVE row[e].status = "absent"
  BY <1>1, <1>2, WithStatusType DEF SetStatus, TypeInv, RowsOK
<1>3. CASE Claim(s)
  BY <1>1, <1>3 DEF Claim, TypeInv, RowsOK, Row
<1>4. CASE RequeueRetry(s)
  BY <1>1, <1>4, RequeuedType DEF RequeueRetry, TypeInv, RowsOK
<1>5. CASE CleanupWrite(s)
  BY <1>2, <1>5 DEF CleanupWrite, At, TypeInv, TasksOK
<1>6. ASSUME NEW st \in Terminal, SetStatus(task[s].ev, st) PROVE row[e].status = "absent"
  BY <1>2, <1>6 DEF Terminal, Statuses
<1> QED
  BY <1>3, <1>4, <1>5, <1>6, TaskStepFrame

\* A job on a Redis list stays there when another is appended.
LEMMA OnAListFacts ==
    ASSUME TypeInv, NEW e \in Events
    PROVE  /\ \A x \in Events : queue' = Append(queue, x) /\ UNCHANGED parked
                => (OnAList(e) => OnAList(e)') /\ OnAList(x)'
           /\ UNCHANGED <<queue, parked>> => (OnAList(e) => OnAList(e)')
<1>1. ASSUME NEW x \in Events, queue' = Append(queue, x), UNCHANGED parked
      PROVE  (OnAList(e) => OnAList(e)') /\ OnAList(x)'
  <2>1. /\ Len(queue') = Len(queue) + 1 /\ Len(queue) \in Nat
        /\ \A i \in 1..Len(queue) : queue'[i] = queue[i]
        /\ queue'[Len(queue) + 1] = x
    BY <1>1, AppendProperties, LenProperties DEF TypeInv, ListsOK
  <2>2. OnAList(x)'
    BY <2>1 DEF OnAList
  <2>3. OnAList(e) => OnAList(e)'
    BY <1>1, <2>1 DEF OnAList
  <2> QED
    BY <2>2, <2>3
<1>2. UNCHANGED <<queue, parked>> => (OnAList(e) => OnAList(e)')
  BY DEF OnAList
<1> QED
  BY <1>1, <1>2

\* A job without a row stays on a list: over the steps of a task.
LEMMA RowlessTaskStep ==
    ASSUME TypeInv, RowlessInv, NEW s \in Slots, TaskStep(s)
    PROVE  RowlessInv'
<1> DEFINE ev == task[s].ev
<1> SUFFICES ASSUME faults' = 0
             PROVE  /\ \A x \in Slots : task'[x].pc \notin {"idle", "claim"}
                                          => row'[task'[x].ev].status # "absent"
                    /\ \A e \in Events : delivered'[e] > 0 /\ row'[e].status = "absent" => OnAList(e)'
  BY DEF RowlessInv
<1>1. ev \in Events /\ task[s].pc # "idle" /\ delivered' = delivered /\ queue' = queue
  BY TaskStepRuns, TaskStepFrame DEF TypeInv
<1>2. faults = 0
  BY TaskStepFrame DEF Fault, TypeInv, EffectsOK
<1>3. row'[ev].status # "absent"
  <2>1. CASE task[s].pc # "claim"
    BY <1>1, <1>2, <2>1, RowsStay DEF RowlessInv
  <2>2. CASE Claim(s)
    BY <1>1, <2>2 DEF Claim, TypeInv, RowsOK, Row
  <2>3. CASE Duplicate(s)
    BY <1>1, <2>3 DEF Duplicate
  <2>4. ~Raise(s)
    BY <1>2 DEF Raise, Fault
  <2>5. task[s].pc = "claim" => Claim(s) \/ Duplicate(s) \/ Raise(s)
    BY DEF At, TaskStep, Dispose, SkipDownload, Download, Extract,
         SingleFileFails, TransientFailure, RecordVerdict, Notify, Complete, RequeueRead,
         RequeueRetry, RequeueExhausted, RequeueFails, NotifyFailure, RaisedRead, RaisedFail,
         RaisedKeep, CleanupRead, CleanupWrite, Unpark
  <2> QED
    BY <2>1, <2>2, <2>3, <2>4, <2>5
<1>4. \A x \in Slots : x # s => task'[x] = task[x]
  BY TaskStepMoves, UnparkIdles DEF MovesTo, TypeInv
<1>5. task'[s].ev = ev \/ task'[s].pc = "idle"
  BY TaskStepMoves, UnparkIdles DEF MovesTo, Idle, TypeInv
<1>6. \A x \in Slots : task'[x].pc \notin {"idle", "claim"} => row'[task'[x].ev].status # "absent"
  <2> SUFFICES ASSUME NEW x \in Slots, task'[x].pc \notin {"idle", "claim"}
               PROVE  row'[task'[x].ev].status # "absent"
    OBVIOUS
  <2>1. CASE x = s
    BY <1>3, <1>5, <2>1
  <2>2. CASE x # s
    <3>1. task[x].ev \in Events
      BY <1>4, <2>2 DEF TypeInv, TasksOK, Task
    <3> QED
      BY <1>2, <1>4, <2>2, <3>1, RowsStay DEF RowlessInv
  <2> QED
    BY <2>1, <2>2
<1>7. ASSUME NEW e \in Events, delivered'[e] > 0, row'[e].status = "absent" PROVE OnAList(e)'
  <2>1. e # ev
    BY <1>3, <1>7
  <2>2. OnAList(e)
    BY <1>1, <1>2, <1>7, RowsStay DEF RowlessInv
  <2>3. parked'[e] = parked[e]
    BY <1>1, <2>1, TaskStepFrame DEF Unpark, TypeInv, ListsOK
  <2> QED
    BY <1>1, <2>2, <2>3 DEF OnAList
<1> QED
  BY <1>6, <1>7

\* A job without a row stays on a list: over every step.
LEMMA RowlessNext == TypeInv /\ RowlessInv /\ [Next]_vars => RowlessInv'
<1> SUFFICES ASSUME TypeInv, RowlessInv, [Next]_vars PROVE RowlessInv'
  OBVIOUS
<1>1. ASSUME NEW e \in Events, Deliver(e) PROVE RowlessInv'
  <2>1. queue' = Append(queue, e) /\ UNCHANGED <<parked, row, task, faults>>
    BY <1>1 DEF Deliver, bounds
  <2>2. \A x \in Events : x # e => delivered'[x] = delivered[x]
    BY <1>1 DEF Deliver, TypeInv, ListsOK
  <2> QED
    BY <2>1, <2>2, OnAListFacts DEF RowlessInv
<1>2. ASSUME NEW s \in Slots, Pop(s) PROVE RowlessInv'
  <2> DEFINE h == Head(queue)
  <2>1. h \in Events /\ Tail(queue) \in Seq(Events) /\ Len(queue) \in Nat \ {0}
        /\ Len(Tail(queue)) = Len(queue) - 1
        /\ \A i \in 1..Len(Tail(queue)) : Tail(queue)[i] = queue[i + 1]
        /\ h = queue[1]
    BY <1>2, HeadTailProperties, LenProperties, EmptySeq DEF Pop, TypeInv, ListsOK
  <2>2. UNCHANGED <<delivered, row, faults>> /\ queue' = Tail(queue)
        /\ parked' = [parked EXCEPT ![h] = parked[h] + 1]
    BY <1>2 DEF Pop, Park, bounds
  <2>3. /\ \A x \in Slots : x # s => task'[x] = task[x]
        /\ task'[s].pc = "claim"
    BY <1>2 DEF Pop, Idle, TypeInv, TasksOK
  <2>4. ASSUME NEW e \in Events, OnAList(e) PROVE OnAList(e)'
    <3>1. CASE e = h \/ parked[e] > 0
      BY <2>1, <2>2, <3>1 DEF OnAList, TypeInv, ListsOK
    <3>2. CASE e # h /\ ~(parked[e] > 0)
      <4>1. PICK i \in 1..Len(queue) : queue[i] = e
        BY <2>4, <3>2 DEF OnAList
      <4>2. i - 1 \in 1..Len(queue') /\ queue'[i - 1] = e
        BY <2>1, <2>2, <3>2, <4>1
      <4> QED
        BY <4>2 DEF OnAList
    <3> QED
      BY <3>1, <3>2
  <2> QED
    BY <2>2, <2>3, <2>4 DEF RowlessInv
<1>3. ASSUME NEW e \in Events, DelayedPush(e) \/ PushStuck(e) \/ PushOrphan(e) PROVE RowlessInv'
  <2>1. queue' = Append(queue, e) /\ UNCHANGED <<parked, delivered, row, task, faults>>
    BY <1>3 DEF DelayedPush, PushStuck, PushOrphan, bounds
  <2> QED
    BY <2>1, OnAListFacts DEF RowlessInv
<1>4. ASSUME NEW e \in Events, Reclaim(e) PROVE RowlessInv'
  <2>1. /\ queue' = <<e>> \o queue /\ parked' = [parked EXCEPT ![e] = parked[e] - 1]
        /\ UNCHANGED <<delivered, row, task, faults>>
    BY <1>4 DEF Reclaim, Reinsert, bounds
  <2>2. /\ Len(queue) \in Nat /\ Len(queue') = Len(queue) + 1
        /\ queue'[1] = e
        /\ \A i \in 1..Len(queue) : queue'[i + 1] = queue[i]
    BY <2>1, ConcatProperties, LenProperties DEF TypeInv, ListsOK
  <2>3. ASSUME NEW x \in Events, OnAList(x) PROVE OnAList(x)'
    <3>1. CASE x = e
      BY <2>2, <3>1 DEF OnAList
    <3>2. CASE x # e /\ parked[x] > 0
      BY <2>1, <3>2 DEF OnAList, TypeInv, ListsOK
    <3>3. CASE x # e /\ ~(parked[x] > 0)
      <4>1. PICK i \in 1..Len(queue) : queue[i] = x
        BY <2>3, <3>3 DEF OnAList
      <4> QED
        BY <2>2, <4>1 DEF OnAList
    <3> QED
      BY <3>1, <3>2, <3>3
  <2> QED
    BY <2>1, <2>3 DEF RowlessInv
<1>5. ASSUME NEW e \in Events, AgeRow(e) \/ RecoverStuck(e) PROVE RowlessInv'
  <2>1. UNCHANGED <<queue, parked, delivered, task, faults>>
    BY <1>5 DEF AgeRow, RecoverStuck, lists, bounds
  <2>2. ASSUME NEW x \in Events, row'[x].status = "absent" PROVE row[x].status = "absent"
    <3>1. CASE AgeRow(e)
      BY <2>2, <3>1 DEF AgeRow, TypeInv, RowsOK, Row
    <3>2. CASE RecoverStuck(e)
      <4>1. row[e] \in Row /\ "failed" \in Statuses
        BY DEF TypeInv, RowsOK, Statuses, Terminal
      <4>2. \/ row' = [row EXCEPT ![e] = WithStatus(row[e], "failed")]
            \/ row' = [row EXCEPT ![e] = Requeued(row[e])]
        BY <3>2 DEF RecoverStuck, SetStatus
      <4>3. /\ WithStatus(row[e], "failed").status = "absent" => row[e].status = "absent"
            /\ Requeued(row[e]).status # "absent"
        BY <4>1, WithStatusType, RequeuedType
      <4> QED
        BY <2>2, <4>1, <4>2, <4>3 DEF TypeInv, RowsOK
    <3> QED
      BY <1>5, <3>1, <3>2
  <2>3. \A x \in Slots : task[x].pc # "idle" => task[x].ev \in Events
    BY DEF TypeInv, TasksOK, Task
  <2> QED
    BY <2>1, <2>2, <2>3, OnAListFacts DEF RowlessInv
<1>6. CASE Crash \/ Drained
  <2>1. /\ UNCHANGED <<queue, parked, delivered, row, faults>>
        /\ \A x \in Slots : task'[x].pc = "idle"
    BY <1>6 DEF Crash, Drained, Stop, lists, bounds, Idle
  <2> QED
    BY <2>1, OnAListFacts DEF RowlessInv
<1>7. CASE \/ Shutdown \/ Restart \/ FindStuck \/ FindOrphans \/ OrphanScanFails
           \/ Listen \/ UNCHANGED vars \/ \E e \in Events : StaleSweep(e) \/ AgeFile(e)
  <2>1. /\ UNCHANGED <<queue, parked, delivered, row, task>>
        /\ faults' = 0 => faults = 0
    BY <1>7 DEF Shutdown, Restart, FindStuck, FindOrphans, OrphanScanFails, Fault, Listen, StaleSweep,
         AgeFile, vars, lists, bounds, TypeInv, EffectsOK
  <2> QED
    BY <2>1, OnAListFacts DEF RowlessInv
<1> QED
  BY <1>1, <1>2, <1>3, <1>4, <1>5, <1>6, <1>7, RowlessTaskStep DEF Next, StartupStep

\* While no call fails, a job that was pushed and has no row yet is never lost, through
\* crashes, reclaims and duplicate deliveries (BLMOVE and reclaim_inflight_jobs).
THEOREM RowlessSafe == Spec => []RowlessJobsKept
<1>1. Init => RowlessInv
  BY DEF Init, RowlessInv, Idle
<1>2. RowlessInv => RowlessJobsKept
  BY DEF RowlessInv, RowlessJobsKept
<1> QED
  BY <1>1, <1>2, RowlessNext, TypeInvInvariant, PTL DEF Spec

-----------------------------------------------------------------------------
(* The recovery sweeps of a starting worker *)

\* While the stuck rows are visited, the ones not yet visited are on the list; after
\* that no row is stuck, and an old queued row has a job or is still to be visited.
StartupInv ==
    /\ phase = "stuck" => \A e \in Events : Stuck(e) => e \in todo
    /\ phase = "orphans" => \A e \in Events :
          /\ ~Stuck(e)
          /\ row[e].status = "queued" /\ row[e].stale => OnAList(e) \/ e \in todo

\* What each phase of the startup has recovered stays recovered.
LEMMA StartupInvNext == TypeInv /\ StartupInv /\ [Next]_vars => StartupInv'
<1> SUFFICES ASSUME TypeInv, StartupInv, [Next]_vars PROVE StartupInv'
  OBVIOUS
<1>1. ASSUME NEW s \in Slots, TaskStep(s) PROVE StartupInv'
  BY <1>1, TaskStepRuns, TaskStepFrame DEF Running, StartupInv, TypeInv
<1>2. CASE \/ \E s \in Slots : Pop(s)
           \/ \E e \in Events : DelayedPush(e) \/ AgeRow(e) \/ AgeFile(e) \/ StaleSweep(e)
  BY <1>2 DEF DelayedPush, AgeRow, AgeFile, StaleSweep, Pop, Running, StartupInv
<1>3. CASE Crash \/ Shutdown \/ Drained \/ OrphanScanFails \/ Restart \/ Listen
  BY <1>3 DEF Crash, Shutdown, Drained, OrphanScanFails, Restart, Listen, Stop, StartupInv
<1>4. ASSUME NEW e \in Events, Reclaim(e) PROVE StartupInv'
  BY <1>4 DEF Reclaim, StartupInv
<1>5. ASSUME NEW x \in Events, Deliver(x) PROVE StartupInv'
  <2>1. queue' = Append(queue, x) /\ UNCHANGED <<parked, row, phase, todo>>
    BY <1>5 DEF Deliver, startup
  <2> QED
    BY <2>1, OnAListFacts DEF StartupInv, Stuck
<1>6. CASE FindStuck
  BY <1>6 DEF FindStuck, StartupInv, Stuck
<1>7. ASSUME NEW e \in Events, RecoverStuck(e) PROVE StartupInv'
  <2>1. phase = "stuck" /\ phase' = "stuck" /\ todo' = todo \ {e}
    BY <1>7 DEF RecoverStuck
  <2>2. \/ row' = [row EXCEPT ![e] = WithStatus(row[e], "failed")]
        \/ row' = [row EXCEPT ![e] = Requeued(row[e])]
    BY <1>7 DEF RecoverStuck, SetStatus
  <2>3. row[e] \in Row /\ "failed" \in Statuses
    BY DEF TypeInv, RowsOK, Statuses, Terminal
  <2>4. /\ WithStatus(row[e], "failed").status # "processing"
        /\ Requeued(row[e]).status # "processing"
    BY <2>3, WithStatusType, RequeuedType
  <2>5. ~Stuck(e)' /\ \A x \in Events : x # e => row'[x] = row[x]
    BY <2>2, <2>4 DEF Stuck, TypeInv, RowsOK
  <2> QED
    BY <2>1, <2>5 DEF StartupInv, Stuck
<1>8. ASSUME NEW x \in Events, PushStuck(x) PROVE StartupInv'
  BY <1>8 DEF PushStuck, StartupInv, Stuck
<1>9. CASE FindOrphans
  BY <1>9 DEF FindOrphans, StartupInv, Stuck, Orphan, OnAList, lists, TypeInv, ListsOK
<1>10. ASSUME NEW x \in Events, PushOrphan(x) PROVE StartupInv'
  <2>1. queue' = Append(queue, x) /\ UNCHANGED <<parked, row, phase>> /\ todo' = todo \ {x}
    BY <1>10 DEF PushOrphan
  <2>2. /\ OnAList(x)'
        /\ \A e \in Events : OnAList(e) => OnAList(e)'
    BY <2>1, OnAListFacts
  <2>3. \A e \in Events : ~Stuck(e)'
    BY <1>10, <2>1 DEF PushOrphan, StartupInv, Stuck
  <2>4. phase = "orphans" /\ phase' = "orphans"
    BY <1>10 DEF PushOrphan
  <2> QED
    BY <2>1, <2>2, <2>3, <2>4 DEF StartupInv
<1>11. CASE UNCHANGED vars
  BY <1>11 DEF vars, lists, startup, StartupInv, Stuck, OnAList
<1> QED
  BY <1>1, <1>2, <1>3, <1>4, <1>5, <1>6, <1>7, <1>8, <1>9, <1>10, <1>11 DEF Next, StartupStep

\* When the worker starts to listen, nothing is left to recover but by a failed scan.
LEMMA ListenRecovers == TypeInv /\ StartupInv /\ [Next]_vars => [ListenIsClean]_vars
<1> SUFFICES ASSUME TypeInv, StartupInv, [Next]_vars,
                    phase \in {"stuck", "orphans"}, phase' = "up"
             PROVE  \A e \in Events :
                       /\ ~Stuck(e)
                       /\ faults' = faults /\ row[e].status = "queued" /\ row[e].stale
                             => OnAList(e)
  BY DEF ListenIsClean
<1>1. \A s \in Slots : ~TaskStep(s)
  BY DEF At, Running, TaskStep, Claim, Duplicate, Raise, Dispose, SkipDownload, Download, Extract,
         SingleFileFails, TransientFailure, RecordVerdict, Notify, Complete, RequeueRead,
         RequeueRetry, RequeueExhausted, RequeueFails, NotifyFailure, RaisedRead, RaisedFail,
         RaisedKeep, CleanupRead, CleanupWrite, Unpark
<1>2. CASE Listen
  BY <1>2 DEF Listen, StartupInv
<1>3. CASE OrphanScanFails
  <2>1. faults' # faults
    BY <1>3 DEF OrphanScanFails, Fault, TypeInv, EffectsOK
  <2>2. \A e \in Events : ~Stuck(e)
    BY <1>3 DEF OrphanScanFails, StartupInv
  <2> QED
    BY <2>1, <2>2
<1>4. Listen \/ OrphanScanFails
  BY <1>1 DEF Next, StartupStep, Deliver, DelayedPush, StaleSweep, AgeRow, AgeFile, Pop, Crash, Stop,
       Shutdown, Drained, Restart, FindStuck, FindOrphans, Reclaim, RecoverStuck, PushStuck,
       PushOrphan, vars, Running
<1> QED
  BY <1>2, <1>3, <1>4

\* When a starting worker begins to listen, its sweeps have left no stuck row and,
\* unless a list scan failed at this start, no old queued row without a job, although
\* producers push while they run.
THEOREM StartupSafe == Spec => StartupRecovers
<1>1. Init => StartupInv
  BY DEF Init, StartupInv
<1>2. Spec => []StartupInv
  BY <1>1, StartupInvNext, TypeInvInvariant, PTL DEF Spec
<1> QED
  BY <1>2, ListenRecovers, TypeInvInvariant, PTL DEF Spec, StartupRecovers

-----------------------------------------------------------------------------
(* Counting the tasks of an event *)

\* Sets of slots are finite, and no larger than the pool.
LEMMA SlotSets ==
    ASSUME NEW A \in SUBSET Slots
    PROVE  IsFiniteSet(A) /\ Cardinality(A) \in Nat /\ Cardinality(A) <= Cardinality(Slots)
BY SlotsAssumption, FS_Subset, FS_CardinalityType

\* Without tasks, no event has one.
LEMMA TasksOfNone ==
    ASSUME NEW e \in Events, \A s \in Slots : task[s] = Idle
    PROVE  TasksOf(e) = {}
BY EventsAssumption DEF TasksOf, Idle

\* The number of tasks of an event never exceeds its copies on the processing list.
LEMMA ParkedNext == TypeInv /\ ParkedCoversTasks /\ [Next]_vars => ParkedCoversTasks'
<1> SUFFICES ASSUME TypeInv, ParkedCoversTasks, [Next]_vars, NEW e \in Events
             PROVE  Cardinality(TasksOf(e)') <= parked'[e]
  BY DEF ParkedCoversTasks
<1>1. /\ TasksOf(e) \in SUBSET Slots /\ Cardinality(TasksOf(e)) \in Nat
      /\ Cardinality(TasksOf(e)) <= parked[e] /\ parked[e] \in Nat /\ IsFiniteSet(TasksOf(e))
  BY SlotSets DEF TasksOf, ParkedCoversTasks, TypeInv, ListsOK
<1>2. ASSUME TasksOf(e)' = TasksOf(e), parked'[e] = parked[e]
      PROVE Cardinality(TasksOf(e)') <= parked'[e]
  BY <1>1, <1>2
<1>3. ASSUME NEW s \in Slots, Pop(s) PROVE Cardinality(TasksOf(e)') <= parked'[e]
  <2> DEFINE h == Head(queue)
  <2>1. /\ task[s].ev = NoEvent /\ \A x \in Slots : x # s => task'[x] = task[x]
        /\ task'[s].ev = h /\ h \in Events /\ parked' = [parked EXCEPT ![h] = parked[h] + 1]
    BY <1>3, HeadTailProperties DEF Pop, Park, Idle, TypeInv, TasksOK, ListsOK
  <2>2. CASE h = e
    <3>1. TasksOf(e)' = TasksOf(e) \cup {s}
      BY <2>1, <2>2, EventsAssumption DEF TasksOf
    <3>2. Cardinality(TasksOf(e)') <= Cardinality(TasksOf(e)) + 1
      <4>1. s \notin TasksOf(e)
        BY <2>1, EventsAssumption DEF TasksOf
      <4>2. Cardinality(TasksOf(e) \cup {s}) = Cardinality(TasksOf(e)) + 1
        BY <1>1, <4>1, FS_AddElement
      <4> QED
        BY <1>1, <3>1, <4>2
    <3>3. parked'[e] = parked[e] + 1
      BY <2>1, <2>2 DEF TypeInv, ListsOK
    <3>4. Cardinality(TasksOf(e)') \in Nat
      BY <3>1, <1>1, SlotSets
    <3> QED
      BY <1>1, <3>2, <3>3, <3>4
  <2>3. CASE h # e
    BY <1>2, <2>1, <2>3, EventsAssumption DEF TasksOf, TypeInv, ListsOK
  <2> QED
    BY <2>2, <2>3
<1>4. ASSUME NEW s \in Slots, TaskStep(s) PROVE Cardinality(TasksOf(e)') <= parked'[e]
  <2>1. CASE Unpark(s)
    <3> DEFINE ev == task[s].ev
    <3>1. /\ ev \in Events /\ task'[s].ev = NoEvent
          /\ \A x \in Slots : x # s => task'[x] = task[x]
      BY <1>4, <2>1, TaskStepRuns, UnparkIdles DEF TypeInv, Idle
    <3>2. CASE ev # e
      BY <1>2, <2>1, <3>1, <3>2, EventsAssumption DEF TasksOf, Unpark, TypeInv, ListsOK
    <3>3. CASE ev = e
      <4>1. TasksOf(e)' = TasksOf(e) \ {s} /\ s \in TasksOf(e)
        BY <3>1, <3>3, EventsAssumption DEF TasksOf
      <4>2. Cardinality(TasksOf(e)') = Cardinality(TasksOf(e)) - 1
        BY <1>1, <4>1, FS_RemoveElement
      <4>3. parked'[e] >= parked[e] - 1 /\ parked'[e] \in Nat
        BY <1>1, <2>1, <3>3 DEF Unpark, TypeInv, ListsOK
      <4> QED
        BY <1>1, <4>2, <4>3
    <3> QED
      BY <3>2, <3>3
  <2>2. CASE ~Unpark(s)
    BY <1>2, <1>4, <2>2, TaskStepFrame, TaskStepMoves DEF TasksOf, MovesTo
  <2> QED
    BY <2>1, <2>2
<1>5. CASE Crash \/ Drained \/ \E x \in Events : Reclaim(x)
  <2>1. TasksOf(e)' = {}
    <3>1. \A s \in Slots : task'[s] = Idle
      BY <1>5 DEF Crash, Drained, Stop, Reclaim, TypeInv, TasksOK, Running
    <3> QED
      BY <3>1, EventsAssumption DEF TasksOf, Idle
  <2>2. parked'[e] \in Nat
    BY <1>5, RestartTypeInv DEF StartupStep, TypeInv, ListsOK
  <2> QED
    BY <2>1, <2>2, FS_EmptySet
<1>6. CASE \/ Shutdown \/ Restart \/ FindStuck \/ FindOrphans \/ OrphanScanFails \/ Listen \/ UNCHANGED vars
           \/ \E x \in Events : \/ Deliver(x) \/ DelayedPush(x) \/ StaleSweep(x) \/ AgeRow(x)
                                \/ AgeFile(x) \/ RecoverStuck(x) \/ PushStuck(x) \/ PushOrphan(x)
  <2>1. UNCHANGED <<task, parked>>
    BY <1>6 DEF Shutdown, Restart, FindStuck, FindOrphans, OrphanScanFails, Listen, Deliver, DelayedPush, StaleSweep,
         AgeRow, AgeFile, RecoverStuck, PushStuck, PushOrphan, vars, lists
  <2> QED
    BY <1>2, <2>1 DEF TasksOf
<1> QED
  BY <1>3, <1>4, <1>5, <1>6 DEF Next, StartupStep

\* Whatever a task works on can be reclaimed after a crash: LREM by value never takes
\* more copies off the processing list than tasks have ended.
THEOREM ParkedSafe == Spec => []ParkedCoversTasks
<1>1. Init => ParkedCoversTasks
  BY TasksOfNone, FS_EmptySet DEF Init, ParkedCoversTasks
<1> QED
  BY <1>1, ParkedNext, TypeInvInvariant, PTL DEF Spec

-----------------------------------------------------------------------------
(* The retry limit *)

\* The tasks that have read a counter below the limit and not yet written
Requeuers(e) == {s \in TasksOf(e) : task[s].pc = "requeueWrite" /\ MayRequeue(task[s].n)}

\* Every such task may still add one to the counter.
RetryInv ==
    \A e \in Events :
        row[e].retries + Cardinality(Requeuers(e)) <= MaxEventRetries + Cardinality(Slots) - 1

\* The tasks about to requeue an event can be counted.
LEMMA RequeuersFinite ==
    ASSUME NEW e \in Events
    PROVE  /\ Requeuers(e) \in SUBSET Slots /\ IsFiniteSet(Requeuers(e))
           /\ Cardinality(Requeuers(e)) \in Nat
           /\ Cardinality(Requeuers(e)) <= Cardinality(Slots)
           /\ Cardinality(Slots) \in Nat \ {0}
<1>1. Requeuers(e) \in SUBSET Slots
  BY DEF Requeuers, TasksOf
<1>2. Cardinality(Slots) \in Nat \ {0}
  BY SlotsAssumption, FS_EmptySet, FS_CardinalityType
<1> QED
  BY <1>1, <1>2, SlotSets

\* Steps that add no requeuer and leave the counter alone
LEMMA RetryKept ==
    ASSUME TypeInv, RetryInv, NEW e \in Events,
           Requeuers(e)' \subseteq Requeuers(e), row'[e].retries = row[e].retries
    PROVE  row'[e].retries + Cardinality(Requeuers(e)') <= MaxEventRetries + Cardinality(Slots) - 1
<1>1. Cardinality(Requeuers(e)') <= Cardinality(Requeuers(e)) /\ Cardinality(Requeuers(e)') \in Nat
  BY RequeuersFinite, FS_Subset, FS_CardinalityType
<1>2. row[e].retries \in Nat
  BY DEF TypeInv, RowsOK, Row
<1> QED
  BY <1>1, <1>2, RequeuersFinite, BoundsAssumption DEF RetryInv

\* Only the requeue counts a retry.
LEMMA RetriesKept ==
    ASSUME TypeInv, NEW s \in Slots, TaskStep(s), ~RequeueRetry(s), NEW e \in Events
    PROVE  row'[e].retries = row[e].retries
<1>1. task[s].ev \in Events
  BY TaskStepRuns DEF TypeInv
<1>2. ASSUME NEW st \in Statuses, SetStatus(task[s].ev, st) PROVE row'[e].retries = row[e].retries
  BY <1>1, <1>2, WithStatusType DEF SetStatus, TypeInv, RowsOK
<1>3. CASE Claim(s)
  BY <1>1, <1>3 DEF Claim, TypeInv, RowsOK, Row
<1>4. CASE CleanupWrite(s)
  BY <1>2, <1>4 DEF CleanupWrite, At, TypeInv, TasksOK
<1>5. ASSUME NEW st \in Terminal, SetStatus(task[s].ev, st) PROVE row'[e].retries = row[e].retries
  BY <1>2, <1>5 DEF Statuses
<1> QED
  BY <1>3, <1>4, <1>5, TaskStepFrame

\* The retries stay below the limit and the pool: over the steps of a task.
LEMMA RetryTaskStep ==
    ASSUME TypeInv, RetryInv, NEW s \in Slots, TaskStep(s), NEW e \in Events
    PROVE  row'[e].retries + Cardinality(Requeuers(e)') <= MaxEventRetries + Cardinality(Slots) - 1
<1> DEFINE ev == task[s].ev
<1>1. ev \in Events /\ row[e].retries \in Nat /\ row[e] \in Row
  BY TaskStepRuns DEF TypeInv, RowsOK, Row
<1>2. \A x \in Slots : x # s => task'[x] = task[x]
  BY TaskStepMoves, UnparkIdles DEF MovesTo, TypeInv
<1>3. CASE RequeueRetry(s)
  <2>1. /\ task[s].pc = "requeueWrite" /\ MayRequeue(task[s].n) /\ task'[s].pc = "cleanup"
        /\ row' = [row EXCEPT ![ev] = Requeued(row[ev])]
    BY <1>3 DEF RequeueRetry, At, Goto, TypeInv, TasksOK, Task
  <2>2. CASE ev # e
    <3>1. row'[e] = row[e]
      BY <2>1, <2>2 DEF TypeInv, RowsOK
    <3>2. Requeuers(e)' \subseteq Requeuers(e)
      BY <1>2, <2>1 DEF Requeuers, TasksOf
    <3> QED
      BY <3>1, <3>2, RetryKept
  <2>3. CASE ev = e
    <3>1. row'[e].retries = row[e].retries + 1
      BY <1>1, <2>1, <2>3, RequeuedType DEF TypeInv, RowsOK
    <3>2. s \in Requeuers(e) /\ Requeuers(e)' \subseteq Requeuers(e) \ {s}
      BY <1>2, <2>1, <2>3 DEF Requeuers, TasksOf
    <3>3. /\ IsFiniteSet(Requeuers(e) \ {s})
          /\ Cardinality(Requeuers(e) \ {s}) = Cardinality(Requeuers(e)) - 1
      BY <3>2, RequeuersFinite, FS_RemoveElement
    <3>4. Cardinality(Requeuers(e)') <= Cardinality(Requeuers(e)) - 1 /\ Cardinality(Requeuers(e)') \in Nat
      BY <3>2, <3>3, FS_Subset, FS_CardinalityType
    <3> QED
      BY <1>1, <3>1, <3>4, RequeuersFinite, BoundsAssumption DEF RetryInv
  <2> QED
    BY <2>2, <2>3
<1>4. CASE RequeueRead(s)
  <2>1. row' = row
    BY <1>4 DEF RequeueRead
  <2>2. task'[s].n = row[ev].retries /\ task'[s].ev = ev
    BY <1>4 DEF RequeueRead, TypeInv, TasksOK, Task
  <2>3. CASE ev = e /\ MayRequeue(row[e].retries)
    <3>1. row[e].retries <= MaxEventRetries - 1
      BY <1>1, <2>3, BoundsAssumption DEF MayRequeue
    <3>2. Requeuers(e)' \in SUBSET Slots
      BY DEF Requeuers, TasksOf
    <3>3. Cardinality(Requeuers(e)') <= Cardinality(Slots) /\ Cardinality(Requeuers(e)') \in Nat
      BY <3>2, SlotSets
    <3> QED
      BY <1>1, <2>1, <3>1, <3>3, RequeuersFinite, BoundsAssumption
  <2>4. CASE ~(ev = e /\ MayRequeue(row[e].retries))
    <3>1. Requeuers(e)' \subseteq Requeuers(e)
      BY <1>2, <2>2, <2>4 DEF Requeuers, TasksOf, MayRequeue
    <3> QED
      BY <2>1, <3>1, RetryKept
  <2> QED
    BY <2>3, <2>4
<1>5. CASE ~RequeueRetry(s) /\ ~RequeueRead(s)
  <2>1. task'[s].pc # "requeueWrite"
    BY <1>5, TaskStepMoves, UnparkIdles DEF MovesTo, PlainPCs, Idle, TypeInv
  <2>2. Requeuers(e)' \subseteq Requeuers(e)
    BY <1>2, <2>1 DEF Requeuers, TasksOf
  <2> QED
    BY <1>5, <2>2, RetriesKept, RetryKept
<1> QED
  BY <1>3, <1>4, <1>5

\* The retries stay below the limit and the pool: over every step.
LEMMA RetryNext == TypeInv /\ RetryInv /\ [Next]_vars => RetryInv'
<1> SUFFICES ASSUME TypeInv, RetryInv, [Next]_vars, NEW e \in Events
             PROVE  row'[e].retries + Cardinality(Requeuers(e)') <= MaxEventRetries + Cardinality(Slots) - 1
  BY DEF RetryInv
<1>1. ASSUME NEW s \in Slots, Pop(s) PROVE Requeuers(e)' \subseteq Requeuers(e) /\ row' = row
  <2>1. task'[s].pc = "claim" /\ \A x \in Slots : x # s => task'[x] = task[x]
    BY <1>1 DEF Pop, Idle, TypeInv, TasksOK
  <2> QED
    BY <1>1, <2>1 DEF Pop, Requeuers, TasksOf
<1>2. CASE Crash \/ Drained
  <2>1. Requeuers(e)' = {} /\ row' = row
    BY <1>2 DEF Crash, Drained, Stop, Requeuers, TasksOf, Idle
  <2> QED
    BY <2>1, RetryKept
<1>3. ASSUME NEW x \in Events, AgeRow(x)
      PROVE Requeuers(e)' \subseteq Requeuers(e) /\ row'[e].retries = row[e].retries
  BY <1>3 DEF AgeRow, Requeuers, TasksOf, TypeInv, RowsOK, Row
<1>4. ASSUME NEW x \in Events, RecoverStuck(x)
      PROVE row'[e].retries + Cardinality(Requeuers(e)') <= MaxEventRetries + Cardinality(Slots) - 1
  <2>1. Requeuers(e) = {} /\ Requeuers(e)' = {}
    BY <1>4 DEF RecoverStuck, Requeuers, TasksOf, Running, Idle, TypeInv, TasksOK
  <2>2. \/ row' = [row EXCEPT ![x] = WithStatus(row[x], "failed")]
        \/ row' = [row EXCEPT ![x] = Requeued(row[x])] /\ MayRequeue(row[x].retries)
    BY <1>4 DEF RecoverStuck, SetStatus
  <2>3. row[x] \in Row /\ row[e].retries \in Nat /\ row[x].retries \in Nat /\ "failed" \in Statuses
    BY DEF TypeInv, RowsOK, Row, Statuses, Terminal
  <2>4. \/ row'[e].retries = row[e].retries
        \/ row'[e].retries = row[e].retries + 1 /\ MayRequeue(row[e].retries)
    <3>1. CASE e # x
      BY <2>2, <3>1 DEF TypeInv, RowsOK
    <3>2. CASE e = x
      <4>1. \/ row'[e] = WithStatus(row[e], "failed")
            \/ row'[e] = Requeued(row[e]) /\ MayRequeue(row[e].retries)
        <5>1. row \in [Events -> Row]
          BY DEF TypeInv, RowsOK
        <5>2. CASE row' = [row EXCEPT ![x] = WithStatus(row[x], "failed")]
          BY <3>2, <5>1, <5>2
        <5>3. CASE row' = [row EXCEPT ![x] = Requeued(row[x])] /\ MayRequeue(row[x].retries)
          BY <3>2, <5>1, <5>3
        <5> QED
          BY <2>2, <5>2, <5>3
      <4>2. WithStatus(row[e], "failed").retries = row[e].retries
        BY <2>3, <3>2, WithStatusType
      <4>3. Requeued(row[e]).retries = row[e].retries + 1
        BY <2>3, <3>2, RequeuedType
      <4> QED
        BY <4>1, <4>2, <4>3
    <3> QED
      BY <3>1, <3>2
  <2>5. Cardinality(Requeuers(e)') = 0
    BY <2>1, FS_EmptySet
  <2>6. CASE row'[e].retries = row[e].retries
    BY <2>1, <2>6, RetryKept
  <2>7. CASE row'[e].retries = row[e].retries + 1 /\ MayRequeue(row[e].retries)
    BY <2>3, <2>5, <2>7, RequeuersFinite, BoundsAssumption DEF MayRequeue
  <2> QED
    BY <2>4, <2>6, <2>7
<1>5. CASE \/ Shutdown \/ Restart \/ FindStuck \/ FindOrphans \/ OrphanScanFails \/ Listen \/ UNCHANGED vars
           \/ \E x \in Events : \/ Deliver(x) \/ DelayedPush(x) \/ StaleSweep(x) \/ AgeFile(x)
                                \/ Reclaim(x) \/ PushStuck(x) \/ PushOrphan(x)
  <2>1. UNCHANGED <<task, row>>
    BY <1>5 DEF Shutdown, Restart, FindStuck, FindOrphans, OrphanScanFails, Listen, Deliver, DelayedPush, StaleSweep,
         AgeFile, Reclaim, PushStuck, PushOrphan, vars
  <2>2. Requeuers(e)' \subseteq Requeuers(e)
    BY <2>1 DEF Requeuers, TasksOf
  <2> QED
    BY <2>1, <2>2, RetryKept
<1> QED
  BY <1>1, <1>2, <1>3, <1>4, <1>5, RetryTaskStep, RetryKept DEF Next, StartupStep

\* The limit is checked by one statement and the counter raised by another, so tasks
\* that own the same event can pass it, but by less than the number of slots.
THEOREM RetrySafe == Spec => []RetryOvershoot
<1>1. Init => RetryInv
  <2> SUFFICES ASSUME Init, NEW e \in Events
               PROVE  row[e].retries + Cardinality(Requeuers(e)) <= MaxEventRetries + Cardinality(Slots) - 1
    BY DEF RetryInv
  <2>1. Requeuers(e) = {} /\ row[e].retries = 0
    BY DEF Init, Requeuers, TasksOf, Idle, NoRow
  <2> QED
    BY <2>1, FS_EmptySet, RequeuersFinite, BoundsAssumption
<1>2. TypeInv /\ RetryInv => RetryOvershoot
  <2> SUFFICES ASSUME TypeInv, RetryInv, NEW e \in Events
               PROVE  row[e].retries <= MaxEventRetries + Cardinality(Slots) - 1
    BY DEF RetryOvershoot
  <2>1. row[e].retries \in Nat
    BY DEF TypeInv, RowsOK, Row
  <2> QED
    BY <2>1, RequeuersFinite, BoundsAssumption DEF RetryInv
<1> QED
  BY <1>1, <1>2, RetryNext, TypeInvInvariant, PTL DEF Spec
-----------------------------------------------------------------------------
(* One delivery and no restart: one owner *)

\* A producer pushes each job once, and the worker runs on.
OneDelivery == MaxDeliveries <= 1 /\ MaxRestarts = 0

\* Tasks that may still claim the event, write its row or ask for a retry
Holding == PCs \ {"idle", "failAlert", "cleanup", "finish", "unpark"}

\* Where an event's job can be
InQueue == {e \in Events : \E i \in 1..Len(queue) : queue[i] = e}
InHand  == {e \in Events : \E s \in Slots : task[s].ev = e /\ task[s].pc \in Holding}
Waiting == {e \in Events : pending[e] > 0}
Pushed  == {e \in Events : delivered[e] > 0}

DistinctJobs    == \A i, j \in 1..Len(queue) : queue[i] = queue[j] => i = j
DistinctHolders == \A s, x \in Slots :
    task[s].pc \in Holding /\ task[x].pc \in Holding /\ task[s].ev = task[x].ev => s = x

\* An event's job is in one place at most: on the queue, with a timer, or with a task.
OnePlace ==
    /\ phase = "up"
    /\ InQueue \cup InHand \cup Waiting \subseteq Pushed
    /\ InQueue \cap InHand = {} /\ InQueue \cap Waiting = {} /\ InHand \cap Waiting = {}
    /\ \A e \in Events : pending[e] <= 1
    /\ DistinctJobs /\ DistinctHolders

\* A push adds the event to the queue, and to nothing else.
LEMMA QueuePushed ==
    ASSUME TypeInv, DistinctJobs, NEW e \in Events, e \notin InQueue, queue' = Append(queue, e)
    PROVE  InQueue' = InQueue \cup {e} /\ DistinctJobs'
<1>1. /\ Len(queue') = Len(queue) + 1 /\ Len(queue) \in Nat
      /\ \A i \in 1..Len(queue) : queue'[i] = queue[i]
      /\ queue'[Len(queue) + 1] = e
  BY AppendProperties, LenProperties DEF TypeInv, ListsOK
<1>2. 1..Len(queue') = 1..Len(queue) \cup {Len(queue) + 1} /\ Len(queue) + 1 \notin 1..Len(queue)
  BY <1>1
<1>3. InQueue' = InQueue \cup {e}
  <2>1. ASSUME NEW x \in InQueue'
        PROVE  x \in InQueue \cup {e}
    BY <1>1, <1>2, <2>1 DEF InQueue
  <2>2. ASSUME NEW x \in InQueue
        PROVE  x \in InQueue'
    <3>1. PICK i \in 1..Len(queue) : queue[i] = x
      BY DEF InQueue
    <3>2. i \in 1..Len(queue') /\ queue'[i] = x
      BY <1>1, <1>2, <3>1
    <3> QED
      BY <3>2 DEF InQueue
  <2>3. e \in InQueue'
    BY <1>1, <1>2 DEF InQueue
  <2> QED
    BY <2>1, <2>2, <2>3
<1>4. \A i \in 1..Len(queue) : queue[i] # e
  BY DEF InQueue
<1>5. DistinctJobs'
  BY <1>1, <1>2, <1>4 DEF DistinctJobs
<1> QED
  BY <1>3, <1>5

\* A pop takes the head's event off the queue.
LEMMA QueuePopped ==
    ASSUME TypeInv, DistinctJobs, queue # <<>>, queue' = Tail(queue)
    PROVE  /\ Head(queue) \in InQueue
           /\ InQueue' = InQueue \ {Head(queue)} /\ DistinctJobs'
<1>1. /\ Len(queue) \in Nat /\ Len(queue) > 0 /\ Head(queue) = queue[1] /\ queue[1] \in Events
      /\ Len(queue') = Len(queue) - 1
      /\ \A i \in 1..Len(queue) - 1 : queue'[i] = queue[i + 1]
  BY HeadTailProperties, LenProperties, EmptySeq DEF TypeInv, ListsOK
<1>2. \A i \in 1..Len(queue') : i + 1 \in 1..Len(queue) /\ queue'[i] = queue[i + 1] /\ i + 1 # 1
  BY <1>1
<1>3. Head(queue) \in InQueue
  BY <1>1 DEF InQueue
<1>4. DistinctJobs'
  <2> SUFFICES ASSUME NEW i \in 1..Len(queue'), NEW j \in 1..Len(queue'), queue'[i] = queue'[j]
               PROVE  i = j
    BY DEF DistinctJobs
  <2>1. i + 1 = j + 1
    BY <1>2 DEF DistinctJobs
  <2> QED
    BY <2>1, <1>1
<1>5. ASSUME NEW x \in InQueue'
      PROVE  x \in InQueue /\ x # Head(queue)
  <2>1. PICK i \in 1..Len(queue') : queue'[i] = x
    BY DEF InQueue
  <2>2. queue[i + 1] = x /\ i + 1 \in 1..Len(queue) /\ 1 \in 1..Len(queue) /\ i + 1 # 1
    BY <1>1, <1>2, <2>1
  <2>3. x \in Events
    BY DEF InQueue
  <2> QED
    BY <2>2, <2>3, <1>1 DEF InQueue, DistinctJobs
<1>6. ASSUME NEW x \in InQueue, x # Head(queue)
      PROVE  x \in InQueue'
  <2>1. PICK i \in 1..Len(queue) : queue[i] = x
    BY DEF InQueue
  <2>2. i - 1 \in 1..Len(queue') /\ queue'[i - 1] = x
    BY <1>1, <1>6, <2>1
  <2> QED
    BY <2>2 DEF InQueue
<1> QED
  BY <1>3, <1>4, <1>5, <1>6

\* A step of a task is the step of one that holds its event, or the task is closing.
LEMMA HolderSteps ==
    ASSUME TypeInv, NEW s \in Slots, TaskStep(s)
    PROVE  /\ \A x \in Slots : x # s => task'[x] = task[x]
           /\ \/ task[s].pc \in Holding
              \/ NotifyFailure(s) \/ CleanupRead(s) \/ CleanupWrite(s) \/ Unpark(s)
           /\ task'[s].pc \in Holding => task[s].pc \in Holding /\ task'[s].ev = task[s].ev
<1>1. /\ \A x \in Slots : x # s => task'[x] = task[x]
      /\ task'[s].pc \in Holding => task'[s].ev = task[s].ev
  BY TaskStepMoves, UnparkIdles DEF MovesTo, TypeInv, Holding, Idle
<1>2. \/ task[s].pc \in Holding
      \/ NotifyFailure(s) \/ CleanupRead(s) \/ CleanupWrite(s) \/ Unpark(s)
  BY DEF At, TaskStep, Claim, Duplicate, Raise, Dispose, SkipDownload, Download, Extract,
         SingleFileFails, TransientFailure, RecordVerdict, Notify, Complete, RequeueRead,
         RequeueRetry, RequeueExhausted, RequeueFails, RaisedRead, RaisedFail,
         RaisedKeep, Holding, PCs
<1>3. NotifyFailure(s) \/ CleanupRead(s) \/ CleanupWrite(s) \/ Unpark(s) => task'[s].pc \notin Holding
  BY DEF NotifyFailure, CleanupRead, CleanupWrite, Unpark, Goto, TypeInv, TasksOK, Task, Holding, Idle
<1> QED
  BY <1>1, <1>2, <1>3

\* A task's event leaves its hands at most.
LEMMA HandsOpen ==
    ASSUME TypeInv, NEW s \in Slots, TaskStep(s)
    PROVE  InHand' \subseteq InHand /\ (DistinctHolders => DistinctHolders')
<1>1. \A x \in Slots : task'[x].pc \in Holding => task[x].pc \in Holding /\ task'[x].ev = task[x].ev
  BY HolderSteps
<1> QED
  BY <1>1 DEF InHand, DistinctHolders

\* The steps of a task keep the job in one place: a retry moves it from the task to a timer.
LEMMA OnePlaceTaskStep ==
    ASSUME TypeInv, OnePlace, NEW s \in Slots, TaskStep(s)
    PROVE  OnePlace'
<1> DEFINE e == task[s].ev
<1>1. UNCHANGED <<queue, delivered, phase>> /\ (UNCHANGED pending \/ RequeueRetry(s))
  BY TaskStepFrame
<1>2. InQueue' = InQueue /\ Pushed' = Pushed /\ (DistinctJobs => DistinctJobs')
  BY <1>1 DEF InQueue, Pushed, DistinctJobs
<1>3. CASE UNCHANGED pending
  BY <1>1, <1>2, <1>3, HandsOpen DEF OnePlace, Waiting
<1>4. CASE RequeueRetry(s)
  <2>1. e \in Events /\ task[s].pc = "requeueWrite"
    BY <1>4, TaskStepRuns DEF RequeueRetry, At, TypeInv
  <2>2. e \in InHand
    BY <2>1 DEF InHand, Holding, PCs
  <2>3. pending[e] = 0
    BY <2>1, <2>2 DEF OnePlace, Waiting, TypeInv, ListsOK
  <2>4. pending' = [pending EXCEPT ![e] = 1] /\ task'[s].pc = "cleanup"
    BY <1>4, <2>1, <2>3 DEF RequeueRetry, ScheduleRetry, Goto, TypeInv, ListsOK, TasksOK
  <2>5. Waiting' = Waiting \cup {e} /\ \A x \in Events : pending'[x] <= 1
    BY <2>1, <2>3, <2>4 DEF Waiting, OnePlace, TypeInv, ListsOK
  <2>6. e \notin InHand'
    <3>1. \A x \in Slots : task'[x].pc \in Holding => x # s /\ task'[x] = task[x]
      BY <2>4, HolderSteps DEF Holding
    <3>2. \A x \in Slots : x # s /\ task[x].pc \in Holding => task[x].ev # e
      BY <2>1 DEF OnePlace, DistinctHolders, Holding, PCs
    <3> QED
      BY <3>1, <3>2 DEF InHand
  <2> HIDE DEF e
  <2> QED
    BY <1>1, <1>2, <2>2, <2>5, <2>6, HandsOpen DEF OnePlace
<1> QED
  BY <1>1, <1>3, <1>4

\* The worker does not stop, and so does not start either.
LEMMA NotStopped ==
    ASSUME OneDelivery, TypeInv, OnePlace
    PROVE  ~(Crash \/ Shutdown \/ Drained \/ StartupStep)
BY BoundsAssumption DEF OneDelivery, OnePlace, TypeInv, EffectsOK, Crash, Shutdown, Drained,
   StartupStep, Restart, FindStuck, FindOrphans, OrphanScanFails, Listen, Reclaim, RecoverStuck, PushStuck,
   PushOrphan

\* Every step keeps the job in one place.
LEMMA OnePlaceNext ==
    ASSUME OneDelivery, TypeInv, OnePlace, [Next]_vars
    PROVE  OnePlace'
<1>1. ASSUME NEW e \in Events, Deliver(e) PROVE OnePlace'
  <2> DEFINE d == delivered[e]
  <2>0. d = 0
    BY <1>1, BoundsAssumption DEF Deliver, OneDelivery, TypeInv, ListsOK
  <2>1. delivered[e] = 0 /\ delivered' = [delivered EXCEPT ![e] = 1]
    BY <1>1, <2>0 DEF Deliver
  <2>2. e \notin Pushed /\ Pushed' = Pushed \cup {e}
    BY <2>1 DEF Pushed, TypeInv, ListsOK
  <2>3. e \notin InQueue \cup InHand \cup Waiting
    BY <2>2 DEF OnePlace
  <2>4. InQueue' = InQueue \cup {e} /\ DistinctJobs'
    BY <1>1, <2>3, QueuePushed DEF Deliver, OnePlace
  <2>5. UNCHANGED <<phase, pending, task, InHand, Waiting, DistinctHolders>>
    BY <1>1 DEF Deliver, InHand, Waiting, DistinctHolders
  <2> QED
    BY <2>2, <2>3, <2>4, <2>5 DEF OnePlace
<1>2. ASSUME NEW e \in Events, DelayedPush(e) PROVE OnePlace'
  <2>0. pending[e] = 1
    BY <1>2 DEF DelayedPush, OnePlace, TypeInv, ListsOK
  <2>1. pending[e] = 1 /\ pending' = [pending EXCEPT ![e] = 0]
    BY <1>2, <2>0 DEF DelayedPush
  <2>2. e \in Waiting /\ Waiting' = Waiting \ {e} /\ \A x \in Events : pending'[x] <= 1
    BY <2>1 DEF Waiting, OnePlace, TypeInv, ListsOK
  <2>3. InQueue' = InQueue \cup {e} /\ DistinctJobs'
    BY <1>2, <2>2, QueuePushed DEF DelayedPush, OnePlace
  <2>4. UNCHANGED <<phase, task, InHand, Pushed, DistinctHolders>>
    BY <1>2 DEF DelayedPush, InHand, Pushed, DistinctHolders
  <2> QED
    BY <2>2, <2>3, <2>4 DEF OnePlace
<1>3. ASSUME NEW s \in Slots, Pop(s) PROVE OnePlace'
  <2> DEFINE e == Head(queue)
  <2>1. e \in InQueue /\ InQueue' = InQueue \ {e} /\ DistinctJobs'
    BY <1>3, QueuePopped DEF Pop, OnePlace
  <2>2. e \in Events
    BY <2>1 DEF InQueue
  <2>3. /\ task[s].pc = "idle" /\ task'[s].pc = "claim" /\ task'[s].ev = e
        /\ \A x \in Slots : x # s => task'[x] = task[x]
    BY <1>3 DEF Pop, Idle, TypeInv, TasksOK
  <2>4. InHand' = InHand \cup {e}
    BY <2>2, <2>3 DEF InHand, Holding, PCs
  <2>5. \A x \in Slots : task[x].pc \in Holding => task[x].ev # e
    BY <2>1, <2>2 DEF OnePlace, InHand
  <2>6. DistinctHolders'
    BY <2>3, <2>5 DEF OnePlace, DistinctHolders
  <2>7. UNCHANGED <<phase, pending, Waiting, Pushed>>
    BY <1>3 DEF Pop, Waiting, Pushed
  <2> HIDE DEF e
  <2> QED
    BY <2>1, <2>4, <2>6, <2>7 DEF OnePlace
<1>4. ASSUME NEW e \in Events, StaleSweep(e) \/ AgeRow(e) \/ AgeFile(e) PROVE OnePlace'
  BY <1>4 DEF StaleSweep, AgeRow, AgeFile, lists, OnePlace, InQueue, InHand, Waiting, Pushed,
              DistinctJobs, DistinctHolders
<1>5. ~(Crash \/ Shutdown \/ Drained \/ StartupStep)
  BY NotStopped
<1>6. CASE UNCHANGED vars
  BY <1>6 DEF vars, lists, OnePlace, InQueue, InHand, Waiting, Pushed, DistinctJobs, DistinctHolders
<1> QED
  BY <1>1, <1>2, <1>3, <1>4, <1>5, <1>6, OnePlaceTaskStep DEF Next

\* At first no job is anywhere.
LEMMA OnePlaceInit == Init => OnePlace
BY DEF Init, NoTimers, Idle, OnePlace, InQueue, InHand, Waiting, Pushed, DistinctJobs,
       DistinctHolders, Holding

\* The job stays in one place throughout.
THEOREM OnePlaceInvariant == OneDelivery => (Spec => []OnePlace)
<1> SUFFICES ASSUME OneDelivery PROVE Spec => []OnePlace
  OBVIOUS
<1>1. TypeInv /\ OnePlace /\ [Next]_vars => OnePlace'
  BY OnePlaceNext
<1> QED
  BY <1>1, OnePlaceInit, TypeInvInvariant, PTL DEF Spec

\* Two tasks never own the same event, whatever fails and however often it is retried
\* (without restarts and duplicate deliveries): process_job's claim, the retry's timer
\* and the main loop hand the job on, and none keeps a copy that runs.
THEOREM OwnerSafe == OneDelivery => (Spec => []SingleOwner)
<1> SUFFICES ASSUME OneDelivery PROVE Spec => []SingleOwner
  OBVIOUS
<1>1. TypeInv /\ OnePlace => SingleOwner
  <2> SUFFICES ASSUME TypeInv, OnePlace, NEW e \in Events
               PROVE  Cardinality(OwnersOf(e)) <= 1
    BY DEF SingleOwner
  <2>1. \A s, x \in OwnersOf(e) : s = x
    BY DEF OwnersOf, TasksOf, OnePlace, DistinctHolders, Owning, Holding, PCs
  <2>2. CASE OwnersOf(e) = {}
    BY <2>2, FS_EmptySet
  <2>3. CASE OwnersOf(e) # {}
    <3>1. PICK s \in OwnersOf(e) : OwnersOf(e) = {s}
      BY <2>1, <2>3
    <3> QED
      BY <3>1, FS_Singleton
  <2> QED
    BY <2>2, <2>3
<1> QED
  BY <1>1, OnePlaceInvariant, TypeInvInvariant, PTL
-----------------------------------------------------------------------------
(* One delivery, no restart and no failed call: the worker keeps its promise *)

\* No call fails either, and a finally block ends before the retry comes back.
Calm == OneDelivery /\ MaxFaults = 0 /\ PromptCleanup

Closing == {"failAlert", "cleanup", "finish"}

Fresh == {e \in Events : row[e].status \in {"absent", "queued"}}

\* The row follows the job: what waits has no row or a queued one, what a task owns is
\* being processed, and a task that closes leaves the event to nobody but its timer.
TaskFits(t) ==
    /\ t.pc \notin {"raised", "raisedWrite"}
    /\ t.pc = "claim" => t.ev \in Fresh
    /\ t.pc \in Owning => row[t.ev].status = "processing"
    /\ t.pc \notin {"idle", "claim"} => t.own
    /\ t.pc = "failAlert" => row[t.ev].status \in Terminal
    /\ t.pc \in Closing => t.ev \notin InHand \cup InQueue /\ row[t.ev].status # "absent"
    /\ t.pc = "finish" => t.seen = row[t.ev].status

RowFollows ==
    /\ \A e \in Events : e \notin Pushed => row[e].status = "absent"
    /\ InQueue \cup Waiting \subseteq Fresh
    /\ \A s \in Slots : TaskFits(task[s])

\* An alert was sent by a task that is about to complete the event, or has.
AlertFollows ==
    \A e \in Events :
        /\ alerts[e] \in {0, 1}
        /\ alerts[e] = 1 => \/ row[e].status \in Terminal
                            \/ \E s \in Slots : task[s].ev = e /\ task[s].pc = "complete"

\* What a step of task s may do to its event's row and its own program counter.
Begins(s) ==
    /\ task[s].pc = "claim" /\ task'[s].pc = "working"
    /\ task'[s].ev = task[s].ev /\ task'[s].own
    /\ row'[task[s].ev].status = "processing"

Works(s) ==
    /\ task[s].pc \in Owning \ {"complete"} /\ task'[s].pc \in Owning
    /\ task'[s].ev = task[s].ev /\ task'[s].own = task[s].own
    /\ row' = row

Releases(s) ==
    /\ task[s].pc \in Owning /\ task'[s].pc \in {"failAlert", "cleanup"}
    /\ task'[s].ev = task[s].ev /\ task'[s].own = task[s].own
    /\ row'[task[s].ev].status \in Terminal

Returns(s) ==
    /\ RequeueRetry(s)
    /\ task[s].pc \in Owning /\ task'[s].pc = "cleanup"
    /\ task'[s].ev = task[s].ev /\ task'[s].own = task[s].own
    /\ row'[task[s].ev].status = "queued"

Closes(s) ==
    /\ task[s].pc \in Closing \cup {"unpark"}
    /\ task'[s].pc \in {"cleanup", "finish", "unpark", "idle"}
    /\ task'[s].pc \in Closing => task[s].pc \in Closing
    /\ task'[s].pc # "idle" => task'[s].ev = task[s].ev /\ task'[s].own = task[s].own
    /\ row'[task[s].ev].status = row[task[s].ev].status
    /\ task'[s].pc = "finish" => task'[s].seen = row[task[s].ev].status

\* No call fails when none may.
LEMMA NoFault == Calm /\ TypeInv => ~Fault
BY BoundsAssumption DEF Calm, Fault, TypeInv, EffectsOK

\* A task that holds an event shares it only with tasks that have nothing left to do to it.
LEMMA Alone ==
    ASSUME TypeInv, OnePlace, RowFollows, NEW s \in Slots, NEW x \in Slots, x # s,
           task[s].pc \in Holding, task[x].ev = task[s].ev
    PROVE  task[x].pc = "unpark"
<1>1. task[s].ev \in Events /\ task[x].pc # "idle" /\ task[x].pc \in PCs
  BY DEF TypeInv, TasksOK, Task, Holding
<1>2. task[s].ev \in InHand
  BY <1>1 DEF InHand
<1>3. task[x].pc \notin Closing
  BY <1>2 DEF RowFollows, TaskFits
<1>4. task[x].pc \notin Holding
  BY DEF OnePlace, DistinctHolders
<1> QED
  BY <1>1, <1>3, <1>4 DEF Holding, Closing

\* Every step of a task is one of the five.
LEMMA CalmSteps ==
    ASSUME Calm, TypeInv, RowFollows, NEW s \in Slots, TaskStep(s)
    PROVE  /\ Begins(s) \/ Works(s) \/ Releases(s) \/ Returns(s) \/ Closes(s)
           /\ \A x \in Slots : x # s => task'[x] = task[x]
           /\ \A x \in Events : x # task[s].ev => row'[x] = row[x]
<1> DEFINE e == task[s].ev
           r == row[e]
<1>1. e \in Events /\ r \in Row /\ task[s] \in Task /\ task \in [Slots -> Task] /\ row \in [Events -> Row]
  BY TaskStepRuns DEF TypeInv, TasksOK, RowsOK
<1>2. \A x \in Slots : x # s => task'[x] = task[x]
  BY HolderSteps
<1>3. \A x \in Events : x # task[s].ev => row'[x] = row[x]
  BY <1>1, TaskStepFrame DEF Claim, RequeueRetry, CleanupWrite, SetStatus
<1>4. TaskFits(task[s])
  BY DEF RowFollows
<1>5. ~(Raise(s) \/ RequeueFails(s) \/ RaisedRead(s) \/ RaisedFail(s) \/ RaisedKeep(s) \/ Duplicate(s))
  BY <1>1, <1>4, NoFault DEF Raise, RequeueFails, RaisedRead, RaisedFail, RaisedKeep, Duplicate, At,
     TaskFits, Fresh
<1>6. CASE Claim(s)
  <2>1. row'[e].status = "processing"
    BY <1>1, <1>6 DEF Claim, Row
  <2>2. task[s].pc = "claim" /\ task'[s].pc = "working" /\ task'[s].ev = task[s].ev /\ task'[s].own
    BY <1>1, <1>6 DEF Claim, At, Task
  <2> QED
    BY <1>2, <1>3, <2>1, <2>2 DEF Begins
<1>7. CASE \/ SkipDownload(s) \/ Download(s) \/ Extract(s) \/ TransientFailure(s) \/ Notify(s)
           \/ \E risky \in BOOLEAN : RecordVerdict(s, risky)
  <2>1. /\ task[s].pc \in Owning \ {"complete"} /\ row' = row
        /\ \E pc \in Owning : Goto(s, pc)
    BY <1>7 DEF SkipDownload, Download, Extract, TransientFailure, Notify, RecordVerdict, At, Owning
  <2>2. task'[s].pc \in Owning /\ task'[s].ev = task[s].ev /\ task'[s].own = task[s].own
    BY <1>1, <2>1 DEF Goto, Task
  <2> QED
    BY <1>2, <1>3, <2>1, <2>2 DEF Works
<1>8. CASE RequeueRead(s)
  <2>1. /\ task[s].pc \in Owning \ {"complete"} /\ row' = row
        /\ task'[s].pc = "requeueWrite" /\ task'[s].ev = task[s].ev /\ task'[s].own = task[s].own
    BY <1>1, <1>8 DEF RequeueRead, At, Owning, Task
  <2> QED
    BY <1>2, <1>3, <2>1 DEF Works, Owning
<1>9. CASE \/ SingleFileFails(s) \/ Complete(s) \/ RequeueExhausted(s)
           \/ \E st \in {"completed", "pending_manual_inspection"} : Dispose(s, st)
  <2>1. /\ task[s].pc \in Owning
        /\ \E pc \in {"failAlert", "cleanup"} : Goto(s, pc)
        /\ \E st \in Terminal : SetStatus(e, st)
    BY <1>9 DEF SingleFileFails, Complete, RequeueExhausted, Dispose, At, Owning, Terminal
  <2>2. task'[s].pc \in {"failAlert", "cleanup"} /\ task'[s].ev = task[s].ev /\ task'[s].own = task[s].own
    BY <1>1, <2>1 DEF Goto, Task
  <2>3. r.status = "processing"
    BY <1>4, <2>1 DEF TaskFits
  <2>4. PICK st \in Terminal : SetStatus(e, st)
    BY <2>1
  <2>5. row'[e] = WithStatus(r, st)
    BY <1>1, <2>4 DEF SetStatus
  <2>6. st \in Statuses /\ r.status # "absent"
    BY <2>3 DEF Statuses
  <2>7. row'[e].status = st
    BY <1>1, <2>5, <2>6, WithStatusType
  <2> QED
    BY <1>2, <1>3, <2>1, <2>2, <2>4, <2>7 DEF Releases
<1>10. CASE RequeueRetry(s)
  <2>1. row'[e] = Requeued(r) /\ task[s].pc = "requeueWrite" /\ Goto(s, "cleanup")
    BY <1>1, <1>10 DEF RequeueRetry, At
  <2>2. row'[e].status = "queued"
    BY <2>1, <1>1, RequeuedType
  <2>3. task'[s].pc = "cleanup" /\ task'[s].ev = task[s].ev /\ task'[s].own = task[s].own
    BY <1>1, <2>1 DEF Goto, Task
  <2> QED
    BY <1>2, <1>3, <1>10, <2>1, <2>2, <2>3 DEF Returns, Owning
<1>11. CASE NotifyFailure(s)
  <2>1. task[s].pc = "failAlert" /\ row' = row /\ Goto(s, "cleanup")
    BY <1>11 DEF NotifyFailure, At
  <2>2. task'[s].pc = "cleanup" /\ task'[s].ev = task[s].ev /\ task'[s].own = task[s].own
    BY <1>1, <2>1 DEF Goto, Task
  <2> QED
    BY <1>2, <1>3, <2>1, <2>2 DEF Closes, Closing
<1>12. CASE CleanupRead(s)
  <2>1. task[s].pc = "cleanup" /\ row' = row
    BY <1>12 DEF CleanupRead, At
  <2>2. CurrentStatus(e) = r.status
    BY <1>4, <2>1 DEF TaskFits, Closing, CurrentStatus
  <2>3. task' = [task EXCEPT ![s].pc = "finish", ![s].seen = CurrentStatus(e)]
    BY <1>12 DEF CleanupRead
  <2>4. /\ task'[s].pc = "finish" /\ task'[s].ev = task[s].ev /\ task'[s].own = task[s].own
        /\ task'[s].seen = CurrentStatus(e)
    BY <1>1, <2>3 DEF Task
  <2> QED
    BY <1>2, <1>3, <2>1, <2>2, <2>4 DEF Closes, Closing
<1>13. CASE CleanupWrite(s)
  <2>1. task[s].pc = "finish" /\ SetStatus(e, task[s].seen) /\ Goto(s, "unpark")
    BY <1>13 DEF CleanupWrite, At
  <2>2. task[s].seen = r.status /\ r.status # "absent" /\ r.status \in Statuses
    BY <1>1, <1>4, <2>1 DEF TaskFits, Closing, Row
  <2>3. row'[e] = WithStatus(r, r.status)
    BY <1>1, <2>1, <2>2 DEF SetStatus
  <2>4. row'[e].status = r.status
    BY <1>1, <2>2, <2>3, WithStatusType
  <2>5. task'[s].pc = "unpark" /\ task'[s].ev = task[s].ev /\ task'[s].own = task[s].own
    BY <1>1, <2>1 DEF Goto, Task
  <2> QED
    BY <1>2, <1>3, <2>1, <2>4, <2>5 DEF Closes, Closing
<1>14. CASE Unpark(s)
  <2>1. task[s].pc = "unpark" /\ row' = row /\ task'[s].pc = "idle"
    BY <1>1, <1>14 DEF Unpark, At, Idle
  <2> QED
    BY <1>2, <1>3, <2>1 DEF Closes, Closing
<1> QED
  BY <1>5, <1>6, <1>7, <1>8, <1>9, <1>10, <1>11, <1>12, <1>13, <1>14 DEF TaskStep

\* What a step of a task leaves where it was: queue, deliveries, and timers unless it retries.
LEMMA CalmFrame ==
    ASSUME TypeInv, NEW s \in Slots, TaskStep(s)
    PROVE  /\ InQueue' = InQueue /\ Pushed' = Pushed /\ InHand' \subseteq InHand
           /\ RequeueRetry(s) \/ Waiting' = Waiting
<1>1. UNCHANGED <<queue, delivered>> /\ (UNCHANGED pending \/ RequeueRetry(s))
  BY TaskStepFrame
<1> QED
  BY <1>1, HandsOpen DEF InQueue, Pushed, Waiting

\* The task that steps still fits its row.
LEMMA StepperFits ==
    ASSUME Calm, TypeInv, OnePlace, RowFollows, NEW s \in Slots, TaskStep(s)
    PROVE  TaskFits(task[s])'
<1> DEFINE e == task[s].ev
<1>1. TaskFits(task[s]) /\ e \in Events /\ task[s] \in Task
  BY TaskStepRuns DEF RowFollows, TypeInv, TasksOK
<1>2. \A x \in Slots : x # s => task'[x] = task[x]
  BY HolderSteps
<1>3. InQueue' = InQueue /\ InHand' \subseteq InHand
  BY CalmFrame
<1>4. CASE Begins(s)
  BY <1>4 DEF Begins, TaskFits, Owning, Closing
<1>5. CASE Works(s)
  BY <1>1, <1>5 DEF Works, TaskFits, Owning, Closing
<1>6. CASE Releases(s) \/ Returns(s)
  <2>1. task[s].pc \in Holding /\ task'[s].pc \notin Holding /\ task'[s].ev = e
    BY <1>6 DEF Releases, Returns, Owning, Holding, PCs
  <2>2. e \in InHand /\ e \notin InQueue
    BY <1>1, <2>1 DEF InHand, OnePlace
  <2>3. e \notin InHand'
    <3>1. \A x \in Slots : x # s /\ task[x].pc \in Holding => task[x].ev # e
      BY <2>1 DEF OnePlace, DistinctHolders
    <3> QED
      BY <1>2, <2>1, <3>1 DEF InHand
  <2>4. e \notin InHand' \cup InQueue'
    BY <1>3, <2>2, <2>3
  <2>5. task[s].own
    BY <1>1, <1>6 DEF Releases, Returns, TaskFits, Owning
  <2>6. CASE Releases(s)
    BY <2>4, <2>5, <2>6 DEF Releases, TaskFits, Owning, Closing, Terminal
  <2>7. CASE Returns(s)
    BY <2>4, <2>5, <2>7 DEF Returns, TaskFits, Owning, Closing
  <2> QED
    BY <1>6, <2>6, <2>7
<1>7. CASE Closes(s)
  <2>1. /\ task'[s].pc \in {"cleanup", "finish", "unpark", "idle"}
        /\ task'[s].pc \in Closing => task[s].pc \in Closing
        /\ task'[s].pc # "idle" => task'[s].ev = e /\ task'[s].own = task[s].own
        /\ row'[e].status = row[e].status
        /\ task'[s].pc = "finish" => task'[s].seen = row[e].status
        /\ task[s].pc \notin {"idle", "claim"}
    BY <1>7 DEF Closes, Closing
  <2>2. task[s].own
    BY <1>1, <2>1 DEF TaskFits
  <2>3. task[s].pc \in Closing => e \notin InHand' \cup InQueue' /\ row[e].status # "absent"
    BY <1>1, <1>3 DEF TaskFits
  <2>4. CASE task'[s].pc = "idle"
    BY <2>4 DEF TaskFits, Owning, Closing
  <2>5. CASE task'[s].pc = "unpark"
    BY <2>1, <2>2, <2>5 DEF TaskFits, Owning, Closing
  <2>6. CASE task'[s].pc \in {"cleanup", "finish"}
    BY <2>1, <2>2, <2>3, <2>6 DEF TaskFits, Owning, Closing
  <2> QED
    BY <2>1, <2>4, <2>5, <2>6
<1> QED
  BY <1>4, <1>5, <1>6, <1>7, CalmSteps

\* The other tasks still fit theirs: the step of one changes no row that another relies on.
LEMMA OthersFit ==
    ASSUME Calm, TypeInv, OnePlace, RowFollows, NEW s \in Slots, TaskStep(s),
           NEW x \in Slots, x # s
    PROVE  TaskFits(task[x])'
<1> DEFINE e == task[s].ev
           t == task[x]
<1>1. task'[x] = t /\ TaskFits(t) /\ t \in Task /\ e \in Events
  BY HolderSteps, TaskStepRuns DEF RowFollows, TypeInv, TasksOK
<1>2. InQueue' = InQueue /\ InHand' \subseteq InHand
  BY CalmFrame
<1>3. \A y \in Events : y # e => row'[y] = row[y]
  BY CalmSteps
<1>4. t.pc = "unpark" \/ t.pc = "idle" \/ (t.ev \in Events /\ row'[t.ev].status = row[t.ev].status)
  <2>1. t.pc # "idle" => t.ev \in Events
    BY DEF TypeInv, TasksOK, Task
  <2>2. CASE t.ev # e
    BY <1>3, <2>1, <2>2
  <2>3. CASE t.ev = e /\ task[s].pc \in Holding
    BY <2>3, Alone
  <2>4. CASE t.ev = e /\ task[s].pc \notin Holding
    <3>1. Closes(s)
      BY <2>4, CalmSteps DEF Begins, Works, Releases, Returns, Holding, Owning, PCs
    <3> QED
      BY <1>1, <2>4, <3>1 DEF Closes
  <2> QED
    BY <2>2, <2>3, <2>4
<1>5. CASE t.pc = "unpark" \/ t.pc = "idle"
  <2>1. TaskFits(t)'
    BY <1>1, <1>5 DEF TaskFits, Owning, Closing
  <2> QED
    BY <2>1
<1>6. CASE t.ev \in Events /\ row'[t.ev].status = row[t.ev].status
  <2>1. t.ev \in Fresh => t.ev \in Fresh'
    BY <1>6 DEF Fresh
  <2>2. t.ev \notin InHand \cup InQueue => t.ev \notin InHand' \cup InQueue'
    BY <1>2
  <2> HIDE DEF e
  <2> QED
    BY <1>1, <1>6, <2>1, <2>2 DEF TaskFits
<1> QED
  BY <1>4, <1>5, <1>6

\* The steps of a task keep the rows behind the jobs.
LEMMA RowFollowsTaskStep ==
    ASSUME Calm, TypeInv, OnePlace, RowFollows, NEW s \in Slots, TaskStep(s)
    PROVE  RowFollows'
<1> DEFINE e == task[s].ev
<1>1. e \in Events /\ TaskFits(task[s])
  BY TaskStepRuns DEF RowFollows, TypeInv
<1>2. \A x \in Slots : TaskFits(task[x])'
  BY StepperFits, OthersFit
<1>3. InQueue' = InQueue /\ Pushed' = Pushed
  BY CalmFrame
<1>4. \A x \in Events : x # e => row'[x] = row[x]
  BY CalmSteps
<1>5. CASE Closes(s)
  <2>1. row'[e].status = row[e].status
    BY <1>5 DEF Closes
  <2>2. Fresh' = Fresh /\ \A x \in Events : row'[x].status = row[x].status
    BY <1>4, <2>1 DEF Fresh
  <2>3. Waiting' = Waiting
    BY <1>5, CalmFrame DEF Closes, RequeueRetry, At, Closing
  <2> HIDE DEF e
  <2> QED
    BY <1>2, <1>3, <2>2, <2>3 DEF RowFollows
<1>6. CASE Begins(s) \/ Works(s) \/ Releases(s) \/ Returns(s)
  <2>1. e \in InHand
    BY <1>1, <1>6 DEF Begins, Works, Releases, Returns, InHand, Holding, Owning, PCs
  <2>2. e \in Pushed /\ e \notin InQueue /\ e \notin Waiting
    BY <2>1 DEF OnePlace
  <2>3. \A x \in Events : x # e => (x \in Fresh <=> x \in Fresh')
    BY <1>4 DEF Fresh
  <2>4. InQueue' \subseteq Fresh'
    BY <1>3, <2>2, <2>3 DEF RowFollows, InQueue
  <2>5. Waiting' \subseteq Fresh'
    <3>1. CASE Waiting' = Waiting
      BY <2>2, <2>3, <3>1 DEF RowFollows, Waiting
    <3>2. CASE RequeueRetry(s)
      <4>1. row'[e].status = "queued"
        BY <1>6, <3>2 DEF RequeueRetry, At, Begins, Works, Releases, Returns, Goto, SetStatus,
           Requeued, TypeInv, RowsOK, TasksOK, Task
      <4>2. e \in Fresh'
        BY <1>1, <4>1 DEF Fresh
      <4>3. \A x \in Events : x # e => pending'[x] = pending[x]
        BY <3>2 DEF RequeueRetry, ScheduleRetry, TypeInv, ListsOK
      <4>4. \A x \in Waiting' : x # e => x \in Waiting
        BY <4>3 DEF Waiting
      <4>5. Waiting' \subseteq Events
        BY DEF Waiting
      <4> QED
        BY <2>3, <4>2, <4>4, <4>5 DEF RowFollows
    <3> QED
      BY <3>1, <3>2, CalmFrame
  <2>6. \A x \in Events : x \notin Pushed' => row'[x].status = "absent"
    BY <1>3, <1>4, <2>2 DEF RowFollows
  <2> HIDE DEF e
  <2> QED
    BY <1>2, <2>4, <2>5, <2>6 DEF RowFollows
<1> QED
  BY <1>5, <1>6, CalmSteps

\* A step that moves jobs or time only keeps what the tasks rely on, if it puts no job of a
\* closing task on the queue.
LEMMA FitsKept ==
    ASSUME TypeInv, RowFollows, NEW s \in Slots, task'[s] = task[s],
           \A e \in Events : row'[e].status = row[e].status,
           task[s].pc \in Closing => task[s].ev \notin InHand' \cup InQueue'
    PROVE  TaskFits(task[s])'
<1>1. TaskFits(task[s]) /\ (task[s].pc # "idle" => task[s].ev \in Events)
  BY DEF RowFollows, TypeInv, TasksOK, Task
<1>2. CASE task[s].pc = "idle"
  BY <1>2 DEF TaskFits, Owning, Closing
<1>3. CASE task[s].ev \in Events
  <2>1. task[s].ev \in Fresh => task[s].ev \in Fresh'
    BY <1>3 DEF Fresh
  <2> QED
    BY <1>1, <1>3, <2>1 DEF TaskFits
<1> QED
  BY <1>1, <1>2, <1>3

\* Every step keeps the rows behind the jobs.
LEMMA RowFollowsNext ==
    ASSUME Calm, TypeInv, OnePlace, RowFollows, [Next]_vars
    PROVE  RowFollows'
<1>1. ASSUME NEW e \in Events, Deliver(e) PROVE RowFollows'
  <2> DEFINE d == delivered[e]
  <2>0. d = 0
    BY <1>1, BoundsAssumption DEF Deliver, Calm, OneDelivery, TypeInv, ListsOK
  <2>1. delivered[e] = 0 /\ delivered' = [delivered EXCEPT ![e] = 1]
    BY <1>1, <2>0 DEF Deliver
  <2>2. e \notin Pushed /\ Pushed' = Pushed \cup {e} /\ e \notin InQueue
    BY <2>1 DEF Pushed, TypeInv, ListsOK, OnePlace
  <2>3. InQueue' = InQueue \cup {e}
    BY <1>1, <2>2, QueuePushed DEF Deliver, OnePlace
  <2>4. row' = row /\ task' = task /\ Waiting' = Waiting /\ Fresh' = Fresh /\ InHand' = InHand
    BY <1>1 DEF Deliver, Waiting, Fresh, InHand
  <2>5. row[e].status = "absent" /\ e \in Fresh
    BY <2>2 DEF RowFollows, Fresh
  <2>6. \A s \in Slots : TaskFits(task[s])'
    <3> SUFFICES ASSUME NEW s \in Slots PROVE TaskFits(task[s])'
      OBVIOUS
    <3>1. task[s].pc \in Closing => task[s].ev \notin InHand' \cup InQueue'
      BY <2>3, <2>4, <2>5 DEF RowFollows, TaskFits
    <3> QED
      BY <2>4, <3>1, FitsKept
  <2> QED
    BY <2>2, <2>3, <2>4, <2>5, <2>6 DEF RowFollows
<1>2. ASSUME NEW e \in Events, DelayedPush(e) PROVE RowFollows'
  <2>0. pending[e] = 1
    BY <1>2 DEF DelayedPush, OnePlace, TypeInv, ListsOK
  <2>1. pending[e] = 1 /\ pending' = [pending EXCEPT ![e] = 0]
    BY <1>2, <2>0 DEF DelayedPush
  <2>2. e \in Waiting /\ Waiting' \subseteq Waiting /\ e \notin InQueue /\ e \in Fresh
    BY <2>1 DEF Waiting, OnePlace, TypeInv, ListsOK, RowFollows
  <2>3. InQueue' = InQueue \cup {e}
    BY <1>2, <2>2, QueuePushed DEF DelayedPush, OnePlace
  <2>4. row' = row /\ task' = task /\ Pushed' = Pushed /\ Fresh' = Fresh /\ InHand' = InHand
    BY <1>2 DEF DelayedPush, Pushed, Fresh, InHand
  <2>5. \A s \in Slots : TaskFits(task[s])'
    <3> SUFFICES ASSUME NEW s \in Slots PROVE TaskFits(task[s])'
      OBVIOUS
    <3>1. TaskFits(task[s])
      BY DEF RowFollows
    <3>2. task[s].pc \in Closing => task[s].ev # e
      <4>1. task[s].pc \in Closing => task[s].own
        BY <3>1 DEF TaskFits, Closing
      <4>2. task[s].pc \in {"cleanup", "finish"} /\ task[s].own => task[s].ev # e
        BY <1>2 DEF DelayedPush, Calm, TasksOf
      <4>3. task[s].pc = "failAlert" => task[s].ev # e
        BY <2>2, <3>1 DEF TaskFits, Fresh, Terminal
      <4> QED
        BY <4>1, <4>2, <4>3 DEF Closing
    <3>3. task[s].pc \in Closing => task[s].ev \notin InHand' \cup InQueue'
      BY <2>3, <2>4, <3>1, <3>2 DEF TaskFits
    <3> QED
      BY <2>4, <3>3, FitsKept
  <2> QED
    BY <2>2, <2>3, <2>4, <2>5 DEF RowFollows
<1>3. ASSUME NEW s \in Slots, Pop(s) PROVE RowFollows'
  <2> DEFINE e == Head(queue)
  <2>1. e \in InQueue /\ InQueue' = InQueue \ {e} /\ e \in Events
    BY <1>3, QueuePopped DEF Pop, OnePlace, InQueue
  <2>2. /\ task'[s].pc = "claim" /\ task'[s].ev = e
        /\ \A x \in Slots : x # s => task'[x] = task[x]
    BY <1>3 DEF Pop, Idle, TypeInv, TasksOK
  <2>3. row' = row /\ Fresh' = Fresh /\ Waiting' = Waiting /\ Pushed' = Pushed
    BY <1>3 DEF Pop, Waiting, Fresh, Pushed
  <2>4. InHand' \subseteq InHand \cup {e}
    <3> SUFFICES ASSUME NEW y \in InHand', y # e PROVE y \in InHand
      OBVIOUS
    <3>1. PICK x \in Slots : task'[x].ev = y /\ task'[x].pc \in Holding
      BY DEF InHand
    <3>2. x # s /\ task'[x] = task[x] /\ y \in Events
      BY <2>2, <3>1 DEF InHand
    <3> QED
      BY <3>1, <3>2 DEF InHand
  <2>5. ASSUME NEW x \in Slots PROVE TaskFits(task[x])'
    <3>1. CASE x = s
      <4>1. e \in Fresh'
        BY <2>1, <2>3 DEF RowFollows
      <4> HIDE DEF e
      <4> QED
        BY <2>2, <3>1, <4>1 DEF TaskFits, Owning, Closing
    <3>2. CASE x # s
      <4>1. task[x].pc \in Closing => task[x].ev \notin InHand' \cup InQueue'
        BY <2>1, <2>4 DEF RowFollows, TaskFits
      <4> QED
        BY <2>2, <2>3, <3>2, <4>1, FitsKept
    <3> QED
      BY <3>1, <3>2
  <2> QED
    BY <2>1, <2>3, <2>5 DEF RowFollows
<1>4. ASSUME \/ \E e \in Events : StaleSweep(e) \/ AgeRow(e) \/ AgeFile(e)
             \/ UNCHANGED vars
      PROVE  RowFollows'
  <2>1. /\ UNCHANGED <<task, pending, queue, delivered>>
        /\ \A e \in Events : row'[e].status = row[e].status
    <3>1. ASSUME NEW e \in Events, AgeRow(e)
          PROVE  \A x \in Events : row'[x].status = row[x].status
      BY <3>1 DEF AgeRow, TypeInv, RowsOK, Row
    <3> QED
      BY <1>4, <3>1 DEF StaleSweep, AgeRow, AgeFile, vars, lists
  <2>2. /\ InQueue' = InQueue /\ Waiting' = Waiting /\ Pushed' = Pushed /\ InHand' = InHand
        /\ Fresh' = Fresh
    BY <2>1 DEF InQueue, Waiting, Pushed, InHand, Fresh
  <2>3. ASSUME NEW s \in Slots PROVE TaskFits(task[s])'
    <3>1. task[s].pc \in Closing => task[s].ev \notin InHand' \cup InQueue'
      BY <2>2 DEF RowFollows, TaskFits
    <3> QED
      BY <2>1, <3>1, FitsKept
  <2> QED
    BY <2>1, <2>2, <2>3 DEF RowFollows
<1>5. ~(Crash \/ Shutdown \/ Drained \/ StartupStep)
  BY NotStopped DEF Calm
<1> QED
  BY <1>1, <1>2, <1>3, <1>4, <1>5, RowFollowsTaskStep DEF Next

\* An event is decided for good: no step takes a terminal status back.
LEMMA DecidedStays ==
    ASSUME Calm, TypeInv, OnePlace, RowFollows, [Next]_vars, NEW e \in Events,
           row[e].status \in Terminal
    PROVE  row'[e].status = row[e].status
<1>1. CASE \E s \in Slots : TaskStep(s)
  <2>1. PICK s \in Slots : TaskStep(s)
    BY <1>1
  <2>2. e = task[s].ev => Closes(s)
    BY <2>1, CalmSteps DEF Begins, Works, Releases, Returns, RowFollows, TaskFits, Fresh, Terminal,
       Owning
  <2>3. Closes(s) => row'[task[s].ev].status = row[task[s].ev].status
    BY DEF Closes
  <2> QED
    BY <2>1, <2>2, <2>3, CalmSteps
<1>2. CASE \E x \in Events : AgeRow(x)
  BY <1>2 DEF AgeRow, TypeInv, RowsOK, Row
<1>3. CASE \/ \E x \in Events : Deliver(x) \/ DelayedPush(x) \/ StaleSweep(x) \/ AgeFile(x)
           \/ \E s \in Slots : Pop(s)
           \/ UNCHANGED vars
  BY <1>3 DEF Deliver, DelayedPush, StaleSweep, AgeFile, Pop, vars
<1>4. ~(Crash \/ Shutdown \/ Drained \/ StartupStep)
  BY NotStopped DEF Calm
<1> QED
  BY <1>1, <1>2, <1>3, <1>4 DEF Next

\* Alerts come from Notify only.
LEMMA AlertFrame ==
    ASSUME OneDelivery, TypeInv, OnePlace, [Next]_vars
    PROVE  alerts' = alerts \/ \E s \in Slots : Notify(s)
<1>1. ~(Crash \/ Shutdown \/ Drained \/ StartupStep)
  BY NotStopped
<1> QED
  BY <1>1, TaskStepFrame DEF Next, Deliver, DelayedPush, StaleSweep, AgeRow, AgeFile, Pop, vars, effects

\* The task that alerts has its event to itself, and the event has had no alert yet.
LEMMA FirstAlert ==
    ASSUME TypeInv, OnePlace, RowFollows, AlertFollows, NEW s \in Slots, Notify(s)
    PROVE  /\ task[s].ev \in Pushed /\ row[task[s].ev].status = "processing"
           /\ alerts[task[s].ev] = 0 /\ alerts' = [alerts EXCEPT ![task[s].ev] = 1]
           /\ row' = row /\ delivered' = delivered
           /\ task'[s].pc = "complete" /\ task'[s].ev = task[s].ev
           /\ \A x \in Slots : x # s => task'[x] = task[x]
<1> DEFINE e == task[s].ev
           n == alerts[e]
<1>1. task[s].pc = "notify" /\ TaskFits(task[s]) /\ e \in Events
  BY TaskStepRuns DEF TaskStep, Notify, At, RowFollows, TypeInv
<1>2. row[e].status = "processing" /\ e \in InHand
  BY <1>1 DEF TaskFits, Owning, InHand, Holding, PCs
<1>3. \A x \in Slots : task[x].ev = e => task[x].pc # "complete"
  BY <1>1, Alone DEF Holding, PCs
<1>4. n = 0
  BY <1>1, <1>2, <1>3 DEF AlertFollows, Terminal
<1>5. alerts' = [alerts EXCEPT ![e] = n + 1]
  BY DEF Notify
<1>6. alerts' = [alerts EXCEPT ![e] = 1]
  BY <1>4, <1>5
<1>7. /\ task'[s].pc = "complete" /\ task'[s].ev = e
      /\ \A x \in Slots : x # s => task'[x] = task[x]
  BY DEF Notify, Goto, TypeInv, TasksOK, Task
<1> QED
  BY <1>2, <1>4, <1>6, <1>7 DEF Notify, lists, OnePlace

\* Every step keeps the alerts with the tasks and the decisions.
LEMMA AlertFollowsNext ==
    ASSUME Calm, TypeInv, OnePlace, RowFollows, AlertFollows, [Next]_vars
    PROVE  AlertFollows'
<1>1. CASE \E s \in Slots : Notify(s)
  <2>1. PICK s \in Slots : Notify(s)
    BY <1>1
  <2>2. task[s].ev \in Events
    BY <2>1, FirstAlert DEF Pushed
  <2>3. \A e \in Events : e # task[s].ev => alerts'[e] = alerts[e]
    BY <2>1, FirstAlert DEF TypeInv, EffectsOK
  <2>4. alerts'[task[s].ev] = 1
    BY <2>1, <2>2, FirstAlert DEF TypeInv, EffectsOK
  <2>5. \A x \in Slots : task[x].pc = "complete" => x # s
    BY <2>1 DEF Notify, At
  <2>6. /\ row' = row /\ task'[s].pc = "complete" /\ task'[s].ev = task[s].ev
        /\ \A x \in Slots : x # s => task'[x] = task[x]
    BY <2>1, FirstAlert
  <2> SUFFICES ASSUME NEW e \in Events
               PROVE  /\ alerts'[e] \in {0, 1}
                      /\ alerts'[e] = 1 => \/ row'[e].status \in Terminal
                                           \/ \E x \in Slots : task'[x].ev = e /\ task'[x].pc = "complete"
    BY DEF AlertFollows
  <2>7. CASE e = task[s].ev
    BY <2>4, <2>6, <2>7
  <2>8. CASE e # task[s].ev
    <3>1. alerts'[e] = alerts[e] /\ row'[e] = row[e]
      BY <2>3, <2>6, <2>8
    <3>2. \A x \in Slots : task[x].pc = "complete" => task'[x] = task[x]
      BY <2>5, <2>6
    <3> QED
      BY <3>1, <3>2 DEF AlertFollows
  <2> QED
    BY <2>7, <2>8
<1>2. CASE alerts' = alerts
  <2> SUFFICES ASSUME NEW e \in Events, alerts[e] = 1
               PROVE  \/ row'[e].status \in Terminal
                      \/ \E x \in Slots : task'[x].ev = e /\ task'[x].pc = "complete"
    BY <1>2 DEF AlertFollows
  <2>1. CASE row[e].status \in Terminal
    BY <2>1, DecidedStays
  <2>2. CASE \E x \in Slots : task[x].ev = e /\ task[x].pc = "complete"
    <3>1. PICK x \in Slots : task[x].ev = e /\ task[x].pc = "complete"
      BY <2>2
    <3>2. CASE TaskStep(x)
      <4>1. Releases(x)
        <5>1. ~Returns(x)
          BY <3>1 DEF Returns, RequeueRetry, At
        <5> QED
          BY <3>1, <3>2, <5>1, CalmSteps DEF Begins, Works, Closes, Closing
      <4> QED
        BY <3>1, <4>1 DEF Releases
    <3>3. CASE ~TaskStep(x)
      <4>1. task'[x] = task[x]
        <5>1. ASSUME NEW s \in Slots, TaskStep(s) PROVE task'[x] = task[x]
          BY <3>3, <5>1, HolderSteps
        <5>2. ASSUME NEW s \in Slots, Pop(s) PROVE task'[x] = task[x]
          BY <3>1, <5>2 DEF Pop, TypeInv, TasksOK
        <5>3. ~(Crash \/ Shutdown \/ Drained \/ StartupStep)
          BY NotStopped DEF Calm
        <5> QED
          BY <5>1, <5>2, <5>3 DEF Next, Deliver, DelayedPush, StaleSweep, AgeRow, AgeFile, vars
      <4> QED
        BY <3>1, <4>1
    <3> QED
      BY <3>2, <3>3
  <2> QED
    BY <2>1, <2>2 DEF AlertFollows
<1> QED
  BY <1>1, <1>2, AlertFrame DEF Calm

\* The strengthening that the refinement needs holds throughout.
PromiseInv == TypeInv /\ OnePlace /\ RowFollows /\ AlertFollows

LEMMA PromiseInvInvariant == Calm => (Spec => []PromiseInv)
<1> SUFFICES ASSUME Calm PROVE Spec => []PromiseInv
  OBVIOUS
<1>1. Init => RowFollows
  <2> SUFFICES ASSUME Init PROVE RowFollows
    OBVIOUS
  <2>1. InQueue = {} /\ Waiting = {} /\ \A e \in Events : row[e].status = "absent"
    BY DEF Init, InQueue, Waiting, NoTimers, NoRow
  <2>2. \A s \in Slots : TaskFits(task[s])
    BY DEF Init, Idle, TaskFits, Owning, Closing
  <2> QED
    BY <2>1, <2>2 DEF RowFollows
<1>2. Init => AlertFollows
  BY DEF Init, AlertFollows
<1>3. TypeInv /\ RowFollows /\ AlertFollows /\ OnePlace /\ [Next]_vars => RowFollows' /\ AlertFollows'
  BY RowFollowsNext, AlertFollowsNext
<1>4. OneDelivery
  BY DEF Calm
<1> QED
  BY <1>1, <1>2, <1>3, <1>4, OnePlaceInvariant, TypeInvInvariant, PTL DEF Spec, PromiseInv

\* A step that leaves every event's deliveries, decision and alerts is a stutter of the promise.
LEMMA Stutters ==
    ASSUME alerts' = alerts,
           \A e \in Events : /\ delivered'[e] = delivered[e]
                             /\ row'[e].status \in Terminal <=> row[e].status \in Terminal
    PROVE  UNCHANGED Promise!vars
BY DEF Promise!vars

\* Each step of the worker is a step of the promise or a stutter.
LEMMA PromiseStep ==
    ASSUME Calm, PromiseInv, [Next]_vars
    PROVE  [Promise!Next]_(Promise!vars)
<1> USE DEF PromiseInv
<1>1. ASSUME NEW e \in Events, Deliver(e) PROVE Promise!Accept(e)
  <2> DEFINE d == delivered[e]
  <2>0. d = 0
    BY <1>1, BoundsAssumption DEF Deliver, Calm, OneDelivery, TypeInv, ListsOK
  <2>1. delivered[e] = 0 /\ delivered' = [delivered EXCEPT ![e] = 1]
    BY <1>1, <2>0 DEF Deliver
  <2>2. row[e].status = "absent"
    BY <2>1 DEF Pushed, RowFollows
  <2>3. /\ delivered'[e] = 1 /\ \A x \in Events : x # e => delivered'[x] = delivered[x]
        /\ row' = row /\ alerts' = alerts
    BY <1>1, <2>1 DEF Deliver, effects, TypeInv, ListsOK
  <2>4. row'[e].status \notin Terminal /\ delivered'[e] # 0
    BY <2>2, <2>3 DEF Terminal
  <2>5. \A x \in Events : x # e => delivered'[x] = delivered[x] /\ row'[x] = row[x]
    BY <2>3
  <2> HIDE DEF d
  <2> QED
    BY <2>1, <2>3, <2>4, <2>5 DEF Promise!Accept
<1>2. ASSUME NEW s \in Slots, Notify(s) PROVE Promise!Tell(task[s].ev)
  <2>1. delivered[task[s].ev] # 0 /\ task[s].ev \in Events
    BY <1>2, FirstAlert DEF Pushed, TypeInv, ListsOK
  <2> QED
    BY <1>2, <2>1, FirstAlert DEF Promise!Tell, Terminal
<1>3. ASSUME NEW s \in Slots, Releases(s), TaskStep(s), ~Notify(s) PROVE Promise!Decide(task[s].ev)
  <2> DEFINE e == task[s].ev
  <2>1. e \in Events /\ row[e].status = "processing" /\ row'[e].status \in Terminal
    BY <1>3, TaskStepRuns DEF Releases, RowFollows, TaskFits, TypeInv
  <2>2. e \in InHand
    BY <1>3, <2>1 DEF Releases, InHand, Owning, Holding, PCs
  <2>3. delivered[e] # 0
    BY <2>2 DEF OnePlace, Pushed, TypeInv, ListsOK
  <2>4. \A x \in Events : x # e => row'[x] = row[x]
    BY <1>3, CalmSteps
  <2>5. delivered' = delivered /\ alerts' = alerts
    BY <1>3, TaskStepFrame
  <2> QED
    BY <2>1, <2>3, <2>4, <2>5 DEF Promise!Decide, Terminal
<1>4. ASSUME NEW s \in Slots, TaskStep(s), ~Releases(s), ~Notify(s) PROVE UNCHANGED Promise!vars
  <2> DEFINE e == task[s].ev
  <2>1. e \in Events /\ TaskFits(task[s])
    BY <1>4, TaskStepRuns DEF RowFollows, TypeInv
  <2>2. row'[e].status \in Terminal <=> row[e].status \in Terminal
    BY <1>4, <2>1, CalmSteps DEF Begins, Works, Returns, Closes, TaskFits, Owning, Fresh, Terminal
  <2>3. \A x \in Events : x # e => row'[x] = row[x]
    BY <1>4, CalmSteps
  <2>4. delivered' = delivered /\ alerts' = alerts
    BY <1>4, TaskStepFrame
  <2> HIDE DEF e
  <2> QED
    BY <2>2, <2>3, <2>4, Stutters
<1>5. ASSUME \/ \E e \in Events : DelayedPush(e) \/ StaleSweep(e) \/ AgeFile(e)
             \/ \E s \in Slots : Pop(s)
             \/ UNCHANGED vars
      PROVE  UNCHANGED Promise!vars
  <2>1. row' = row /\ delivered' = delivered /\ alerts' = alerts
    BY <1>5 DEF DelayedPush, StaleSweep, AgeFile, Pop, vars, lists, effects
  <2> QED
    BY <2>1, Stutters
<1>6. ASSUME NEW e \in Events, AgeRow(e) PROVE UNCHANGED Promise!vars
  <2>1. \A x \in Events : row'[x].status = row[x].status
    BY <1>6 DEF AgeRow, TypeInv, RowsOK, Row
  <2>2. delivered' = delivered /\ alerts' = alerts
    BY <1>6 DEF AgeRow, lists, effects
  <2> QED
    BY <2>1, <2>2, Stutters
<1>7. ~(Crash \/ Shutdown \/ Drained \/ StartupStep)
  BY NotStopped DEF Calm
<1>8. ASSUME NEW s \in Slots, TaskStep(s) PROVE task[s].ev \in Events
  BY <1>8, TaskStepRuns DEF TypeInv
<1>9. ASSUME NEW s \in Slots, TaskStep(s) PROVE [Promise!Next]_(Promise!vars)
  <2>1. CASE Notify(s)
    BY <1>2, <1>8, <1>9, <2>1 DEF Promise!Next
  <2>2. CASE Releases(s) /\ ~Notify(s)
    <3>1. PICK e \in Events : e = task[s].ev
      BY <1>8, <1>9
    <3>2. Promise!Decide(e)
      BY <1>3, <1>9, <2>2, <3>1 DEF Promise!Decide
    <3> QED
      BY <3>2 DEF Promise!Next
  <2>3. CASE ~Releases(s) /\ ~Notify(s)
    BY <1>4, <1>9, <2>3
  <2> QED
    BY <2>1, <2>2, <2>3
<1>10. ASSUME NEW e \in Events, Deliver(e) PROVE Promise!Next
  BY <1>1, <1>10 DEF Promise!Next
<1> QED
  BY <1>5, <1>6, <1>7, <1>9, <1>10 DEF Next

\* The worker keeps its promise when nothing fails, for any number of events, tasks and
\* retries: each event pushed is decided once and for good, and the analysts hear of it
\* at most once, before that.
THEOREM PromiseKept == Calm => (Spec => KeepsPromise)
<1> SUFFICES ASSUME Calm PROVE Spec => KeepsPromise
  OBVIOUS
<1>1. Init => Promise!Init
  BY DEF Init, Promise!Init
<1>2. PromiseInv /\ [Next]_vars => [Promise!Next]_(Promise!vars)
  BY PromiseStep
<1> QED
  BY <1>1, <1>2, PromiseInvInvariant, PTL DEF Spec, KeepsPromise, Promise!Spec
=============================================================================
