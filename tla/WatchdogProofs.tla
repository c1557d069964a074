--------------------------- MODULE WatchdogProofs ---------------------------
(***************************************************************************)
(* One CWS job at a time, no job killed for a stale loop, and allowed      *)
(* sites that stay open: for all sites, and all numbers of changes, jobs,  *)
(* mishaps and restarts.                                                   *)
(***************************************************************************)
EXTENDS Watchdog, FiniteSetTheorems, SequenceTheorems, TLAPS

-----------------------------------------------------------------------------
(* The invariant *)

InJob(l)     == pc[l] \in {"run", "died"}
InRelease(l) == pc[l] \in {"unlock", "unlockDied"}

\* A loop with a job holds the lock, unless history says when it lost it.
Held ==
    /\ lock \in Loops \cup {Free, Nobody}
    /\ \A l \in Loops : InJob(l) /\ l \notin exposed => lock = l
    /\ \A l \in Loops : InRelease(l) /\ l \notin late => lock = l

\* Only one sweep looks; the other loops have sites to open or to close, and
\* the sync loop has OneDrives only.
Aimed ==
    /\ \A l \in Loops \ {"verify"} : todo[l] \subseteq Targets \X Sites
    /\ todo["sync"] \subseteq Targets \X Personal

WatchTypes ==
    /\ strikes \in 0 .. StaleChecks /\ restarts \in Nat
    /\ look \in {"none", "free", "failed"}
    /\ begun \subseteq Loops

\* After a look that found the lock free, a running job is new, or has lost its lock.
Spared == look = "free" => Running \subseteq begun \cup exposed

WatchInv == CwsTypeOK /\ todo \in [Loops -> SUBSET Work] /\ Held /\ Aimed /\ WatchTypes /\ Spared

USE CwsAssumption, WatchdogAssumption DEF policy, copies, record, inbox, loops, ghosts, bounds

-----------------------------------------------------------------------------
(* The lock *)

LockVars == <<lock, pc, exposed, late>>

LockTypes ==
    /\ pc \in [Loops -> {"idle", "want", "run", "died", "unlock", "unlockDied", "save"}]
    /\ lock \in Loops => pc[lock] \in {"run", "died", "unlock", "unlockDied"}
    /\ exposed \subseteq Loops /\ late \subseteq Loops
LockInv == LockTypes /\ Held

\* A job leaves the history of lost locks only when it is over.
Settles == \A l \in exposed \ exposed' : pc'[l] # "run"

\* A restart clears all.
LEMMA RestartLock ==
    ASSUME LockInv, Restart
    PROVE  LockInv' /\ Settles
BY DEF LockInv, LockTypes, Held, Restart, InJob, InRelease, Settles, Free, Nobody, Loops, Sweeps

\* Every step of the cron keeps the lock with the loop that took it, or notes the loss.
LEMMA LockStep ==
    ASSUME LockInv, [CwsNext]_cwsVars
    PROVE  LockInv' /\ Settles
<1> USE DEF LockInv, LockTypes, Held, InJob, InRelease, Settles, Free, Nobody, Loops, Sweeps
<1>0. CASE UNCHANGED LockVars
    BY <1>0 DEF LockVars
<1>1. ASSUME NEW s \in Sites,
             AddSite(s) \/ RemoveSite(s) \/ RetryFailure(s) \/ Detect(s)
               \/ FileDrift(s) \/ FileDriftFails(s) \/ ClaimExpires(s)
      PROVE  UNCHANGED LockVars
    BY <1>1 DEF AddSite, RemoveSite, RetryFailure, Detect, FileDrift, FileDriftFails,
                ClaimExpires, LockVars
<1>2. ASSUME NEW c \in calls, Push(c) \/ PushFails(c)
      PROVE  UNCHANGED LockVars
    BY <1>2 DEF Push, PushFails, LockVars
<1>3. ASSUME NEW u \in Personal, GroupChanges(u)
      PROVE  UNCHANGED LockVars
    BY <1>3 DEF GroupChanges, LockVars
<1>4. ASSUME NEW l \in Loops, NEW w \in todo[l], Do(l, w) \/ DoFails(l, w) \/ Throttled(l, w)
      PROVE  UNCHANGED LockVars
    BY <1>4 DEF Do, DoFails, Throttled, LockVars
<1>5. ASSUME NEW l \in Loops, Start(l)
      PROVE  LockInv' /\ Settles
    BY <1>5 DEF Start, Acquires
<1>6. ASSUME NEW l \in Sweeps, StartSweep(l)
      PROVE  LockInv' /\ Settles
    BY <1>6 DEF StartSweep, Acquires
<1>7. ASSUME NEW l \in Loops, JobDies(l)
      PROVE  LockInv' /\ Settles
    BY <1>7 DEF JobDies
<1>8. ASSUME NEW l \in Loops, ReleaseGet(l)
      PROVE  LockInv' /\ Settles
    BY <1>8 DEF ReleaseGet, Ended, After, Clean, StillOurs
<1>9. ASSUME NEW l \in Loops, ReleaseDelete(l)
      PROVE  LockInv' /\ Settles
    BY <1>9 DEF ReleaseDelete, After, Clean, Unlocked, Unlocking
<1>10. ASSUME NEW l \in Loops, ReleaseFails(l)
      PROVE  LockInv' /\ Settles
    BY <1>10 DEF ReleaseFails, Ended, After, Clean
<1>11. ASSUME NEW l \in Loops, LockExpires(l)
      PROVE  LockInv' /\ Settles
    BY <1>11 DEF LockExpires, Unlocked, Unlocking
<1>12. CASE Pop
    BY <1>12 DEF Pop
<1>20. CASE Fetch
    <2>1. pc["sync"] = "idle" /\ \E p \in {"idle", "want"} : pc' = [pc EXCEPT !["sync"] = p]
        BY <1>20 DEF Fetch
    <2>2. UNCHANGED <<lock, exposed, late>>
        BY <1>20 DEF Fetch
    <2> QED BY <2>1, <2>2
<1>13. ASSUME NEW l \in {"allow", "sync"}, pc[l] \in {"want", "save"},
              pc' = [pc EXCEPT ![l] = "idle"], UNCHANGED <<lock, exposed, late>>
       PROVE  LockInv' /\ Settles
    BY <1>13
<1>21. Requeue \/ Defer \/ SaveSnapshot =>
           \E l \in {"allow", "sync"} :
               /\ pc[l] \in {"want", "save"} /\ pc' = [pc EXCEPT ![l] = "idle"]
               /\ UNCHANGED <<lock, exposed, late>>
    BY DEF Requeue, Defer, SaveSnapshot
<1>14. CASE AnswerLost \/ KeyExpires
    BY <1>14 DEF AnswerLost, KeyExpires
<1>15. CASE Crash
    BY <1>15, RestartLock DEF Crash
<1>16. CASE UNCHANGED cwsVars
    BY <1>16 DEF cwsVars
<1>17. StartDrift \/ StartBulk \/ StartVerification => \E l \in Sweeps : StartSweep(l)
    BY DEF StartDrift, StartBulk, StartVerification
<1>18. ASSUME NEW l \in Loops, Step(l)
       PROVE  LockInv' /\ Settles
    BY <1>0, <1>4, <1>5, <1>7, <1>8, <1>9, <1>10, <1>11, <1>18 DEF Step
<1> QED
    BY <1>0, <1>1, <1>2, <1>3, <1>6, <1>12, <1>13, <1>14, <1>15, <1>16, <1>17, <1>18, <1>20,
       <1>21 DEF CwsNext

-----------------------------------------------------------------------------
(* The rest of the types *)

Sets ==
    /\ {open, allowed, drift, failing, claims, lost, overtaken} \subseteq SUBSET Sites
    /\ {members, cache, snapshot, seen, missed} \subseteq SUBSET Personal
    /\ calls \subseteq Work /\ dead \subseteq Targets \X Sites
    /\ queue \in Seq(Targets \X Sites)
Tasks ==
    /\ todo \in [Loops -> SUBSET Work]
    /\ \A l \in Loops : pc[l] \notin {"want", "run"} => todo[l] = {}
Data == Sets /\ Tasks /\ Aimed /\ LockTypes

\* What jobs are planned to do are closings and openings, and a sweep may look.
LEMMA TaskStep ==
    ASSUME Data, [CwsNext]_cwsVars, Sets'
    PROVE  Tasks' /\ Aimed'
<1> USE DEF Data, Tasks, Aimed, LockTypes, Loops, Sweeps, Work
<1>0. CASE UNCHANGED loops
    BY <1>0
<1>1. ASSUME NEW s \in Sites,
             AddSite(s) \/ RemoveSite(s) \/ RetryFailure(s) \/ Detect(s)
               \/ FileDrift(s) \/ FileDriftFails(s) \/ ClaimExpires(s)
      PROVE  UNCHANGED loops
    BY <1>1 DEF AddSite, RemoveSite, RetryFailure, Detect, FileDrift, FileDriftFails,
                ClaimExpires
<1>2. ASSUME NEW c \in calls, Push(c) \/ PushFails(c)
      PROVE  UNCHANGED loops
    BY <1>2 DEF Push, PushFails
<1>3. ASSUME NEW u \in Personal, GroupChanges(u)
      PROVE  UNCHANGED loops
    BY <1>3 DEF GroupChanges
<1>4. ASSUME NEW l \in Loops, NEW w \in todo[l], Do(l, w) \/ DoFails(l, w) \/ Throttled(l, w)
      PROVE  Tasks' /\ Aimed'
    BY <1>4 DEF Do, DoFails, Throttled
<1>5. ASSUME NEW l \in Loops, Start(l)
      PROVE  Tasks' /\ Aimed'
    BY <1>5 DEF Start
<1>6. ASSUME NEW l \in Sweeps, StartSweep(l)
      PROVE  Tasks' /\ Aimed'
    <2>1. Plan(l) \subseteq Work /\ (l # "verify" => Plan(l) \subseteq Targets \X Sites)
        BY DEF Plan, Sets, Targets
    <2>2. todo' = [todo EXCEPT ![l] = Plan(l)] /\ pc' = [pc EXCEPT ![l] = "run"]
        BY <1>6 DEF StartSweep
    <2> QED BY <2>1, <2>2
<1>7. ASSUME NEW l \in Loops, JobDies(l)
      PROVE  Tasks' /\ Aimed'
    BY <1>7 DEF JobDies
<1>8. ASSUME NEW l \in Loops, ReleaseGet(l) \/ ReleaseDelete(l) \/ ReleaseFails(l)
      PROVE  Tasks' /\ Aimed'
    <2>1. todo' = todo /\ todo[l] = {} /\ \E p : pc' = [pc EXCEPT ![l] = p]
        BY <1>8 DEF ReleaseGet, ReleaseDelete, ReleaseFails, Ended
    <2> QED BY <2>1
<1>9. ASSUME NEW l \in Loops, LockExpires(l)
      PROVE  UNCHANGED loops
    BY <1>9 DEF LockExpires
<1>10. CASE Pop
    <2>1. Head(queue) \in Targets \X Sites
        BY <1>10 DEF Pop, Sets
    <2>2. {Head(queue)} \subseteq Targets \X Sites /\ {Head(queue)} \subseteq Work
        BY <2>1 DEF Targets
    <2> QED BY <1>10, <2>2 DEF Pop
<1>11. CASE Fetch
    <2>1. Delta \cup Reconcile \subseteq Targets \X Personal
        BY DEF Delta, Reconcile, Sets, Targets
    <2>2. Delta \cup Reconcile \subseteq Work /\ Delta \cup Reconcile \subseteq Targets \X Sites
        BY <2>1 DEF Targets
    <2> DEFINE D == Delta \cup Reconcile
    <2>3. /\ todo' = [todo EXCEPT !["sync"] = D]
          /\ pc' = [pc EXCEPT !["sync"] = IF D = {} THEN "idle" ELSE "want"]
        BY <1>11 DEF Fetch
    <2> HIDE DEF D
    <2>4. D \subseteq Targets \X Sites /\ D \subseteq Targets \X Personal /\ D \subseteq Work
        BY <2>1, <2>2 DEF D
    <2> QED BY <2>3, <2>4
<1>12. CASE Requeue \/ Defer
    BY <1>12 DEF Requeue, Defer
<1>13. CASE SaveSnapshot
    BY <1>13 DEF SaveSnapshot
<1>14. CASE AnswerLost \/ KeyExpires
    BY <1>14 DEF AnswerLost, KeyExpires
<1>15. CASE Crash
    BY <1>15 DEF Crash, Restart
<1>16. CASE UNCHANGED cwsVars
    BY <1>16 DEF cwsVars
<1>17. StartDrift \/ StartBulk \/ StartVerification => \E l \in Sweeps : StartSweep(l)
    BY DEF StartDrift, StartBulk, StartVerification
<1>18. ASSUME NEW l \in Loops, Step(l)
       PROVE  Tasks' /\ Aimed'
    BY <1>0, <1>4, <1>5, <1>7, <1>8, <1>9, <1>18 DEF Step
<1> QED
    BY <1>0, <1>1, <1>2, <1>3, <1>6, <1>10, <1>11, <1>12, <1>13, <1>14, <1>15, <1>16, <1>17,
       <1>18 DEF CwsNext

\* The tables, the keys and the lists keep what they can hold.
LEMMA SetStep ==
    ASSUME Data, [CwsNext]_cwsVars
    PROVE  Sets'
<1> USE DEF Data, Sets, Tasks, Aimed, LockTypes, Loops, Sweeps, Work, Targets
<1>1. ASSUME NEW s \in Sites, AddSite(s)
      PROVE  Sets'
    BY <1>1 DEF AddSite
<1>2. ASSUME NEW s \in Sites, RemoveSite(s) \/ Detect(s) \/ ClaimExpires(s)
      PROVE  Sets'
    BY <1>2 DEF RemoveSite, Detect, ClaimExpires
<1>3. ASSUME NEW s \in Sites, RetryFailure(s)
      PROVE  Sets'
    BY <1>3 DEF RetryFailure
<1>4. ASSUME NEW s \in Sites, FileDrift(s)
      PROVE  Sets'
    <2>1. queue' \in Seq(Targets \X Sites) /\ claims' \subseteq Sites
        BY <1>4 DEF FileDrift, ClaimAndPush
    <2> QED BY <1>4, <2>1 DEF FileDrift
<1>20. ASSUME NEW s \in Sites, FileDriftFails(s)
      PROVE  Sets'
    BY <1>20 DEF FileDriftFails
<1>5. ASSUME NEW c \in calls, Push(c)
      PROVE  Sets'
    <2>1. c \in Targets \X Sites
        BY <1>5 DEF Push
    <2> QED BY <1>5, <2>1 DEF Push
<1>6. ASSUME NEW c \in calls, PushFails(c)
      PROVE  Sets'
    BY <1>6 DEF PushFails
<1>7. ASSUME NEW u \in Personal, GroupChanges(u)
      PROVE  Sets'
    BY <1>7 DEF GroupChanges
<1>8. ASSUME NEW l \in Loops, NEW w \in todo[l], Do(l, w)
      PROVE  Sets'
    <2>1. w[2] \in Sites
        OBVIOUS
    <2>2. open' \subseteq Sites /\ drift' \subseteq Sites /\ failing' \subseteq Sites
        BY <1>8, <2>1 DEF Do
    <2> QED BY <1>8, <2>2 DEF Do
<1>9. ASSUME NEW l \in Loops, NEW w \in todo[l], DoFails(l, w)
      PROVE  Sets'
    <2>1. w \in Targets \X Sites
        BY <1>9 DEF DoFails
    <2>2. dead' \subseteq Targets \X Sites
        BY <1>9, <2>1 DEF DoFails, DeadLetter
    <2>3. missed' \subseteq Personal
        BY <1>9, <2>1 DEF DoFails
    <2> QED BY <1>9, <2>1, <2>2, <2>3 DEF DoFails
<1>10. ASSUME NEW l \in Loops, NEW w \in todo[l], Throttled(l, w)
      PROVE  Sets'
    <2>1. w[2] \in Sites
        OBVIOUS
    <2> QED BY <1>10, <2>1 DEF Throttled
<1>11. ASSUME NEW l \in Loops,
              Start(l) \/ ReleaseGet(l) \/ ReleaseFails(l)
       PROVE  Sets'
    BY <1>11 DEF Start, ReleaseGet, ReleaseFails
<1>12. ASSUME NEW l \in Loops, JobDies(l)
       PROVE  Sets'
    <2>1. \A w \in todo[l] : l = "allow" => w \in Targets \X Sites
        OBVIOUS
    <2>2. dead' \subseteq Targets \X Sites
        BY <1>12, <2>1 DEF JobDies, DeadLetter
    <2> QED BY <1>12, <2>2 DEF JobDies
<1>13. \A ls : Closing(ls) \subseteq Sites
    BY DEF Closing
<1>14. ASSUME NEW l \in Loops, ReleaseDelete(l) \/ LockExpires(l)
       PROVE  Sets'
    <2>1. overtaken' \subseteq Sites
        BY <1>13, <1>14 DEF ReleaseDelete, LockExpires, Unlocked
    <2> QED BY <1>14, <2>1 DEF ReleaseDelete, LockExpires
<1>15. ASSUME NEW l \in Sweeps, StartSweep(l)
       PROVE  Sets'
    BY <1>15 DEF StartSweep
<1>16. CASE Pop
    <2>1. queue' \in Seq(Targets \X Sites)
        BY <1>16 DEF Pop
    <2> QED BY <1>16, <2>1 DEF Pop
<1>17. CASE Requeue
    <2>1. PICK w \in todo["allow"] : queue' = Reinsert(w)
        BY <1>17 DEF Requeue
    <2>2. w \in Targets \X Sites
        OBVIOUS
    <2>3. queue' \in Seq(Targets \X Sites)
        BY <2>1, <2>2 DEF Reinsert
    <2> QED BY <1>17, <2>3 DEF Requeue
<1>18. CASE Fetch
    BY <1>18 DEF Fetch
<1>19. CASE Defer \/ SaveSnapshot \/ AnswerLost \/ KeyExpires
    BY <1>19 DEF Defer, SaveSnapshot, AnswerLost, KeyExpires
<1>21. CASE Crash
    BY <1>21 DEF Crash, Restart
<1>22. CASE UNCHANGED cwsVars
    BY <1>22 DEF cwsVars
<1>23. StartDrift \/ StartBulk \/ StartVerification => \E l \in Sweeps : StartSweep(l)
    BY DEF StartDrift, StartBulk, StartVerification
<1>24. ASSUME NEW l \in Loops, Step(l)
       PROVE  Sets'
    <2>1. CASE \E w \in todo[l] : Do(l, w) \/ DoFails(l, w) \/ Throttled(l, w)
        BY <1>8, <1>9, <1>10, <2>1
    <2> QED BY <1>11, <1>12, <1>14, <1>24, <2>1 DEF Step
<1> HIDE DEF Data, Sets, Tasks, Aimed, LockTypes, Loops, Sweeps, Work, Targets
<1>25. ASSUME NEW s \in Sites, AddSite(s) \/ RemoveSite(s) \/ RetryFailure(s) \/ Detect(s)
                 \/ FileDrift(s) \/ FileDriftFails(s) \/ ClaimExpires(s)
       PROVE  Sets'
    BY <1>1, <1>2, <1>3, <1>4, <1>20, <1>25
<1> QED
    BY <1>5, <1>6, <1>7, <1>15, <1>16, <1>17, <1>18, <1>19, <1>21, <1>22, <1>23, <1>24, <1>25
       DEF CwsNext

-----------------------------------------------------------------------------
(* The composition *)

Cron == Data /\ Held

\* The types and the lock, over every step of the cron.
LEMMA CronStep ==
    ASSUME Cron, [CwsNext]_cwsVars
    PROVE  Cron' /\ Settles
<1>1. LockInv' /\ Settles
    BY LockStep DEF Cron, Data, LockInv
<1>2. Sets'
    BY SetStep DEF Cron
<1>3. Tasks' /\ Aimed'
    BY <1>2, TaskStep DEF Cron
<1> QED BY <1>1, <1>2, <1>3 DEF Cron, Data, LockInv

\* The watchdog's restart is the one of a crash.
LEMMA RestartStep ==
    ASSUME Cron, Restart
    PROVE  Cron' /\ Running' = {}
<1>1. LockInv'
    BY RestartLock DEF Cron, Data, LockInv
<1>2. Sets'
    BY DEF Cron, Data, Sets, Restart, Aimed, Loops, Sweeps
<1>3. Tasks' /\ Aimed' /\ Running' = {}
    BY DEF Restart, Tasks, Aimed, Running, Loops, Sweeps
<1> QED BY <1>1, <1>2, <1>3 DEF Cron, Data, LockInv

\* The invariant in the parts the steps work on.
LEMMA Parts == WatchInv <=> Cron /\ WatchTypes /\ Spared
BY DEF WatchInv, CwsTypeOK, Cron, Data, Sets, Tasks, LockTypes, Held

\* Nothing runs at first, and nobody holds the lock.
LEMMA WatchInit == Init => WatchInv
<1> SUFFICES ASSUME Init PROVE Cron /\ WatchTypes /\ Spared
    BY Parts
<1>1. Sets
    BY DEF Init, CwsInit, Sets
<1>2. Tasks /\ Aimed /\ LockTypes /\ Held
    BY DEF Init, CwsInit, Tasks, Aimed, LockTypes, Held, InJob, InRelease, Free, Loops, Sweeps
<1>3. WatchTypes /\ Spared
    BY DEF Init, WatchTypes, Spared
<1> QED BY <1>1, <1>2, <1>3 DEF Cron, Data

\* A check that does not restart leaves the cron alone; a restart stops all jobs.
LEMMA WatchStep ==
    ASSUME WatchInv, [Next]_vars
    PROVE  WatchInv'
<1> SUFFICES Cron' /\ WatchTypes' /\ Spared'
    BY Parts, PTL
<1>0. Cron /\ WatchTypes /\ Spared
    BY Parts
<1>1. CASE Other
    <2>1. Cron' /\ Settles
        BY <1>0, <1>1, CronStep DEF Other
    <2>2. Running' \subseteq Loops
        BY DEF Running
    <2>3. WatchTypes'
        BY <1>0, <1>1, <2>2 DEF Other, WatchTypes
    <2>4. Spared'
        <3>1. \A l \in exposed \ exposed' : l \notin Running'
            BY <2>1 DEF Settles, Running
        <3> QED BY <1>0, <1>1, <3>1 DEF Other, Spared
    <2> QED BY <2>1, <2>3, <2>4
<1>2. CASE UNCHANGED <<unmoved, look, begun>> /\ WatchTypes'
    <2>1. Cron' /\ Running' = Running
        BY <1>0, <1>2 DEF unmoved, Cron, Data, Sets, Tasks, Aimed, LockTypes, Held, InJob,
                          InRelease, Running
    <2> QED BY <1>0, <1>2, <2>1 DEF Spared, unmoved
<1>3. CASE Restart /\ WatchTypes'
    <2>1. Cron' /\ Running' = {}
        BY <1>0, <1>3, RestartStep
    <2> QED BY <1>3, <2>1 DEF Spared
<1>4. CASE Healthy
    BY <1>0, <1>2, <1>4 DEF Healthy, WatchTypes, cwsVars, unmoved
<1>5. CASE DeadLoop
    BY <1>0, <1>2, <1>3, <1>5 DEF DeadLoop, Strike, WatchTypes
<1>6. CASE StaleLoop \/ StaleLoopUnread
    <2>1. UNCHANGED <<unmoved, begun>> /\ WatchTypes'
        BY <1>0, <1>6 DEF StaleLoop, StaleLoopUnread, Strike, WatchTypes
    <2>2. Cron' /\ Running' = Running /\ exposed' = exposed
        BY <1>0, <2>1 DEF unmoved, Cron, Data, Sets, Tasks, Aimed, LockTypes, Held, InJob,
                          InRelease, Running
    <2>3. ASSUME look' = "free"
          PROVE  lock = Free
        BY <1>6, <2>3 DEF StaleLoop, StaleLoopUnread
    <2>4. lock = Free => Running \subseteq exposed
        BY <1>0 DEF Cron, Held, Running, InJob, Free, Loops, Sweeps
    <2> QED BY <2>1, <2>2, <2>3, <2>4 DEF Spared
<1>7. CASE StaleRestart
    BY <1>0, <1>3, <1>7 DEF StaleRestart, WatchTypes
<1>8. CASE UNCHANGED vars
    BY <1>0, <1>2, <1>8 DEF vars, watch, cwsVars, unmoved, WatchTypes
<1> QED BY <1>1, <1>4, <1>5, <1>6, <1>7, <1>8 DEF Next

\* The invariant holds throughout.
THEOREM WatchInvariant == Spec => []WatchInv
BY WatchInit, WatchStep, PTL DEF Spec

\* Type correctness: tables, lists and loops hold what they can hold, and the
\* lock, when it names a loop, names one with a job.
THEOREM CwsTypeCorrect == Spec => []CwsTypeOK
<1>1. WatchInv => CwsTypeOK
    BY DEF WatchInv
<1> QED BY <1>1, WatchInvariant, PTL

\* Single flight: of the jobs that run, at most one has not lost its lock to the
\* expiry, whatever crashes, lost answers and failed releases there were.
THEOREM OneJob == Spec => []SingleFlight
<1>1. ASSUME WatchInv
      PROVE  SingleFlight
    <2> DEFINE R == {l \in Loops : pc[l] = "run"} \ exposed
    <2>1. \A l \in R : lock = l
        BY <1>1 DEF WatchInv, Held, InJob
    <2>2. CASE R = {}
        BY <2>2, FS_EmptySet DEF SingleFlight
    <2>3. CASE R # {}
        <3>1. R = {lock}
            BY <2>1, <2>3
        <3>2. Cardinality(R) = 1
            BY <3>1, FS_Singleton
        <3> QED BY <3>2 DEF SingleFlight
    <2> QED BY <2>2, <2>3
<1> QED BY <1>1, WatchInvariant, PTL

\* No job that was running under the lock is killed for a stale loop, if the
\* watchdog could read the lock.
THEOREM StaleSafe == Spec => StaleSparesJobs
<1>1. WatchInv /\ [Next]_vars => [look = "free" /\ StaleRestart => Running \subseteq begun \cup exposed]_vars
    BY DEF WatchInv, Spared
<1>2. Spec => [][Next]_vars
    BY PTL DEF Spec
<1> QED BY <1>1, <1>2, WatchInvariant, PTL DEF StaleSparesJobs

-----------------------------------------------------------------------------
(* An allowed site stays open *)

Opening(s) == <<"open", s>>
Shut(s)    == <<"close", s>>

\* The action is among those of q; every closing of the site is followed by an opening.
In(q, w) == \E i \in DOMAIN q : q[i] = w
Answered(q, s) == \A i \in DOMAIN q : q[i] = Shut(s) => \E j \in DOMAIN q : j > i /\ q[j] = Opening(s)

\* The opening of a site is still to come, or the action loop has it in hand.
Pending(s) == Opening(s) \in calls \/ In(queue, Opening(s))
Given(s)   == Opening(s) \in todo["allow"]
Ready(s)   == Given(s) /\ pc["allow"] = "want"
Threats(s) == {l \in Loops : pc[l] = "run" /\ Shut(s) \in todo[l]}
Done(s)    == s \in open \/ Opening(s) \in dead

\* Nobody is about to push a closing; what the list closes it opens again; a job that
\* is going to close the site has its lock, so that the opening can only come after it.
Owed(s) ==
    /\ Shut(s) \notin calls /\ <<"look", s>> \notin calls
    /\ Opening(s) \in calls \/ Answered(queue, s)
    /\ Shut(s) \in todo["allow"] => Pending(s)
    /\ Threats(s) \cap exposed = {}
    /\ Threats(s) # {} => Pending(s) \/ Ready(s)
    /\ Pending(s) \/ Given(s) \/ Done(s)

\* A job whose lock expired does not get it again, and the action loop has one action.
Marked ==
    /\ \A l \in exposed : InJob(l) /\ lock # l
    /\ \A l \in Loops : pc[l] = "want" => l \in {"allow", "sync"}
    /\ \A v, w \in todo["allow"] : v = w

OpenInv == Marked /\ \A s \in allowed \ (overtaken \cup lost) : Owed(s)

\* A longer list
LEMMA PushAnswered ==
    ASSUME NEW D, NEW q \in Seq(D), NEW e \in D, NEW s
    PROVE  /\ e = Opening(s) => Answered(Append(q, e), s)
           /\ Answered(q, s) /\ e # Shut(s) => Answered(Append(q, e), s)
           /\ \A w : In(q, w) \/ e = w => In(Append(q, e), w)
<1> DEFINE r == Append(q, e)   n == Len(q)
<1>1. /\ n \in Nat /\ DOMAIN q = 1 .. n /\ DOMAIN r = 1 .. (n + 1)
      /\ \A i \in 1 .. n : r[i] = q[i]
      /\ r[n + 1] = e
    BY AppendProperties
<1> HIDE DEF r, n
<1>2. e = Opening(s) => Answered(r, s)
    <2> SUFFICES ASSUME e = Opening(s), NEW i \in DOMAIN r, r[i] = Shut(s)
                 PROVE  \E j \in DOMAIN r : j > i /\ r[j] = Opening(s)
        BY DEF Answered
    <2>1. i # n + 1
        BY <1>1 DEF Opening, Shut
    <2>2. n + 1 \in DOMAIN r /\ n + 1 > i
        BY <1>1, <2>1
    <2> QED BY <1>1, <2>2
<1>3. Answered(q, s) /\ e # Shut(s) => Answered(r, s)
    <2> SUFFICES ASSUME Answered(q, s), e # Shut(s), NEW i \in DOMAIN r, r[i] = Shut(s)
                 PROVE  \E j \in DOMAIN r : j > i /\ r[j] = Opening(s)
        BY DEF Answered
    <2>1. i \in DOMAIN q /\ r[i] = q[i]
        BY <1>1
    <2>2. PICK j \in DOMAIN q : j > i /\ q[j] = Opening(s)
        BY <2>1 DEF Answered
    <2> QED BY <1>1, <2>2
<1>4. ASSUME NEW w, In(q, w) \/ e = w
      PROVE  In(r, w)
    <2>1. n + 1 \in DOMAIN r /\ \A i \in DOMAIN q : i \in DOMAIN r /\ r[i] = q[i]
        BY <1>1
    <2> QED BY <1>1, <1>4, <2>1 DEF In
<1> QED BY <1>2, <1>3, <1>4 DEF r

\* A list whose oldest action is taken
LEMMA PopAnswered ==
    ASSUME NEW D, NEW q \in Seq(D), q # <<>>, NEW s
    PROVE  /\ Answered(q, s) => Answered(Tail(q), s)
           /\ \A w : In(q, w) => Head(q) = w \/ In(Tail(q), w)
           /\ Answered(q, s) /\ Head(q) = Shut(s) => In(Tail(q), Opening(s))
<1> DEFINE r == Tail(q)   n == Len(r)
<1>1. /\ n \in Nat /\ DOMAIN q = 1 .. (n + 1) /\ DOMAIN r = 1 .. n
      /\ \A i \in 1 .. n : r[i] = q[i + 1]
      /\ Head(q) = q[1]
    BY HeadTailProperties
<1> HIDE DEF r, n
<1>2. \A i \in DOMAIN q : i # 1 => i - 1 \in DOMAIN r /\ r[i - 1] = q[i]
    BY <1>1
<1>3. Answered(q, s) => Answered(r, s)
    <2> SUFFICES ASSUME Answered(q, s), NEW i \in DOMAIN r, r[i] = Shut(s)
                 PROVE  \E j \in DOMAIN r : j > i /\ r[j] = Opening(s)
        BY DEF Answered
    <2>1. i + 1 \in DOMAIN q /\ r[i] = q[i + 1]
        BY <1>1
    <2>2. PICK j \in DOMAIN q : j > i + 1 /\ q[j] = Opening(s)
        BY <2>1 DEF Answered
    <2>3. j - 1 \in DOMAIN r /\ r[j - 1] = q[j] /\ j - 1 > i
        BY <1>1, <1>2, <2>2
    <2> QED BY <2>2, <2>3
<1>4. ASSUME NEW w, In(q, w)
      PROVE  Head(q) = w \/ In(r, w)
    <2>1. PICK i \in DOMAIN q : q[i] = w
        BY <1>4 DEF In
    <2> QED BY <1>1, <1>2, <2>1 DEF In
<1>5. ASSUME Answered(q, s), Head(q) = Shut(s)
      PROVE  In(r, Opening(s))
    <2>1. 1 \in DOMAIN q
        BY <1>1
    <2>2. PICK j \in DOMAIN q : j > 1 /\ q[j] = Opening(s)
        BY <1>1, <1>5, <2>1 DEF Answered
    <2> QED BY <1>2, <2>2 DEF In
<1> QED BY <1>3, <1>4, <1>5 DEF r

\* A list to whose head an action goes back
LEMMA ReinsertAnswered ==
    ASSUME NEW D, NEW q \in Seq(D), NEW e \in D, NEW s
    PROVE  /\ Answered(q, s) /\ (e = Shut(s) => In(q, Opening(s))) => Answered(<<e>> \o q, s)
           /\ \A w : In(q, w) \/ e = w => In(<<e>> \o q, w)
<1> DEFINE r == <<e>> \o q   n == Len(q)
<1>1. /\ n \in Nat /\ DOMAIN q = 1 .. n /\ DOMAIN r = 1 .. (n + 1)
      /\ \A i \in 1 .. n : r[i + 1] = q[i]
      /\ r[1] = e
    <2>1. <<e>> \in Seq(D) /\ Len(<<e>>) = 1 /\ <<e>>[1] = e
        OBVIOUS
    <2>2. r \in Seq(D) /\ Len(r) = 1 + n
          /\ \A i \in 1 .. Len(r) : r[i] = IF i <= 1 THEN <<e>>[i] ELSE q[i - 1]
        BY <2>1, ConcatProperties
    <2>3. n \in Nat /\ DOMAIN q = 1 .. n /\ DOMAIN r = 1 .. Len(r)
        BY <2>2
    <2> HIDE DEF r, n
    <2>4. \A i \in 1 .. n : i + 1 \in 1 .. Len(r) /\ ~(i + 1 <= 1) /\ (i + 1) - 1 = i
        BY <2>2, <2>3
    <2>5. 1 \in 1 .. Len(r) /\ Len(r) = n + 1
        BY <2>2, <2>3
    <2>6. \A i \in 1 .. n : r[i + 1] = q[i]
        BY <2>2, <2>4
    <2>7. r[1] = e
        BY <2>1, <2>2, <2>5
    <2> QED BY <2>3, <2>5, <2>6, <2>7
<1> HIDE DEF r, n
<1>2. \A i \in DOMAIN q : i + 1 \in DOMAIN r /\ r[i + 1] = q[i]
    BY <1>1
<1>3. \A i \in DOMAIN r : i # 1 => i - 1 \in DOMAIN q /\ q[i - 1] = r[i]
    <2> SUFFICES ASSUME NEW i \in DOMAIN r, i # 1
                 PROVE  i - 1 \in DOMAIN q /\ q[i - 1] = r[i]
        OBVIOUS
    <2>1. i - 1 \in 1 .. n /\ (i - 1) + 1 = i
        BY <1>1
    <2> QED BY <1>1, <2>1
<1>4. ASSUME NEW w, In(q, w) \/ e = w
      PROVE  In(r, w)
    <2>1. 1 \in DOMAIN r
        BY <1>1
    <2> QED BY <1>1, <1>2, <1>4, <2>1 DEF In
<1>5. ASSUME Answered(q, s), e = Shut(s) => In(q, Opening(s))
      PROVE  Answered(r, s)
    <2> SUFFICES ASSUME NEW i \in DOMAIN r, r[i] = Shut(s)
                 PROVE  \E j \in DOMAIN r : j > i /\ r[j] = Opening(s)
        BY DEF Answered
    <2>1. CASE i = 1
        <3>1. PICK j \in DOMAIN q : q[j] = Opening(s)
            BY <1>1, <1>5, <2>1 DEF In
        <3>2. j + 1 > i
            BY <1>1, <2>1
        <3> QED BY <1>2, <3>1, <3>2
    <2>2. CASE i # 1
        <3>1. PICK j \in DOMAIN q : j > i - 1 /\ q[j] = Opening(s)
            BY <1>3, <1>5, <2>2 DEF Answered
        <3>2. j + 1 > i
            BY <1>1, <3>1
        <3> QED BY <1>2, <3>1, <3>2
    <2> QED BY <2>1, <2>2
<1> QED BY <1>4, <1>5 DEF r

\* A step that concerns the dashboard and the list only
LEMMA Listing ==
    ASSUME NEW s, Owed(s), UNCHANGED <<loops, exposed, open, dead>>,
           Shut(s) \notin calls', <<"look", s>> \notin calls',
           Opening(s) \in calls' \/ Answered(queue', s), Pending(s) => Pending(s)'
    PROVE  Owed(s)'
<1>1. Threats(s)' = Threats(s) /\ (Given(s)' <=> Given(s)) /\ (Ready(s)' <=> Ready(s))
      /\ (Done(s)' <=> Done(s))
    BY DEF Threats, Given, Ready, Done
<1> QED BY <1>1 DEF Owed

\* A step of the loops that leaves the list alone
LEMMA Looping ==
    ASSUME NEW s, Owed(s), UNCHANGED <<calls, queue>>,
           Given(s) \/ Done(s) => Pending(s) \/ Given(s)' \/ Done(s)',
           Shut(s) \in todo'["allow"] => Shut(s) \in todo["allow"],
           Threats(s)' \subseteq Threats(s), Threats(s)' \cap exposed' = {},
           Ready(s) /\ Threats(s)' # {} => Ready(s)'
    PROVE  Owed(s)'
<1>1. Pending(s)' <=> Pending(s)
    BY DEF Pending
<1> QED BY <1>1 DEF Owed

\* A job without its lock does not get it again.
LEMMA MarkedStep ==
    ASSUME Cron, Marked, [CwsNext]_cwsVars
    PROVE  Marked'
<1> USE DEF Marked, InJob, Free, Nobody, Loops, Sweeps
<1>0. LockTypes /\ Tasks /\ Held
    BY DEF Cron, Data
<1>1. CASE UNCHANGED <<exposed, lock, loops>>
    BY <1>1
<1>2. ASSUME NEW s \in Sites,
             AddSite(s) \/ RemoveSite(s) \/ RetryFailure(s) \/ Detect(s)
               \/ FileDrift(s) \/ FileDriftFails(s) \/ ClaimExpires(s)
      PROVE  Marked'
    BY <1>1, <1>2 DEF AddSite, RemoveSite, RetryFailure, Detect, FileDrift, FileDriftFails, ClaimExpires
<1>3. ASSUME NEW c, Push(c) \/ PushFails(c) \/ GroupChanges(c)
      PROVE  Marked'
    BY <1>1, <1>3 DEF Push, PushFails, GroupChanges
<1>4. ASSUME NEW l \in Loops, NEW w \in todo[l], Do(l, w) \/ DoFails(l, w) \/ Throttled(l, w)
      PROVE  Marked'
    <2>1. UNCHANGED <<exposed, lock, pc>> /\ todo' = [todo EXCEPT ![l] = @ \ {w}]
        BY <1>4 DEF Do, DoFails, Throttled
    <2>2. todo'["allow"] \subseteq todo["allow"]
        BY <1>0, <2>1 DEF Tasks
    <2> QED BY <2>1, <2>2
<1>5. ASSUME NEW l \in Loops, Start(l) \/ JobDies(l)
      PROVE  Marked'
    <2>1. todo'["allow"] \subseteq todo["allow"]
        BY <1>0, <1>5 DEF Start, JobDies, Tasks
    <2>2. CASE Start(l)
        <3>1. exposed' = exposed /\ lock' = l /\ pc[l] = "want" /\ pc' = [pc EXCEPT ![l] = "run"]
            BY <2>2 DEF Start, Acquires
        <3> QED BY <1>0, <2>1, <3>1 DEF LockTypes
    <2>3. CASE JobDies(l)
        <3>1. exposed' = exposed /\ lock' = lock /\ pc' = [pc EXCEPT ![l] = "died"]
            BY <2>3 DEF JobDies
        <3> QED BY <1>0, <2>1, <3>1 DEF LockTypes
    <2> QED BY <1>5, <2>2, <2>3
<1>6. ASSUME NEW l \in Sweeps, StartSweep(l)
      PROVE  Marked'
    <2>1. todo'["allow"] = todo["allow"]
        BY <1>0, <1>6 DEF StartSweep, Tasks
    <2> QED BY <1>0, <1>6, <2>1 DEF StartSweep, Acquires, LockTypes
<1>7. ASSUME NEW l \in Loops, ReleaseGet(l)
      PROVE  Marked'
    BY <1>0, <1>7 DEF ReleaseGet, Ended, After, Clean, StillOurs, LockTypes
<1>8. ASSUME NEW l \in Loops, ReleaseDelete(l)
      PROVE  Marked'
    BY <1>0, <1>8 DEF ReleaseDelete, After, Clean, Unlocked, Unlocking, LockTypes
<1>9. ASSUME NEW l \in Loops, ReleaseFails(l)
      PROVE  Marked'
    BY <1>0, <1>9 DEF ReleaseFails, Ended, After, Clean, LockTypes
<1>10. ASSUME NEW l \in Loops, LockExpires(l)
       PROVE  Marked'
    BY <1>0, <1>10 DEF LockExpires, Unlocked, Unlocking, LockTypes
<1>11. CASE Pop \/ Requeue
    <2>1. /\ UNCHANGED <<exposed, lock>> /\ pc["allow"] \in {"idle", "want"}
          /\ \E p \in {"idle", "want"} : pc' = [pc EXCEPT !["allow"] = p]
        BY <1>11 DEF Pop, Requeue
    <2>2. \A v, w \in todo'["allow"] : v = w
        BY <1>0, <1>11 DEF Pop, Requeue, Tasks
    <2> QED BY <1>0, <2>1, <2>2 DEF LockTypes
<1>12. CASE Fetch
    <2>1. /\ UNCHANGED <<exposed, lock>> /\ pc["sync"] = "idle"
          /\ \E p \in {"idle", "want"} : pc' = [pc EXCEPT !["sync"] = p]
          /\ todo'["allow"] = todo["allow"]
        BY <1>0, <1>12 DEF Fetch, Tasks
    <2> QED BY <1>0, <2>1 DEF LockTypes
<1>13. CASE Defer \/ SaveSnapshot
    <2>1. /\ UNCHANGED <<exposed, lock>> /\ pc["sync"] \in {"want", "save"}
          /\ pc' = [pc EXCEPT !["sync"] = "idle"] /\ todo'["allow"] = todo["allow"]
        BY <1>0, <1>13 DEF Defer, SaveSnapshot, Tasks
    <2> QED BY <1>0, <2>1 DEF LockTypes
<1>14. CASE AnswerLost \/ KeyExpires
    BY <1>0, <1>14 DEF AnswerLost, KeyExpires, LockTypes
<1>15. CASE Crash
    BY <1>15 DEF Crash, Restart
<1>16. CASE UNCHANGED cwsVars
    BY <1>1, <1>16 DEF cwsVars
<1>17. StartDrift \/ StartBulk \/ StartVerification => \E l \in Sweeps : StartSweep(l)
    BY DEF StartDrift, StartBulk, StartVerification
<1>18. ASSUME NEW l \in Loops, Step(l)
       PROVE  Marked'
    BY <1>4, <1>5, <1>7, <1>8, <1>9, <1>10, <1>18 DEF Step
<1> HIDE DEF Marked
<1> QED BY <1>2, <1>3, <1>6, <1>11, <1>12, <1>13, <1>14, <1>15, <1>16, <1>17, <1>18 DEF CwsNext

\* What the dashboard and the detector do to the list leaves every opening that is owed
\* behind the closings of its site.
LEMMA OutsideOwed ==
    ASSUME Cron, OpenInv, NEW s \in (allowed \ (overtaken \cup lost))',
           \/ \E r \in Sites : \/ AddSite(r) \/ RemoveSite(r) \/ RetryFailure(r) \/ Detect(r)
                               \/ FileDrift(r) \/ FileDriftFails(r) \/ ClaimExpires(r)
           \/ \E c \in calls : Push(c) \/ PushFails(c)
           \/ \E u \in Personal : GroupChanges(u)
    PROVE  Owed(s)'
<1>0. queue \in Seq(Targets \X Sites) /\ calls \subseteq Work
    BY DEF Cron, Data, Sets
<1>1. s \in allowed \ (overtaken \cup lost) => Owed(s)
    BY DEF OpenInv
<1>2. ASSUME NEW r \in Sites, AddSite(r), s = r
      PROVE  Owed(s)'
    <2>1. /\ s \notin Closing(exposed) /\ Shut(s) \notin calls /\ <<"look", s>> \notin calls
          /\ calls' = calls \cup {Opening(s)} /\ UNCHANGED <<loops, exposed>>
        BY <1>2 DEF AddSite, Shut, Opening
    <2>2. Opening(s) \in calls' /\ Shut(s) \notin calls' /\ <<"look", s>> \notin calls'
        BY <2>1 DEF Opening, Shut
    <2>3. Pending(s)'
        BY <2>2 DEF Pending, Opening
    <2>4. Threats(s) \cap exposed = {}
        BY <1>2, <2>1 DEF Closing, Threats, Shut
    <2>5. Threats(s)' \cap exposed' = {}
        BY <2>1, <2>4 DEF Threats
    <2> QED BY <2>2, <2>3, <2>5 DEF Owed, Opening
<1>3. ASSUME NEW r \in Sites, AddSite(r) \/ RemoveSite(r) \/ Detect(r) \/ FileDriftFails(r), s # r
      PROVE  Owed(s)'
    <2>1. Owed(s)
        BY <1>1, <1>3 DEF AddSite, RemoveSite, Detect, FileDriftFails
    <2>2. /\ UNCHANGED <<queue, loops, exposed, open, dead>>
          /\ \A t : <<t, s>> \in calls' <=> <<t, s>> \in calls
        BY <1>3 DEF AddSite, RemoveSite, Detect, FileDriftFails
    <2> QED BY <2>1, <2>2, Listing DEF Owed, Shut, Opening, Pending
<1>4. ASSUME NEW r \in Sites, RemoveSite(r) \/ Detect(r) \/ FileDriftFails(r), s = r
      PROVE  FALSE
    BY <1>1, <1>4 DEF RemoveSite, Detect, FileDriftFails, Owed
<1>5. ASSUME NEW c \in Targets \X Sites, UNCHANGED <<loops, exposed, open, dead>>, Owed(s),
             queue' = Append(queue, c), c # Shut(s),
             Shut(s) \notin calls', <<"look", s>> \notin calls',
             Opening(s) \in calls => Opening(s) \in calls' \/ c = Opening(s)
      PROVE  Owed(s)'
    <2>1. /\ c = Opening(s) => Answered(queue', s)
          /\ Answered(queue, s) => Answered(queue', s)
          /\ \A w : In(queue, w) \/ c = w => In(queue', w)
        BY <1>0, <1>5, PushAnswered
    <2>2. Opening(s) \in calls' \/ Answered(queue', s)
        BY <1>5, <2>1 DEF Owed
    <2>3. Pending(s) => Opening(s) \in calls' \/ In(queue', Opening(s))
        BY <1>5, <2>1 DEF Pending
    <2>4. Pending(s) => Pending(s)'
        BY <2>3 DEF Pending, Opening
    <2> QED BY <1>5, <2>2, <2>4, Listing
<1>6. ASSUME NEW c \in calls, Push(c)
      PROVE  Owed(s)'
    <2>1. /\ Owed(s) /\ calls' = calls \ {c} /\ queue' = Append(queue, c) /\ UNCHANGED <<loops, exposed, open, dead>>
          /\ c \in Targets \X Sites
        BY <1>0, <1>1, <1>6 DEF Push, Work
    <2>2. c # Shut(s)
        BY <2>1 DEF Owed
    <2> QED BY <1>5, <2>1, <2>2 DEF Owed
<1>7. ASSUME NEW c \in calls, PushFails(c)
      PROVE  Owed(s)'
    <2>1. Owed(s) /\ s # c[2] /\ calls' = calls \ {c} /\ UNCHANGED <<queue, loops, exposed, open, dead>>
        BY <1>1, <1>7 DEF PushFails
    <2>2. c # Opening(s)
        BY <2>1 DEF Opening
    <2> QED BY <2>1, <2>2, Listing DEF Owed, Pending, Opening
<1>8. ASSUME NEW r \in Sites, RetryFailure(r)
      PROVE  Owed(s)'
    <2>1. /\ Owed(s) /\ s # r /\ queue' = Append(queue, Shut(r)) /\ UNCHANGED <<calls, loops, exposed, open, dead>>
        BY <1>1, <1>8 DEF RetryFailure, Shut
    <2>2. Shut(r) \in Targets \X Sites /\ Shut(r) # Shut(s)
        BY <2>1 DEF Shut, Targets
    <2> QED BY <1>5, <2>1, <2>2 DEF Owed
<1>9. ASSUME NEW r \in Sites, FileDrift(r)
      PROVE  Owed(s)'
    <2>1. /\ Owed(s) /\ <<"look", r>> \in calls /\ calls' = calls \ {<<"look", r>>}
          /\ (queue' = queue \/ queue' = Append(queue, Shut(r))) /\ UNCHANGED <<loops, exposed, open, dead>>
        BY <1>1, <1>9 DEF FileDrift, ClaimAndPush, Shut
    <2>2. s # r
        BY <2>1 DEF Owed
    <2>3. Shut(r) \in Targets \X Sites /\ Shut(r) # Shut(s)
        BY <2>2 DEF Shut, Targets
    <2>4. Shut(s) \notin calls' /\ <<"look", s>> \notin calls' /\ (Opening(s) \in calls' <=> Opening(s) \in calls)
        BY <2>1 DEF Owed, Shut, Opening
    <2>5. CASE queue' = queue
        BY <2>1, <2>4, <2>5, Listing DEF Owed, Pending, Opening
    <2>6. CASE queue' = Append(queue, Shut(r))
        BY <1>5, <2>1, <2>3, <2>4, <2>6
    <2> QED BY <2>1, <2>5, <2>6
<1>10. ASSUME NEW r, ClaimExpires(r) \/ GroupChanges(r)
       PROVE  Owed(s)'
    <2>1. Owed(s) /\ UNCHANGED <<calls, queue, loops, exposed, open, dead>>
        BY <1>1, <1>10 DEF ClaimExpires, GroupChanges
    <2> QED BY <2>1, Listing DEF Owed, Pending
<1> QED BY <1>2, <1>3, <1>4, <1>6, <1>7, <1>8, <1>9, <1>10

\* One step of a job, of the loop that runs it or of its lock
LEMMA JobOwed ==
    ASSUME Cron, Marked, NEW s, Owed(s), s \in allowed, NEW l \in Loops, Step(l),
           s \notin overtaken', s \notin lost'
    PROVE  Owed(s)'
<1> USE DEF Loops, Sweeps
<1>0. LockTypes /\ Tasks /\ Held
    BY DEF Cron, Data
<1>1. ASSUME UNCHANGED <<calls, queue>>,
             Given(s) \/ Done(s) => Pending(s) \/ Given(s)' \/ Done(s)',
             Shut(s) \in todo'["allow"] => Shut(s) \in todo["allow"],
             Threats(s)' \subseteq Threats(s), Threats(s)' \cap exposed' = {},
             Ready(s) /\ Threats(s)' # {} => Ready(s)'
      PROVE  Owed(s)'
    BY <1>1, Looping
<1>2. ASSUME NEW w \in todo[l], Do(l, w)
      PROVE  Owed(s)'
    <2>1. /\ UNCHANGED <<calls, queue, exposed, pc, dead>> /\ pc[l] = "run"
          /\ todo' = [todo EXCEPT ![l] = @ \ {w}]
        BY <1>2 DEF Do
    <2>2. /\ w = Opening(s) => s \in open'
          /\ w # Shut(s) /\ s \in open => s \in open'
        <3>1. w[1] \in {"open", "close", "look"} /\ w = <<w[1], w[2]>>
            BY <1>0 DEF Tasks, Work
        <3> QED BY <1>2, <3>1 DEF Do, Opening, Shut
    <2>3. Threats(s)' \subseteq Threats(s) /\ todo'["allow"] \subseteq todo["allow"]
        BY <1>0, <2>1 DEF Threats, Tasks
    <2>4. Given(s) => Given(s)' \/ Done(s)'
        BY <1>0, <2>1, <2>2 DEF Given, Done, Tasks
    <2>5. Threats(s)' \cap exposed' = {}
        BY <2>1, <2>3 DEF Owed
    <2>6. Ready(s) => l # "allow" /\ todo'["allow"] = todo["allow"] /\ pc'["allow"] = "want"
        BY <1>0, <2>1 DEF Ready, Tasks
    <2>7. Ready(s) => Ready(s)'
        BY <2>6 DEF Ready, Given
    <2>8. CASE w = Shut(s)
        <3>1. Threats(s) # {}
            BY <2>1, <2>8 DEF Threats
        <3>2. Pending(s) \/ (Given(s)' /\ Ready(s))
            BY <2>7, <3>1 DEF Owed, Ready
        <3> QED BY <1>1, <2>1, <2>3, <2>5, <2>7, <3>2
    <2>9. CASE w # Shut(s)
        <3>1. Done(s) => Done(s)'
            BY <2>1, <2>2, <2>9 DEF Done
        <3> QED BY <1>1, <2>1, <2>3, <2>4, <2>5, <2>7, <3>1
    <2> QED BY <2>8, <2>9
<1>3. ASSUME NEW w \in todo[l], DoFails(l, w) \/ Throttled(l, w)
      PROVE  Owed(s)'
    <2>1. /\ UNCHANGED <<calls, queue, exposed, pc, open>> /\ pc[l] = "run"
          /\ todo' = [todo EXCEPT ![l] = @ \ {w}] /\ dead \subseteq dead'
        BY <1>3 DEF DoFails, Throttled, DeadLetter
    <2>2. l = "allow" /\ w = Opening(s) => w \in dead'
        <3>1. w = Opening(s) => w[2] = s
            BY DEF Opening
        <3> QED BY <1>3, <3>1 DEF DoFails, Throttled, DeadLetter
    <2>3. Threats(s)' \subseteq Threats(s) /\ todo'["allow"] \subseteq todo["allow"]
        BY <1>0, <2>1 DEF Threats, Tasks
    <2>4. Given(s) => Given(s)' \/ Done(s)'
        BY <1>0, <2>1, <2>2 DEF Given, Done, Tasks
    <2>5. Threats(s)' \cap exposed' = {}
        BY <2>1, <2>3 DEF Owed
    <2>6. Ready(s) => l # "allow" /\ todo'["allow"] = todo["allow"] /\ pc'["allow"] = "want"
        BY <1>0, <2>1 DEF Ready, Tasks
    <2>7. Ready(s) => Ready(s)'
        BY <2>6 DEF Ready, Given
    <2>8. Done(s) => Done(s)'
        BY <2>1 DEF Done
    <2> QED BY <1>1, <2>1, <2>3, <2>4, <2>5, <2>7, <2>8
<1>4. CASE Start(l)
    <2>1. /\ UNCHANGED <<calls, queue, exposed, open, dead>> /\ pc[l] = "want" /\ lock = Free
          /\ pc' = [pc EXCEPT ![l] = "run"] /\ todo' = [todo EXCEPT ![l] = @ \ Skipping(l)]
        BY <1>4 DEF Start, Acquires
    <2>2. Threats(s) = {}
        BY <1>0, <2>1 DEF Threats, Owed, Held, InJob, Free
    <2>3. todo'["allow"] = todo["allow"]
        BY <1>0, <2>1 DEF Skipping, Tasks
    <2>4. (Given(s)' <=> Given(s)) /\ (Done(s)' <=> Done(s)) /\ (Pending(s)' <=> Pending(s))
        BY <2>1, <2>3 DEF Given, Done, Pending
    <2>5. Threats(s)' \subseteq {l} \ exposed'
        <3>1. l \notin exposed
            BY <2>1 DEF Marked, InJob
        <3>2. \A k \in Loops \ {l} : k \notin Threats(s)'
            BY <1>0, <2>1, <2>2 DEF Threats, Tasks, LockTypes
        <3> QED BY <2>1, <3>1, <3>2 DEF Threats
    <2>6. Threats(s)' # {} => Shut(s) \in todo["allow"]
        <3>1. SUFFICES ASSUME l \in Threats(s)' PROVE l = "allow" /\ Shut(s) \in todo["allow"]
            BY <2>5
        <3>2. Shut(s) \in todo[l] \ Skipping(l)
            BY <1>0, <2>1, <3>1 DEF Threats, Tasks
        <3>3. l # "sync"
            BY <3>2 DEF Skipping, Shut
        <3>4. l = "allow"
            BY <2>1, <3>3 DEF Marked
        <3> QED BY <3>2, <3>4
    <2>7. Threats(s)' # {} => Pending(s)'
        BY <2>4, <2>6 DEF Owed
    <2>8. Shut(s) \in todo'["allow"] => Pending(s)'
        BY <2>3, <2>4 DEF Owed
    <2> QED BY <2>1, <2>4, <2>5, <2>7, <2>8 DEF Owed
<1>5. CASE JobDies(l)
    <2>1. /\ UNCHANGED <<calls, queue, exposed, open>> /\ pc[l] = "run" /\ todo[l] # {}
          /\ pc' = [pc EXCEPT ![l] = "died"] /\ todo' = [todo EXCEPT ![l] = {}]
          /\ dead' = UNION {DeadLetter(l, w) : w \in todo[l]}
        BY <1>5 DEF JobDies
    <2>2. dead \subseteq dead' /\ (l = "allow" => todo["allow"] \subseteq dead')
        BY <2>1 DEF DeadLetter
    <2>3. Threats(s)' \subseteq Threats(s) /\ todo'["allow"] \subseteq todo["allow"]
        BY <1>0, <2>1 DEF Threats, Tasks, LockTypes
    <2>4. Given(s) => Given(s)' \/ Done(s)'
        BY <1>0, <2>1, <2>2 DEF Given, Done, Tasks
    <2>5. Threats(s)' \cap exposed' = {}
        BY <2>1, <2>3 DEF Owed
    <2>6. Ready(s) => l # "allow" /\ todo'["allow"] = todo["allow"] /\ pc'["allow"] = "want"
        BY <1>0, <2>1 DEF Ready, Tasks, LockTypes
    <2>7. Ready(s) => Ready(s)'
        BY <2>6 DEF Ready, Given
    <2>8. Done(s) => Done(s)'
        BY <2>1, <2>2 DEF Done
    <2> QED BY <1>1, <2>1, <2>3, <2>4, <2>5, <2>7, <2>8
<1>6. CASE ReleaseGet(l) \/ ReleaseDelete(l) \/ ReleaseFails(l)
    <2>1. /\ UNCHANGED <<calls, queue, open, dead, todo>> /\ todo[l] = {} /\ pc[l] # "want"
          /\ \E p : pc' = [pc EXCEPT ![l] = p]
        BY <1>0, <1>6 DEF ReleaseGet, ReleaseDelete, ReleaseFails, Ended, Tasks
    <2>2. Threats(s)' \subseteq Threats(s)
        BY <1>0, <2>1 DEF Threats, LockTypes
    <2>3. (Given(s)' <=> Given(s)) /\ (Done(s)' <=> Done(s)) /\ (Ready(s) => Ready(s)')
        BY <1>0, <2>1 DEF Given, Done, Ready, LockTypes
    <2>4. Threats(s) \cap exposed' = {}
        <3>1. CASE exposed' \subseteq exposed
            BY <3>1 DEF Owed
        <3>2. CASE ReleaseDelete(l)
            <4>1. PICK ls : exposed' = exposed \cup (ls \ Unlocking) /\ overtaken' = overtaken \cup Closing(ls)
                BY <3>2 DEF ReleaseDelete, Unlocked
            <4>2. Threats(s) \cap ls = {}
                <5>1. s \notin Closing(ls) /\ \A k \in Loops : todo[k] \subseteq Work
                    BY <1>0, <4>1 DEF Tasks
                <5>2. \A k \in Threats(s) : k \in Loops /\ <<"close", s>> \in todo[k] /\ s \in Sites
                    BY <5>1 DEF Threats, Shut, Work
                <5> QED BY <5>1, <5>2 DEF Closing
            <4> QED BY <4>1, <4>2 DEF Owed
        <3> QED BY <1>6, <3>1, <3>2 DEF ReleaseGet, ReleaseFails
    <2> QED BY <1>1, <2>1, <2>2, <2>3, <2>4
<1>7. CASE LockExpires(l)
    <2>1. UNCHANGED <<calls, queue, open, dead, todo, pc>>
        BY <1>7 DEF LockExpires
    <2>2. exposed' \subseteq exposed \cup {l} /\ s \notin Closing({l})
        BY <1>7 DEF LockExpires, Unlocked
    <2>3. l \notin Threats(s)
        <3>1. todo[l] \subseteq Work
            BY <1>0 DEF Tasks
        <3>2. l \in Threats(s) => <<"close", s>> \in todo[l] /\ s \in Sites
            BY <3>1 DEF Threats, Shut, Work
        <3> QED BY <2>2, <3>2 DEF Closing
    <2>4. Threats(s)' = Threats(s) /\ (Given(s)' <=> Given(s)) /\ (Done(s)' <=> Done(s)) /\ (Ready(s)' <=> Ready(s))
        BY <2>1 DEF Threats, Given, Done, Ready
    <2>5. Threats(s)' \cap exposed' = {}
        BY <2>2, <2>3, <2>4 DEF Owed
    <2> QED BY <1>1, <2>1, <2>4, <2>5
<1> QED BY <1>2, <1>3, <1>4, <1>5, <1>6, <1>7 DEF Step

\* A sweep plans to close no allowed site.
LEMMA SweepOwed ==
    ASSUME Cron, NEW s, Owed(s), s \in allowed, NEW l \in Sweeps, StartSweep(l)
    PROVE  Owed(s)'
<1> USE DEF Loops, Sweeps
<1>1. /\ UNCHANGED <<calls, queue, open, dead, exposed>> /\ pc' = [pc EXCEPT ![l] = "run"]
      /\ todo' = [todo EXCEPT ![l] = Plan(l)]
    BY DEF StartSweep
<1>2. Shut(s) \notin Plan(l)
    BY DEF Plan, Shut, Exempt
<1>3. Threats(s)' \subseteq Threats(s)
    BY <1>1, <1>2 DEF Cron, Data, Tasks, LockTypes, Threats
<1>4. todo'["allow"] = todo["allow"] /\ pc'["allow"] = pc["allow"]
    BY <1>1 DEF Cron, Data, Tasks, LockTypes
<1>5. (Given(s)' <=> Given(s)) /\ (Ready(s)' <=> Ready(s)) /\ (Done(s)' <=> Done(s))
    BY <1>1, <1>4 DEF Given, Ready, Done
<1>6. Threats(s)' \cap exposed' = {}
    BY <1>1, <1>3 DEF Owed
<1> QED BY <1>1, <1>3, <1>4, <1>5, <1>6, Looping

\* The action loop takes the oldest action, or puts it back in front of the others.
LEMMA ListOwed ==
    ASSUME Cron, Marked, NEW s, Owed(s), Pop \/ Requeue
    PROVE  Owed(s)'
<1> USE DEF Loops, Sweeps
<1>0. LockTypes /\ Tasks /\ queue \in Seq(Targets \X Sites)
    BY DEF Cron, Data, Sets
<1>1. /\ UNCHANGED <<calls, open, dead, exposed>>
      /\ \A l \in Loops : l # "allow" => pc'[l] = pc[l] /\ todo'[l] = todo[l]
      /\ pc'["allow"] # "run"
    BY <1>0 DEF Pop, Requeue, LockTypes, Tasks
<1>2. Threats(s)' \subseteq Threats(s) /\ (Done(s)' <=> Done(s))
    BY <1>1 DEF Threats, Done
<1>3. Threats(s)' \cap exposed' = {}
    BY <1>1, <1>2 DEF Owed
<1>4. CASE Pop
    <2> DEFINE h == Head(queue)
    <2>1. /\ queue # <<>> /\ queue' = Tail(queue) /\ pc["allow"] = "idle" /\ pc'["allow"] = "want"
          /\ todo'["allow"] = {h}
        BY <1>0, <1>4 DEF Pop, LockTypes, Tasks
    <2>2. /\ Answered(queue, s) => Answered(queue', s)
          /\ In(queue, Opening(s)) => h = Opening(s) \/ In(queue', Opening(s))
          /\ Answered(queue, s) /\ h = Shut(s) => In(queue', Opening(s))
        BY <1>0, <2>1, PopAnswered
    <2> HIDE DEF h
    <2>3. ~Given(s) /\ ~Ready(s)
        BY <1>0, <2>1 DEF Given, Ready, Tasks
    <2>4. Pending(s)' <=> Opening(s) \in calls \/ In(queue', Opening(s))
        BY <1>1 DEF Pending, Opening
    <2>5. Pending(s) => Pending(s)' \/ h = Opening(s)
        BY <2>2, <2>4 DEF Pending
    <2>6. h = Opening(s) => Given(s)' /\ Ready(s)'
        BY <2>1 DEF Given, Ready, Opening
    <2>7. Shut(s) \in todo'["allow"] => Pending(s)'
        BY <2>1, <2>2, <2>4 DEF Owed
    <2>8. Opening(s) \in calls' \/ Answered(queue', s)
        BY <1>1, <2>2 DEF Owed
    <2> QED BY <1>1, <1>2, <1>3, <2>3, <2>5, <2>6, <2>7, <2>8 DEF Owed
<1>5. CASE Requeue
    <2>1. PICK w \in todo["allow"] : queue' = Reinsert(w)
        BY <1>5 DEF Requeue
    <2>2. w \in Targets \X Sites /\ queue' = <<w>> \o queue /\ todo'["allow"] = {}
        BY <1>0, <1>5, <2>1 DEF Requeue, Reinsert, Cron, Data, Aimed, Tasks
    <2>3. /\ Answered(queue, s) /\ (w = Shut(s) => In(queue, Opening(s))) => Answered(queue', s)
          /\ In(queue, Opening(s)) \/ w = Opening(s) => In(queue', Opening(s))
        BY <1>0, <2>2, ReinsertAnswered
    <2>4. Pending(s)' <=> Opening(s) \in calls \/ In(queue', Opening(s))
        BY <1>1 DEF Pending, Opening
    <2>5. Pending(s) \/ Given(s) => Pending(s)'
        BY <2>1, <2>3, <2>4 DEF Pending, Given, Marked
    <2>6. Opening(s) \in calls' \/ Answered(queue', s)
        BY <1>1, <2>1, <2>3 DEF Owed, Pending
    <2> QED BY <1>1, <1>2, <1>3, <2>2, <2>5, <2>6 DEF Owed, Ready
<1> QED BY <1>4, <1>5

\* The sync loop plans, and waits for the lock.
LEMMA SyncOwed ==
    ASSUME Cron, NEW s, Owed(s), Fetch \/ Defer \/ SaveSnapshot \/ AnswerLost \/ KeyExpires
    PROVE  Owed(s)'
<1> USE DEF Loops, Sweeps
<1>1. LockTypes /\ Tasks
    BY DEF Cron, Data
<1>2. /\ UNCHANGED <<calls, queue, open, dead, exposed>>
      /\ \A l \in Loops : l # "sync" => pc'[l] = pc[l] /\ todo'[l] = todo[l]
      /\ pc'["sync"] = "run" => pc["sync"] = "run" /\ todo'["sync"] = todo["sync"]
    BY <1>1 DEF Fetch, Defer, SaveSnapshot, AnswerLost, KeyExpires, LockTypes, Tasks
<1>3. Threats(s)' \subseteq Threats(s) /\ (Done(s)' <=> Done(s))
    BY <1>2 DEF Threats, Done
<1>4. (Given(s)' <=> Given(s)) /\ (Ready(s)' <=> Ready(s))
    BY <1>2 DEF Given, Ready
<1>5. Threats(s)' \cap exposed' = {}
    BY <1>2, <1>3 DEF Owed
<1> QED BY <1>2, <1>3, <1>4, <1>5, Looping

\* A restart forgets the jobs and what the action loop had in hand.
LEMMA RestartOwed ==
    ASSUME Marked, Restart, \A s \in allowed \ (overtaken \cup lost) : Owed(s)
    PROVE  OpenInv'
<1> USE DEF Loops, Sweeps
<1>1. Marked'
    BY DEF Marked, Restart, InJob
<1> SUFFICES ASSUME NEW s \in (allowed \ (overtaken \cup lost))'
             PROVE  Owed(s)'
    BY <1>1 DEF OpenInv
<1>2. /\ UNCHANGED <<calls, queue, open, dead>> /\ exposed' = {} /\ todo'["allow"] = {}
      /\ \A l \in Loops : pc'[l] = "idle"
      /\ Owed(s) /\ lost' = lost \cup {w[2] : w \in todo["allow"]}
    BY DEF Restart
<1>3. Threats(s)' = {}
    BY <1>2 DEF Threats
<1>4. ~Given(s)
    BY <1>2 DEF Given, Opening
<1>5. (Done(s)' <=> Done(s)) /\ ~Ready(s)
    BY <1>2, <1>4 DEF Done, Ready
<1> QED BY <1>2, <1>3, <1>4, <1>5, Looping

\* Every step of the cron keeps what allowed sites are owed.
LEMMA OpenStep ==
    ASSUME Cron, OpenInv, [CwsNext]_cwsVars
    PROVE  OpenInv'
<1>1. Marked'
    BY MarkedStep DEF OpenInv
<1> SUFFICES ASSUME NEW s \in (allowed \ (overtaken \cup lost))'
             PROVE  Owed(s)'
    BY <1>1 DEF OpenInv
<1>2. ASSUME allowed' = allowed, overtaken \subseteq overtaken', lost \subseteq lost'
      PROVE  Owed(s) /\ s \in allowed /\ s \notin overtaken' /\ s \notin lost'
    BY <1>2 DEF OpenInv
<1>3. ASSUME NEW l \in Loops, Step(l)
      PROVE  Owed(s)'
    <2>1. allowed' = allowed /\ overtaken \subseteq overtaken' /\ lost \subseteq lost'
        BY <1>3 DEF Step, Start, JobDies, Do, DoFails, Throttled, ReleaseGet, ReleaseDelete, ReleaseFails,
                    LockExpires, Unlocked
    <2> QED BY <1>2, <1>3, <2>1, JobOwed DEF OpenInv
<1>4. CASE StartDrift \/ StartBulk \/ StartVerification
    <2>1. PICK l \in Sweeps : StartSweep(l)
        BY <1>4 DEF StartDrift, StartBulk, StartVerification, Sweeps
    <2>2. allowed' = allowed /\ overtaken \subseteq overtaken' /\ lost \subseteq lost'
        BY <2>1 DEF StartSweep
    <2> QED BY <1>2, <2>1, <2>2, SweepOwed
<1>5. CASE Pop \/ Requeue
    <2>1. allowed' = allowed /\ overtaken \subseteq overtaken' /\ lost \subseteq lost'
        BY <1>5 DEF Pop, Requeue
    <2> QED BY <1>2, <1>5, <2>1, ListOwed DEF OpenInv
<1>6. CASE Fetch \/ Defer \/ SaveSnapshot \/ AnswerLost \/ KeyExpires
    <2>1. allowed' = allowed /\ overtaken \subseteq overtaken' /\ lost \subseteq lost'
        BY <1>6 DEF Fetch, Defer, SaveSnapshot, AnswerLost, KeyExpires
    <2> QED BY <1>2, <1>6, <2>1, SyncOwed
<1>7. CASE Crash
    BY <1>7, RestartOwed DEF Crash, OpenInv
<1>8. CASE UNCHANGED cwsVars
    <2>1. Owed(s) /\ UNCHANGED <<calls, queue, loops, exposed, open, dead>>
        BY <1>2, <1>8 DEF cwsVars
    <2> QED BY <2>1, Listing DEF Owed, Pending
<1> QED BY <1>3, <1>4, <1>5, <1>6, <1>7, <1>8, OutsideOwed DEF CwsNext

\* And so does every step of the watchdog.
LEMMA OpenWatchStep ==
    ASSUME WatchInv, OpenInv, [Next]_vars
    PROVE  OpenInv'
<1>1. Cron
    BY Parts
<1>2. CASE Other
    BY <1>1, <1>2, OpenStep DEF Other
<1>3. CASE UNCHANGED unmoved
    <2>1. Marked'
        BY <1>3 DEF OpenInv, Marked, InJob, unmoved
    <2>2. ASSUME NEW s \in (allowed \ (overtaken \cup lost))'
          PROVE  Owed(s)'
        <3>1. Owed(s) /\ UNCHANGED <<calls, queue, loops, exposed, open, dead>>
            BY <1>3, <2>2 DEF OpenInv, unmoved
        <3> QED BY <3>1, Listing DEF Owed, Pending
    <2> QED BY <2>1, <2>2 DEF OpenInv
<1>4. CASE Restart
    BY <1>4, RestartOwed DEF OpenInv
<1>5. CASE Healthy \/ DeadLoop \/ StaleLoop \/ StaleLoopUnread \/ StaleRestart \/ UNCHANGED vars
    BY <1>3, <1>4, <1>5 DEF Healthy, DeadLoop, StaleLoop, StaleLoopUnread, StaleRestart, vars, cwsVars, unmoved
<1> QED BY <1>2, <1>5 DEF Next

\* When nothing is under way, an allowed site has its links, whatever sweeps were running
\* and in whatever order its actions were put back, unless its closing had begun before
\* or its action was lost: the opening waits for the lock that a closing job holds.
THEOREM AllowedSafe == Spec => []AllowedStaysOpen
<1>1. Init => OpenInv
    BY DEF Init, CwsInit, OpenInv, Marked, Loops, Sweeps
<1>2. WatchInv /\ OpenInv => AllowedStaysOpen
    <2> SUFFICES ASSUME WatchInv, OpenInv, Quiet, NEW s \in allowed \ (overtaken \cup lost)
                 PROVE  s \in open \/ <<"open", s>> \in dead
        BY DEF AllowedStaysOpen
    <2>1. todo["allow"] = {}
        BY Parts DEF Quiet, Cron, Data, Tasks, Loops, Sweeps
    <2>2. ~Pending(s) /\ ~Given(s)
        BY <2>1 DEF Quiet, Pending, In, Given
    <2> QED BY <2>2 DEF OpenInv, Owed, Done, Opening
<1>3. WatchInv /\ OpenInv /\ [Next]_vars => OpenInv'
    BY OpenWatchStep
<1> QED BY <1>1, <1>2, <1>3, WatchInvariant, PTL DEF Spec

=============================================================================
