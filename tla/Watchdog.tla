------------------------------ MODULE Watchdog ------------------------------
(***************************************************************************)
(* The watchdog restarts the lifecycle cron, whose CWS jobs die with it.   *)
(* Every two minutes it looks at the heartbeats of the loops: a dead one   *)
(* has the container restarted at once, a stale one (alive, its calls      *)
(* failing) after several unhealthy checks, and not under a running job.   *)
(***************************************************************************)
EXTENDS CwsControl

CONSTANTS
    StaleChecks,   \* config.stale_checks_before_restart
    MaxRestarts    \* config.max_restarts_per_hour; the model runs for one hour

ASSUME WatchdogAssumption == StaleChecks \in Nat \ {0} /\ MaxRestarts \in Nat

VARIABLES
    strikes,    \* consecutive unhealthy checks, up to StaleChecks
    restarts,   \* the restart counter
    look,       \* what the check learnt of the lock: "none", "free" or "failed"
    begun       \* history: loops that started a job since the look

watch == <<strikes, restarts, look, begun>>
vars  == <<cwsVars, watch>>

\* Earlier restarts of the hour count.
Init == CwsInit /\ strikes = 0 /\ restarts \in 0 .. MaxRestarts /\ look = "none" /\ begun = {}

unmoved == <<open, policy, copies, record, inbox, dead, lock, loops, ghosts, changes, jobs>>

Running == {l \in Loops : pc[l] = "run"}

\* A step of the cron, the worker or the dashboard
Other ==
    /\ CwsNext
    /\ begun' = IF look = "none" THEN {} ELSE begun \cup (Running' \ Running)
    /\ UNCHANGED <<strikes, restarts, look>>

-----------------------------------------------------------------------------

Strike == strikes' = IF strikes < StaleChecks THEN strikes + 1 ELSE strikes

Healthy ==
    /\ look = "none" /\ strikes > 0
    /\ strikes' = 0
    /\ UNCHANGED <<cwsVars, restarts, look, begun>>

\* At the cap the check alerts and leaves the container alone.
MayRestart == restarts < MaxRestarts

DeadLoop ==
    /\ look = "none"
    /\ Strike /\ Mishap
    /\ IF MayRestart
         THEN Restart /\ restarts' = restarts + 1
         ELSE UNCHANGED <<unmoved, restarts>>
    /\ UNCHANGED <<look, begun>>


\* The check reads the lock; without an answer it takes it for free.
Persists == strikes' >= StaleChecks /\ MayRestart

\* Mutant: restarted without a look at the lock
StaleLoopBlind ==
    /\ look = "none"
    /\ Strike /\ Mishap
    /\ look' = IF Persists THEN "free" ELSE "none"
    /\ UNCHANGED <<unmoved, restarts, begun>>

StaleLoop ==
    /\ look = "none"
    /\ Strike /\ Mishap
    /\ look' = IF lock = Free /\ Persists THEN "free" ELSE "none"
    /\ UNCHANGED <<unmoved, restarts, begun>>

StaleLoopUnread ==
    /\ look = "none"
    /\ Strike /\ Mishap
    /\ look' = IF Persists THEN "failed" ELSE "none"
    /\ UNCHANGED <<unmoved, restarts, begun>>

\* The strikes are kept: a loop that stays stale is restarted at every check.
StaleRestart ==
    /\ look # "none"
    /\ Restart /\ restarts' = restarts + 1
    /\ look' = "none" /\ begun' = {}
    /\ UNCHANGED <<strikes, mishaps>>

Next == Other \/ Healthy \/ DeadLoop \/ StaleLoop \/ StaleLoopUnread \/ StaleRestart

Spec == Init /\ [][Next]_vars /\ CwsFairness /\ WF_vars(StaleRestart)

-----------------------------------------------------------------------------

\* "A container restart kills any in-flight CWS PowerShell job" (main.py:318): a
\* restart for a stale loop kills no job that was running under the lock when the
\* watchdog looked, provided the lock could be read.
StaleSparesJobs ==
    [][look = "free" /\ StaleRestart => Running \subseteq begun \cup exposed]_vars

=============================================================================
