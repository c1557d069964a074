----------------------------- MODULE CwsControl -----------------------------
(***************************************************************************)
(* Company-wide sharing (CWS) links: the sites on an allowlist and the     *)
(* OneDrives of an exception group may have them, the others are closed.   *)
(* The dashboard and the worker's detector put actions on a Redis list;    *)
(* five loops of the lifecycle cron run PowerShell jobs that read and set  *)
(* the sites, one job at a time under a Redis lock with an expiry.         *)
(* The jobs run live: a dry run only records what it would do.             *)
(***************************************************************************)
EXTENDS Naturals, Sequences, FiniteSets

CONSTANTS
    Sites,
    Personal,      \* the OneDrives among them, each named for its owner
    MaxChanges,    \* a bound on what administrators, owners and users do
    MaxJobs,       \* a bound on the drift, bulk and verification jobs
    MaxMishaps     \* a bound on crashes, failed calls, locks that expire in use and,
                   \* in Watchdog, on checks that find a loop unhealthy

ASSUME CwsAssumption ==
    /\ IsFiniteSet(Sites) /\ Personal \subseteq Sites
    /\ {MaxChanges, MaxJobs, MaxMishaps} \subseteq Nat

Sweeps == {"drift", "bulk", "verify"}
Loops  == Sweeps \cup {"allow", "sync"}
Free   == "free"
Nobody == "nobody"   \* the lock of a run that is over, or that never knew it got it

Targets == {"open", "close"}
Work    == {"open", "close", "look"} \X Sites

VARIABLES
    open,       \* sites whose DisableCompanyWideSharingLinks is NotDisabled
    allowed,    \* site_company_wide_sharing_allowlist
    members,    \* the exception group in the directory
    cache,      \* its copy in Redis, which the worker reads
    snapshot,   \* its copy in cws_exception_group_snapshot
    seen,       \* the members the sync loop fetched on this tick
    drift,      \* sites with a drift row that no later event resolves
    failing,    \* cws_current_failures: sites whose latest event is a failure
    claims,     \* the detector's dedup keys
    calls,      \* steps of the dashboard and the detector under way
    queue,      \* company_wide_sharing_action
    dead,       \* its dead-letter list, as a set
    lock,       \* the CWS lock: Free, Nobody, or the loop that holds it
    pc,         \* where each loop is
    todo,       \* what its job has left to do, a set of Work
    exposed,    \* history: running jobs whose lock expired
    late,       \* history: loops whose lock expired between GET and DELETE
    overtaken,  \* history: allowed sites whose closing was under way already
    lost,       \* history: sites an action for which a mishap lost
    missed,     \* history: OneDrives the delta job failed to close
    changes, jobs, mishaps

policy == <<allowed, members>>
copies == <<cache, snapshot, seen>>
record == <<drift, failing>>
inbox  == <<claims, calls, queue>>
loops  == <<pc, todo>>
ghosts == <<exposed, late, overtaken, lost, missed>>
bounds == <<changes, jobs, mishaps>>
cwsVars == <<open, policy, copies, record, inbox, dead, lock, loops, ghosts, bounds>>

-----------------------------------------------------------------------------

CwsInit ==
    /\ open = Sites /\ allowed = {} /\ members = {}
    /\ cache = {} /\ snapshot = {} /\ seen = {}
    /\ drift = {} /\ failing = {}
    /\ claims = {} /\ calls = {} /\ queue = <<>> /\ dead = {}
    /\ lock = Free
    /\ pc = [l \in Loops |-> "idle"] /\ todo = [l \in Loops |-> {}]
    /\ exposed = {} /\ late = {} /\ overtaken = {} /\ lost = {} /\ missed = {}
    /\ changes = 0 /\ jobs = 0 /\ mishaps = 0

Change == changes < MaxChanges /\ changes' = changes + 1
Mishap == mishaps < MaxMishaps /\ mishaps' = mishaps + 1

\* Sites that some loops are still going to close
Closing(ls) == {s \in Sites : \E l \in ls : <<"close", s>> \in todo[l]}

-----------------------------------------------------------------------------
(* The dashboard, the directory and the worker's detector *)

\* The row is written first, the action is pushed after it.
AddSite(s) ==
    /\ Change
    /\ <<"open", s>> \notin calls
    /\ allowed' = allowed \cup {s}
    /\ calls' = calls \cup {<<"open", s>>}
    /\ overtaken' = IF s \in Closing(exposed) \/ {<<"close", s>>, <<"look", s>>} \cap calls # {}
                      THEN overtaken \cup {s} ELSE overtaken \ {s}
    /\ lost' = lost \ {s}
    /\ UNCHANGED <<open, members, copies, record, claims, queue, dead, lock, loops,
                   exposed, late, missed, jobs, mishaps>>

RemoveSite(s) ==
    /\ Change
    /\ s \in allowed /\ <<"close", s>> \notin calls
    /\ allowed' = allowed \ {s}
    /\ calls' = calls \cup {<<"close", s>>}
    /\ UNCHANGED <<open, members, copies, record, claims, queue, dead, lock, loops,
                   ghosts, jobs, mishaps>>

Push(c) ==
    /\ c \in calls /\ c[1] \in Targets
    /\ calls' = calls \ {c}
    /\ queue' = Append(queue, c)
    /\ UNCHANGED <<open, policy, copies, record, claims, dead, lock, loops, ghosts, bounds>>

\* The failure is logged, and the request answers as if it had succeeded.
PushFails(c) ==
    /\ Mishap
    /\ c \in calls /\ c[1] \in Targets
    /\ calls' = calls \ {c}
    /\ lost' = lost \cup {c[2]}
    /\ UNCHANGED <<open, policy, copies, record, claims, queue, dead, lock, loops,
                   exposed, late, overtaken, missed, changes, jobs>>

\* "Remediate" on a failure closes the site, whatever the failure was about.
RetryFailure(s) ==
    /\ Change
    /\ s \in failing
    /\ queue' = Append(queue, <<"close", s>>)
    /\ overtaken' = overtaken \cup {s}
    /\ UNCHANGED <<open, policy, copies, record, claims, calls, dead, lock, loops,
                   exposed, late, lost, missed, jobs, mishaps>>

GroupChanges(u) ==
    /\ Change
    /\ members' = IF u \in members THEN members \ {u} ELSE members \cup {u}
    /\ UNCHANGED <<open, allowed, copies, record, inbox, dead, lock, loops, ghosts,
                   jobs, mishaps>>

\* The worker meets a company-wide link and finds the site on neither list.
Detect(s) ==
    /\ Change
    /\ s \notin allowed /\ s \notin cache
    /\ <<"look", s>> \notin calls
    /\ calls' = calls \cup {<<"look", s>>}
    /\ UNCHANGED <<open, policy, copies, record, claims, queue, dead, lock, loops, ghosts,
                   jobs, mishaps>>

\* The drift row, then the claim of the dedup key, then the push
ClaimAndPush(s) ==
    /\ claims' = claims \cup {s}
    /\ queue' = IF s \in claims THEN queue ELSE Append(queue, <<"close", s>>)

FileDrift(s) ==
    /\ <<"look", s>> \in calls
    /\ calls' = calls \ {<<"look", s>>}
    /\ drift' = drift \cup {s}
    /\ ClaimAndPush(s)
    /\ UNCHANGED <<open, policy, copies, failing, dead, lock, loops, ghosts, bounds>>

\* The claim outlives a failed push: the site waits for the daily drain.
FileDriftFails(s) ==
    /\ Mishap
    /\ <<"look", s>> \in calls
    /\ calls' = calls \ {<<"look", s>>}
    /\ drift' = drift \cup {s} /\ claims' = claims \cup {s}
    /\ UNCHANGED <<open, policy, copies, failing, queue, dead, lock, loops, ghosts,
                   changes, jobs>>

ClaimExpires(s) ==
    /\ s \in claims
    /\ claims' = claims \ {s}
    /\ UNCHANGED <<open, policy, copies, record, calls, queue, dead, lock, loops, ghosts,
                   bounds>>

-----------------------------------------------------------------------------
(* The lock and the life of a job *)

Exempt == allowed \cup members

\* What a sweep loads when it starts
Plan(l) ==
    CASE l = "drift"  -> {<<"close", s>> : s \in drift \ Exempt}
      [] l = "bulk"   -> {<<"close", s>> : s \in Sites \ Exempt}
      [] l = "verify" -> {<<"look", s>> : s \in Sites \ Exempt}

\* SET with NX and EX
Acquires(l) == lock = Free /\ lock' = l

StartSweep(l) ==
    /\ jobs < MaxJobs /\ jobs' = jobs + 1
    /\ pc[l] = "idle"
    /\ Acquires(l)
    /\ pc' = [pc EXCEPT ![l] = "run"]
    /\ todo' = [todo EXCEPT ![l] = Plan(l)]
    /\ UNCHANGED <<open, policy, copies, record, inbox, dead, ghosts, changes, mishaps>>

\* A trigger or the interval makes a sweep due. While the lock is held it stays due,
\* but for a manual verification, which only looks: it is dropped.
StartDrift        == StartSweep("drift")
StartBulk         == StartSweep("bulk")
StartVerification == StartSweep("verify")

\* LPOP of the allowlist action loop
Pop ==
    /\ pc["allow"] = "idle" /\ queue # <<>>
    /\ pc' = [pc EXCEPT !["allow"] = "want"]
    /\ todo' = [todo EXCEPT !["allow"] = {Head(queue)}]
    /\ queue' = Tail(queue)
    /\ UNCHANGED <<open, policy, copies, record, claims, calls, dead, lock, ghosts, bounds>>

\* One tick of the sync loop: the members, the worker's copy, the difference
\* with the snapshot; without a difference, a reconcile of all members is due.
Delta == {<<"open", u>> : u \in members \ snapshot} \cup {<<"close", u>> : u \in snapshot \ members}
\* Mutant: only the difference is acted on
NoReconcile == {}
Reconcile == IF Delta = {} THEN {<<"open", u>> : u \in members} ELSE {}

Fetch ==
    /\ pc["sync"] = "idle"
    /\ seen' = members /\ cache' = members
    /\ todo' = [todo EXCEPT !["sync"] = Delta \cup Reconcile]
    /\ pc' = [pc EXCEPT !["sync"] = IF Delta \cup Reconcile = {} THEN "idle" ELSE "want"]
    /\ UNCHANGED <<open, policy, snapshot, record, inbox, dead, lock, ghosts, bounds>>

\* The OneDrives on the site allowlist are left alone.
Skipping(l) == IF l = "sync" THEN {w \in todo[l] : w[2] \in allowed} ELSE {}

Start(l) ==
    /\ pc[l] = "want"
    /\ Acquires(l)
    /\ pc' = [pc EXCEPT ![l] = "run"]
    /\ todo' = [todo EXCEPT ![l] = @ \ Skipping(l)]
    /\ UNCHANGED <<open, policy, copies, record, inbox, dead, ghosts, bounds>>

\* Mutant: RPUSH for LPUSH
AtTheTail(w) == Append(queue, w)

\* Back to the head of the list, so that actions keep their order
Reinsert(w) == <<w>> \o queue

Requeue ==
    /\ pc["allow"] = "want" /\ lock # Free
    /\ \E w \in todo["allow"] : queue' = Reinsert(w)
    /\ pc' = [pc EXCEPT !["allow"] = "idle"] /\ todo' = [todo EXCEPT !["allow"] = {}]
    /\ UNCHANGED <<open, policy, copies, record, claims, calls, dead, lock, ghosts, bounds>>

Defer ==
    /\ pc["sync"] = "want" /\ lock # Free
    /\ pc' = [pc EXCEPT !["sync"] = "idle"] /\ todo' = [todo EXCEPT !["sync"] = {}]
    /\ UNCHANGED <<open, policy, copies, record, inbox, dead, lock, ghosts, bounds>>

\* SET is carried out and its answer is lost: the loop takes the lock for held.
AnswerLost ==
    /\ Mishap
    /\ lock = Free /\ lock' = Nobody
    /\ UNCHANGED <<open, policy, copies, record, inbox, dead, loops, ghosts, changes, jobs>>

\* One site of a job: what it finds, what it sets and the event it records
Resolves(w) == w[1] = "close" \/ (w[1] = "open" /\ w[2] \in open)

Do(l, w) ==
    /\ pc[l] = "run" /\ w \in todo[l]
    /\ todo' = [todo EXCEPT ![l] = @ \ {w}]
    /\ open' = CASE w[1] = "open" -> open \cup {w[2]}
                 [] w[1] = "close" -> open \ {w[2]}
                 [] OTHER -> open
    /\ drift' = CASE w[1] = "look" -> drift \cup ({w[2]} \cap open)
                  [] Resolves(w) -> drift \ {w[2]}
                  [] OTHER -> drift
    /\ failing' = IF w[1] = "look" THEN failing ELSE failing \ {w[2]}
    /\ UNCHANGED <<policy, copies, inbox, dead, lock, pc, ghosts, bounds>>

\* The action loop dead-letters what its script could not do.
DeadLetter(l, w) == IF l = "allow" THEN dead \cup {w} ELSE dead

\* The site cannot be read or set: an event, and the job goes on.
DoFails(l, w) ==
    /\ Mishap
    /\ pc[l] = "run" /\ w \in todo[l] /\ w[1] \in Targets
    /\ todo' = [todo EXCEPT ![l] = @ \ {w}]
    /\ failing' = failing \cup {w[2]}
    /\ dead' = DeadLetter(l, w)
    /\ missed' = IF l = "sync" /\ w[1] = "close" THEN missed \cup {w[2]} ELSE missed
    /\ UNCHANGED <<open, policy, copies, drift, inbox, lock, pc, exposed, late, overtaken, lost,
                   changes, jobs>>

\* Three throttled attempts leave no error behind: the event says it was done.
Throttled(l, w) ==
    /\ Mishap
    /\ l \in {"allow", "bulk"}
    /\ pc[l] = "run" /\ w \in todo[l]
    /\ todo' = [todo EXCEPT ![l] = @ \ {w}]
    /\ drift' = IF w[1] = "close" THEN drift \ {w[2]} ELSE drift
    /\ failing' = failing \ {w[2]}
    /\ lost' = lost \cup {w[2]}
    /\ UNCHANGED <<open, policy, copies, inbox, dead, lock, pc, exposed, late, overtaken, missed,
                   changes, jobs>>

\* The process exits with an error, or cannot be started: the rest is not done.
JobDies(l) ==
    /\ Mishap
    /\ pc[l] = "run" /\ todo[l] # {}
    /\ pc' = [pc EXCEPT ![l] = "died"]
    /\ dead' = UNION {DeadLetter(l, w) : w \in todo[l]}
    /\ todo' = [todo EXCEPT ![l] = {}]
    /\ UNCHANGED <<open, policy, copies, record, inbox, lock, ghosts, changes, jobs>>

\* What the history notes when the lock of these loops is gone before its time
Unlocking == {l \in Loops : pc[l] \in {"unlock", "unlockDied"}}
Unlocked(ls, done) ==
    /\ exposed' = exposed \cup (ls \ Unlocking)
    /\ late' = (late \ done) \cup (ls \cap Unlocking)
    /\ overtaken' = overtaken \cup Closing(ls)

Ended(l) == pc[l] = "died" \/ (pc[l] = "run" /\ todo[l] = {})

\* The snapshot is rewritten after a clean run only.
\* Mutant: the exit code is ignored
RcIgnored(l) == TRUE
Clean(l) == pc[l] \in {"run", "unlock"}
After(l) == IF l = "sync" /\ Clean(l) /\ seen # snapshot THEN "save" ELSE "idle"

\* Mutant: the holder is not compared.
AlwaysOurs(l) == TRUE

\* GET, and DELETE if the lock is still the loop's own
StillOurs(l) == lock = l

ReleaseGet(l) ==
    /\ Ended(l)
    /\ pc' = [pc EXCEPT ![l] = IF ~StillOurs(l) THEN After(l)
                               ELSE IF Clean(l) THEN "unlock" ELSE "unlockDied"]
    /\ exposed' = exposed \ {l}
    /\ UNCHANGED <<open, policy, copies, record, inbox, dead, lock, todo, late, overtaken, lost,
                   missed, bounds>>

ReleaseDelete(l) ==
    /\ pc[l] \in {"unlock", "unlockDied"}
    /\ lock' = Free
    /\ pc' = [pc EXCEPT ![l] = After(l)]
    /\ Unlocked(IF l \in late THEN {lock} \cap Loops ELSE {}, {l})
    /\ UNCHANGED <<open, policy, copies, record, inbox, dead, todo, lost, missed, bounds>>

\* The release is not carried out: the key stays until it expires.
ReleaseFails(l) ==
    /\ Mishap
    /\ Ended(l) /\ lock = l
    /\ lock' = Nobody
    /\ pc' = [pc EXCEPT ![l] = After(l)]
    /\ UNCHANGED <<open, policy, copies, record, inbox, dead, todo, ghosts, changes, jobs>>

SaveSnapshot ==
    /\ pc["sync"] = "save"
    /\ snapshot' = seen
    /\ pc' = [pc EXCEPT !["sync"] = "idle"]
    /\ UNCHANGED <<open, policy, cache, seen, record, inbox, dead, lock, todo, ghosts, bounds>>

\* The key expires: six hours after it was set, whoever set it.
KeyExpires ==
    /\ lock = Nobody
    /\ lock' = Free
    /\ UNCHANGED <<open, policy, copies, record, inbox, dead, loops, ghosts, bounds>>

LockExpires(l) ==
    /\ Mishap
    /\ lock = l
    /\ lock' = Free
    /\ Unlocked({l}, {})
    /\ UNCHANGED <<open, policy, copies, record, inbox, dead, loops, lost, missed,
                   changes, jobs>>

\* The container restarts: the jobs die with it, and the lock is cleared.
Restart ==
    /\ pc' = [l \in Loops |-> "idle"] /\ todo' = [l \in Loops |-> {}]
    /\ lock' = Free
    /\ lost' = lost \cup {w[2] : w \in todo["allow"]}
    /\ exposed' = {} /\ late' = {}
    /\ UNCHANGED <<open, policy, copies, record, inbox, dead, overtaken, missed, changes, jobs>>

Crash == Mishap /\ Restart

-----------------------------------------------------------------------------

Step(l) ==
    \/ Start(l) \/ JobDies(l)
    \/ \E w \in todo[l] : Do(l, w) \/ DoFails(l, w) \/ Throttled(l, w)
    \/ ReleaseGet(l) \/ ReleaseDelete(l) \/ ReleaseFails(l) \/ LockExpires(l)

CwsNext ==
    \/ \E s \in Sites : \/ AddSite(s) \/ RemoveSite(s) \/ RetryFailure(s) \/ Detect(s)
                        \/ FileDrift(s) \/ FileDriftFails(s) \/ ClaimExpires(s)
    \/ \E c \in calls : Push(c) \/ PushFails(c)
    \/ \E u \in Personal : GroupChanges(u)
    \/ \E l \in Loops : Step(l)
    \/ StartDrift \/ StartBulk \/ StartVerification
    \/ Pop \/ Requeue \/ Fetch \/ Defer \/ SaveSnapshot
    \/ AnswerLost \/ KeyExpires \/ Crash

CwsSpec == CwsInit /\ [][CwsNext]_cwsVars

\* The loops go on, and the key has an expiry. The action loop asks for the
\* lock every 15 seconds, and every other loop sleeps for minutes between jobs.
CwsFairness ==
    /\ \A c \in Targets \X Sites : WF_cwsVars(Push(c))
    /\ \A s \in Sites : WF_cwsVars(FileDrift(s))
    /\ SF_cwsVars(Pop /\ lock = Free) /\ WF_cwsVars(Requeue) /\ SF_cwsVars(Start("allow"))
    /\ WF_cwsVars(Fetch) /\ WF_cwsVars(Defer) /\ SF_cwsVars(Start("sync"))
    /\ WF_cwsVars(SaveSnapshot) /\ WF_cwsVars(KeyExpires)
    /\ \A l \in Loops : /\ WF_cwsVars(\E w \in todo[l] : Do(l, w))
                         /\ WF_cwsVars(ReleaseGet(l)) /\ WF_cwsVars(ReleaseDelete(l))

CwsFairSpec == CwsSpec /\ CwsFairness

-----------------------------------------------------------------------------
(* Properties *)

\* The variables hold what the tables and keys can hold; a loop that is not
\* running a job has nothing to do, and the lock names a loop with a job.
CwsTypeOK ==
    /\ {open, allowed, drift, failing, claims, lost, overtaken} \subseteq SUBSET Sites
    /\ {members, cache, snapshot, seen, missed} \subseteq SUBSET Personal
    /\ calls \subseteq Work /\ dead \subseteq Targets \X Sites
    /\ queue \in Seq(Targets \X Sites)
    /\ pc \in [Loops -> {"idle", "want", "run", "died", "unlock", "unlockDied", "save"}]
    /\ \A l \in Loops : /\ todo[l] \subseteq Work
                         /\ pc[l] \notin {"want", "run"} => todo[l] = {}
    /\ lock \in Loops => pc[lock] \in {"run", "died", "unlock", "unlockDied"}
    /\ exposed \subseteq Loops /\ late \subseteq Loops

\* _acquire_cws_lock, "single-flight across all CWS PowerShell loops": two jobs
\* run at once only when the lock of one of them expired while it ran.
SingleFlight == Cardinality({l \in Loops : pc[l] = "run"} \ exposed) <= 1

\* When nothing is under way, a site on the allowlist has its links, unless its
\* closing was already under way when it was added, or its action was lost to
\* a failed call or a crash, or lies in the dead-letter list.
Quiet == calls = {} /\ queue = <<>> /\ \A l \in Loops : pc[l] = "idle"
AllowedStaysOpen ==
    Quiet => \A s \in allowed \ (overtaken \cup lost) : s \in open \/ <<"open", s>> \in dead

\* The members of the exception group end with their OneDrives open, whoever
\* closed them: the reconcile repairs what the difference cannot see. The ones
\* on the site allowlist are left to the allowlist.
MembersReopened == <>[](members \ allowed \subseteq open)

\* A tracked member who leaves the group loses the links, although the job may
\* die or the cron restart, unless the job recorded a failure for the OneDrive.
LeaversClosed ==
    \A u \in Personal :
        u \in snapshot \ members ~> u \in members \cup allowed \cup missed \/ u \notin open

=============================================================================
