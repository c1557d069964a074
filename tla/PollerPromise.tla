--------------------------- MODULE PollerPromise ---------------------------
(***************************************************************************)
(* What the audit poller promises about the audit log, with none of its    *)
(* windows, queries and keys: it hands over what the log shows, again only *)
(* after a mishap or once it has forgotten the record; the two times it    *)
(* saves only go forward, and each speaks of records all of which it has   *)
(* handed over.                                                            *)
(***************************************************************************)
EXTENDS Integers

CONSTANTS
    Records, Provisioning,
    Overlap,  \* how late a record may surface and still be met without reconciliation
    Span,     \* how far back a reconciliation looks
    Life,     \* how long a record is remembered
    Never

VARIABLES
    now, created, visible, \* the clock; when a record was made and could first be read
    upto,                  \* everything prompt up to here, less the overlap, was handed over
    swept,                 \* the beginning of the last reconciliation
    handed,                \* how often a record was handed over
    mishaps

log  == <<now, created, visible>>
vars == <<log, upto, swept, handed, mishaps>>

Init ==
    /\ now = 0
    /\ created = [r \in Records |-> Never] /\ visible = [r \in Records |-> Never]
    /\ upto = 0 /\ swept = Never
    /\ handed = [r \in Records |-> 0]
    /\ mishaps = 0

Tick == now' = now + 1 /\ UNCHANGED <<created, visible, upto, swept, handed, mishaps>>

Occur(r) ==
    /\ created[r] = Never /\ created' = [created EXCEPT ![r] = now]
    /\ UNCHANGED <<now, visible, upto, swept, handed, mishaps>>

Surface(r) ==
    /\ created[r] # Never /\ visible[r] = Never /\ visible' = [visible EXCEPT ![r] = now]
    /\ UNCHANGED <<now, created, upto, swept, handed, mishaps>>

HandOver(r) ==
    /\ visible[r] # Never
    /\ handed[r] <= mishaps \/ now >= created[r] + Life
    /\ handed' = [handed EXCEPT ![r] = @ + 1]
    /\ UNCHANGED <<log, upto, swept, mishaps>>

\* What a time may be saved for: nothing of S is missing
Complete(S) == \A r \in S \ Provisioning : handed[r] > 0
Prompt(t) == {r \in Records : /\ visible[r] # Never /\ visible[r] <= created[r] + Overlap
                              /\ created[r] + Overlap < t}
Recent(t) == {r \in Records : /\ visible[r] # Never /\ visible[r] < t
                              /\ t - Span <= created[r] /\ created[r] <= t}

Advance ==
    /\ upto <= upto' /\ upto' <= now /\ Complete(Prompt(upto'))
    /\ UNCHANGED <<log, swept, handed, mishaps>>

Sweep ==
    /\ swept' \in 0 .. now /\ (swept # Never => swept <= swept') /\ Complete(Recent(swept'))
    /\ UNCHANGED <<log, upto, handed, mishaps>>

\* A call fails, a cycle is cut or the poller restarts.
Mishap == mishaps < mishaps' /\ UNCHANGED <<log, upto, swept, handed>>

Next ==
    \/ Tick \/ Advance \/ Sweep \/ Mishap
    \/ \E r \in Records : Occur(r) \/ Surface(r) \/ HandOver(r)

Spec == Init /\ [][Next]_vars
=============================================================================
