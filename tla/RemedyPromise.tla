--------------------------- MODULE RemedyPromise ---------------------------
(***************************************************************************)
(* What the dashboard and the worker promise about a confirmed exposure,   *)
(* with none of their machinery: a remediation is asked for, undertaken,   *)
(* settled and told, in this order.  It is called done only once every     *)
(* link is gone that it had to remove; one whose item is not known can     *)
(* only be called unchecked.  The user is told at most once each time it   *)
(* settles; and only a failure before that reopens it.                     *)
(***************************************************************************)
EXTENDS Naturals, Sequences

CONSTANTS Events, Links

VARIABLES
    stage, \* "none", "asked", "done", "warned", "unchecked", "inherited" (of a child)
           \* or "failed"
    owes,  \* the links that were there when the remediation was last undertaken
    known, \* events whose item was known then
    gone,  \* links that exist no more
    due,   \* events whose remediation has settled and whose user may yet be told
    notes  \* what users are to be told

vars == <<stage, owes, known, gone, due, notes>>

Init ==
    /\ stage = [e \in Events |-> "none"] /\ owes = [e \in Events |-> {}]
    /\ known = {} /\ gone = {} /\ due = {} /\ notes = <<>>

Unasked == {e \in Events : stage[e] \in {"none", "failed"}}

Ask(S) ==
    /\ S \subseteq Unasked
    /\ stage' = [e \in Events |-> IF e \in S THEN "asked" ELSE stage[e]]
    /\ UNCHANGED <<owes, known, gone, due, notes>>

Undertake(e) ==
    /\ stage[e] = "asked"
    /\ \E L \in SUBSET (Links \ gone) : owes' = [owes EXCEPT ![e] = L]
    /\ known' \in {known \cup {e}, known \ {e}}
    /\ UNCHANGED <<stage, gone, due, notes>>

\* Links end, whoever ends them, and never come back.
Vanish ==
    /\ gone \subseteq gone' /\ gone' \subseteq Links
    /\ UNCHANGED <<stage, owes, known, due, notes>>

Settle(e) ==
    /\ stage[e] = "asked"
    /\ \/ stage' = [stage EXCEPT ![e] = "done"] /\ e \in known /\ owes[e] \subseteq gone
       \/ stage' = [stage EXCEPT ![e] = "unchecked"] /\ e \notin known
       \/ stage' = [stage EXCEPT ![e] = "warned"]
    /\ due' = due \cup {e}
    /\ UNCHANGED <<owes, known, gone, notes>>

\* The folder of a file whose remediation comes to its end
Inherit(e) ==
    /\ e \in Unasked
    /\ stage' = [stage EXCEPT ![e] = "inherited"]
    /\ UNCHANGED <<owes, known, gone, due, notes>>

Fail(e) ==
    /\ stage[e] = "asked" \/ e \in due
    /\ stage' = [stage EXCEPT ![e] = "failed"]
    /\ due' = due \ {e}
    /\ UNCHANGED <<owes, known, gone, notes>>

Tell(e) ==
    /\ e \in due
    /\ due' = due \ {e} /\ notes' = Append(notes, <<e, "true_positive">>)
    /\ UNCHANGED <<stage, owes, known, gone>>

\* A crash or a failed push: the user is not told.
Forget(e) ==
    /\ e \in due /\ due' = due \ {e}
    /\ UNCHANGED <<stage, owes, known, gone, notes>>

\* Advice on a moderate risk needs no remediation.
Advise ==
    /\ Len(notes) <= Len(notes') /\ SubSeq(notes', 1, Len(notes)) = notes
    /\ \A i \in Len(notes) + 1 .. Len(notes') : notes'[i] \in Events \X {"moderate_risk"}
    /\ UNCHANGED <<stage, owes, known, gone, due>>

Read ==
    /\ notes # <<>> /\ notes' = Tail(notes)
    /\ UNCHANGED <<stage, owes, known, gone, due>>

Next ==
    \/ \E S \in SUBSET Events : Ask(S)
    \/ \E e \in Events : \/ Undertake(e) \/ Settle(e) \/ Inherit(e)
                         \/ Fail(e) \/ Tell(e) \/ Forget(e)
    \/ Vanish \/ Advise \/ Read

Spec == Init /\ [][Next]_vars
=============================================================================
