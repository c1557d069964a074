---------------------------- MODULE EventPromise ----------------------------
(***************************************************************************)
(* What the worker promises about a sharing event, with none of its        *)
(* machinery: an accepted event is decided once and stays decided, and the *)
(* analysts are alerted of it at most once, before it is decided.          *)
(***************************************************************************)
EXTENDS Naturals

CONSTANT Events

VARIABLES
    stage,   \* "unknown", "accepted" or "decided", for each event
    told     \* number of alerts about each event

vars == <<stage, told>>

Init ==
    /\ stage = [e \in Events |-> "unknown"]
    /\ told = [e \in Events |-> 0]

Accept(e) ==
    /\ stage[e] = "unknown"
    /\ stage' = [stage EXCEPT ![e] = "accepted"]
    /\ UNCHANGED told

Tell(e) ==
    /\ stage[e] = "accepted" /\ told[e] = 0
    /\ told' = [told EXCEPT ![e] = 1]
    /\ UNCHANGED stage

Decide(e) ==
    /\ stage[e] = "accepted"
    /\ stage' = [stage EXCEPT ![e] = "decided"]
    /\ UNCHANGED told

Next == \E e \in Events : Accept(e) \/ Tell(e) \/ Decide(e)

Spec == Init /\ [][Next]_vars
=============================================================================
