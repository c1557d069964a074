------------------------- MODULE MCVerdictDecision -------------------------
(***************************************************************************)
(* Sample answers for TLC: each meets a rule of the decision differently.  *)
(***************************************************************************)
EXTENDS VerdictDecision

A(cats, pii, context) ==
    [cats |-> cats, pii |-> pii, count |-> 1, context |-> context, success |-> TRUE]

Ferpa     == A({"ferpa"}, {"name"}, "institutional")
SafetyNet == A({"coursework"}, {"ssn"}, "coursework")
Personnel == A({"hr_personnel"}, {}, "mixed")

MCAnswers == {Personnel, SafetyNet}
=============================================================================
