-------------------------- MODULE EscalationRules --------------------------
(***************************************************************************)
(* How a model's answer becomes an escalation: the category taxonomy, the  *)
(* tier computed from categories, volume and PII types, and the overrides  *)
(* that may clear the tier and rewrite the categories before the verdict   *)
(* is stored.  Pure operators, no state.                                   *)
(***************************************************************************)
EXTENDS Naturals

CONSTANTS
    OffTaxonomy,  \* category ids a model invents: the parser keeps them
    PiiTypes      \* strings a model may list in pii_types_found

Tier1 == {"pii_government_id", "pii_financial", "ferpa", "hipaa", "security_credentials"}
Tier2 == {"hr_personnel", "legal_confidential", "sensitive_personal"}
Tier3 == {"coursework", "casual_personal", "none", "directory_info"}

\* ALL_CATEGORY_IDS; pii_contact is the one conditional category
AllCategoryIds == Tier1 \cup Tier2 \cup Tier3 \cup {"pii_contact"}

GovernmentIdPii == {"ssn", "passport", "drivers_license", "itin"}
RichPii == {"phone", "home_address", "age", "financial_data", "financial_account",
            "salary", "medical"}
HardIdentifiers == {"ssn", "passport", "drivers_license", "financial_account"}

Tiers    == {"tier_1", "tier_2", "none"}
Contexts == {"coursework", "institutional", "personal", "mixed"}

\* Rule 3 asks for a student OneDrive path and a coursework file name together
Places == {"student_coursework", "elsewhere"}

CategoryIds == AllCategoryIds \cup OffTaxonomy

\* AnalysisResponse, as far as the decision reads it
Answer == [cats : SUBSET CategoryIds, pii : SUBSET PiiTypes, count : Nat,
           context : Contexts, success : BOOLEAN]

-----------------------------------------------------------------------------
(* compute_escalation_tier *)

DobWithName(r) == {"dob", "name"} \subseteq r.pii

\* pii_contact with a name: five people and a rich type, or two and two types
RichContact(r) ==
    /\ "pii_contact" \in r.cats /\ "name" \in r.pii
    /\ LET rich == r.pii \cap RichPii IN
       \/ r.count >= 5 /\ rich # {}
       \/ r.count >= 2 /\ \E a, b \in rich : a # b

EscalationTier(r) ==
    IF r.cats \cap Tier1 # {} THEN "tier_1"
    ELSE IF r.cats \cap Tier2 # {} \/ r.cats \ AllCategoryIds # {} THEN "tier_2"
    ELSE IF r.pii \cap GovernmentIdPii # {} THEN "tier_1"
    ELSE IF DobWithName(r) \/ RichContact(r) THEN "tier_2"
    ELSE "none"

Escalates(r) == EscalationTier(r) # "none"

-----------------------------------------------------------------------------
(* apply_escalation_overrides *)

\* Rule 1: ferpa is the only escalating category and no name links it.  (The
\* code's dob-and-name test cannot hold here: there is no name.)
FerpaUnlinked(r) ==
    /\ "ferpa" \in r.cats /\ "name" \notin r.pii
    /\ r.cats \cap ((Tier1 \ {"ferpa"}) \cup Tier2) = {}
    /\ r.pii \cap GovernmentIdPii = {}

\* Rules 2 and 3; mutation: the context alone decides
ContextDecides(r, place) ==
    \/ r.context = "coursework"
    \/ place = "student_coursework" /\ r.pii \cap HardIdentifiers = {}
Coursework(r, place) ==
    /\ r.context = "coursework" \/ place = "student_coursework"
    /\ r.pii \cap HardIdentifiers = {}

Overridden(r, place) == Escalates(r) /\ (FerpaUnlinked(r) \/ Coursework(r, place))

\* adjusted_tier
FinalTier(r, place) == IF Overridden(r, place) THEN "none" ELSE EscalationTier(r)

\* replacement_category
Replacement(r) == IF FerpaUnlinked(r) /\ r.context # "coursework" THEN "none"
                  ELSE "coursework"

\* The rewrite of the categories in _record_and_notify: only ids of the two
\* escalating tiers are replaced; mutation: whatever the override said
ReplaceAlways(r, place) ==
    [r EXCEPT !.cats = {IF c \in Tier1 \cup Tier2 THEN Replacement(r) ELSE c : c \in @}]
Rewritten(r, place) ==
    IF Overridden(r, place)
    THEN [r EXCEPT !.cats = {IF c \in Tier1 \cup Tier2 THEN Replacement(r) ELSE c : c \in @}]
    ELSE r

-----------------------------------------------------------------------------
(* Properties of the rules, for an answer r of a file at place *)

\* A file in which the model lists a passport, a driver's license or an SSN is
\* escalated whatever categories, context and path say (the safety net of
\* compute_escalation_tier and the conditions of all three override rules).
HardIdEscalates(r, place) ==
    r.pii \cap (GovernmentIdPii \cap HardIdentifiers) # {} => FinalTier(r, place) # "none"
=============================================================================
