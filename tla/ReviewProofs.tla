---------------------------- MODULE ReviewProofs ----------------------------
(***************************************************************************)
(* What is promised by those who look again at what was analysed: the two  *)
(* scripts that sweep over the verdicts, for all events, pages, reviews    *)
(* and numbers of runs, and the weekly rescan of a shared folder, for all  *)
(* files, versions, crashes and faults.                                    *)
(***************************************************************************)
EXTENDS ReviewSweep, FolderRescan, FiniteSetTheorems, SequenceTheorems, TLAPS


-----------------------------------------------------------------------------
(* The sweeps: the invariant *)

\* The sequence has given out each id once.
OneRow ==
    \A e \in Events : \A r \in verdicts[e] :
        r.id <= ids /\ \A q \in verdicts[e] : q.id = r.id => q = r

\* A verdict to be analysed was flagged, and no later row can take its id.
Flagged(v) == v \in Events \X Nat /\ v[2] <= ids /\ \A r \in verdicts[v[1]] : r.id = v[2] => r.bad
Pending    == (\A v \in looks.todo : Flagged(v)) /\ (looks.pc = "write" => Flagged(looks.at))

\* While the script runs, it has seen no event dead that was not.
Witnessed ==
    sweep.pc # "idle" => /\ \A e \in Events : HasLive(e) \/ e \in dead
                         /\ sweep.found \subseteq dead

SweepInv == TypeOK /\ OneRow /\ Pending /\ LookMatches /\ Witnessed

\* What an update keeps of a row: its id, its finding and an analyst's decision.
Keeps(r, r2) ==
    /\ r2 \in Row /\ r2.id = r.id /\ r2.bad = r.bad
    /\ r.by = "analyst" => r2.by = "analyst"

-----------------------------------------------------------------------------
(* The rows each action leaves behind *)

USE SweepAssumption DEF tables

\* A new row has a new id.
LEMMA Inserted ==
    ASSUME TypeOK, OneRow, NEW f \in Events, NEW bad \in BOOLEAN, Insert(f, bad)
    PROVE  LET new == [id |-> ids + 1, bad |-> bad, by |-> "nobody", look |-> 0] IN
           /\ ids' = ids + 1 /\ new \in Row
           /\ verdicts' = [verdicts EXCEPT ![f] = @ \cup {new}]
           /\ \A e \in Events : verdicts'[e] = IF e = f THEN verdicts[f] \cup {new} ELSE verdicts[e]
BY DEF TypeOK, Insert, Row

\* An update of the rows of one event, by a function that keeps ids and findings:
\* each row comes from one that was there, and rows stay apart by their ids.
LEMMA Updated ==
    ASSUME TypeOK, OneRow, NEW f \in Events, NEW F \in [Row -> Row],
           \A r \in Row : Keeps(r, F[r]),
           verdicts' = [verdicts EXCEPT ![f] = {F[r] : r \in verdicts[f]}], ids' = ids
    PROVE  /\ verdicts' \in [Events -> SUBSET Row] /\ OneRow'
           /\ \A v : Flagged(v) => Flagged(v)'
           /\ \A e \in Events : \A r2 \in verdicts'[e] :
                 \E r \in verdicts[e] : r \in Row /\ r2 = IF e = f THEN F[r] ELSE r
           /\ \A e \in Events : \A r \in verdicts[e], r2 \in verdicts'[e] :
                 r2.id = r.id => r \in Row /\ r2 = IF e = f THEN F[r] ELSE r
<1> DEFINE G(e, r) == IF e = f THEN F[r] ELSE r
<1>1. \A e \in Events : verdicts[e] \subseteq Row
    BY DEF TypeOK
<1>2. \A e \in Events, r \in Row : Keeps(r, G(e, r)) /\ G(e, r) \in Row
    BY DEF Keeps, Row
<1>3. \A e \in Events : verdicts'[e] = IF e = f THEN {F[r] : r \in verdicts[f]} ELSE verdicts[e]
    BY DEF TypeOK
<1>4. verdicts' \in [Events -> SUBSET Row]
    <2>1. {F[r] : r \in verdicts[f]} \subseteq Row
        BY <1>1
    <2> QED BY <2>1 DEF TypeOK
<1>5. ASSUME NEW e \in Events, NEW r2 \in verdicts'[e]
      PROVE  \E r \in verdicts[e] : r \in Row /\ r2 = G(e, r)
    <2>1. CASE e = f
        <3>1. r2 \in {F[r] : r \in verdicts[f]}
            BY <1>3, <1>5, <2>1
        <3>2. PICK r \in verdicts[f] : r2 = F[r]
            BY <3>1
        <3> QED BY <3>2, <2>1, <1>1
    <2>2. CASE e # f
        <3>1. r2 \in verdicts[e] /\ r2 \in Row
            BY <1>3, <1>5, <2>2, <1>1
        <3> QED BY <3>1, <2>2
    <2> QED BY <2>1, <2>2
<1>6. ASSUME NEW e \in Events, NEW r \in verdicts[e], NEW r2 \in verdicts'[e], r2.id = r.id
      PROVE  r \in Row /\ r2 = G(e, r)
    <2>1. PICK q \in verdicts[e] : q \in Row /\ r2 = G(e, q)
        BY <1>5
    <2>2. q.id = r.id
        BY <2>1, <1>2, <1>6 DEF Keeps
    <2>3. q = r
        BY <2>2 DEF OneRow
    <2> QED BY <2>1, <2>3
<1>7. ASSUME NEW e \in Events, NEW r2 \in verdicts'[e]
      PROVE  r2.id <= ids /\ \A q2 \in verdicts'[e] : q2.id = r2.id => q2 = r2
    <2>1. PICK r \in verdicts[e] : r \in Row /\ r2 = G(e, r)
        BY <1>5, <1>7
    <2>2. r2.id = r.id /\ r.id <= ids
        BY <2>1, <1>2 DEF Keeps, OneRow
    <2>3. \A q2 \in verdicts'[e] : q2.id = r.id => q2 = G(e, r)
        BY <1>6
    <2> QED BY <2>1, <2>2, <2>3
<1>8. OneRow'
    BY <1>7 DEF OneRow
<1>9. ASSUME NEW v, Flagged(v)
      PROVE  Flagged(v)'
    <2>1. v \in Events \X Nat /\ v[1] \in Events /\ v[2] <= ids'
        BY <1>9 DEF Flagged
    <2>2. ASSUME NEW r2 \in verdicts'[v[1]], r2.id = v[2]
          PROVE  r2.bad
        <3>1. PICK r \in verdicts[v[1]] : r \in Row /\ r2 = G(v[1], r)
            BY <1>5, <2>1, <2>2
        <3>2. r2.id = r.id /\ r2.bad = r.bad
            BY <3>1, <2>1, <1>2 DEF Keeps
        <3> QED BY <3>2, <2>2, <1>9 DEF Flagged
    <2> QED BY <2>1, <2>2 DEF Flagged
<1> QED BY <1>4, <1>5, <1>6, <1>8, <1>9

\* The functions of the three updates.
ReviewRow == [r \in Row |-> [r EXCEPT !.by = "analyst"]]
CloseRow  == [r \in Row |-> IF Unreviewed(r) THEN [r EXCEPT !.by = "sweep"] ELSE r]
LookRow(id) == [r \in Row |-> IF OfTheRow(r, id) THEN [r EXCEPT !.look = id] ELSE r]

\* An analyst's decision is such an update: it touches the analyst's columns only.
LEMMA ReviewUpdates ==
    ASSUME TypeOK, NEW f \in Events, Review(f)
    PROVE  /\ ReviewRow \in [Row -> Row] /\ \A r \in Row : Keeps(r, ReviewRow[r])
           /\ verdicts' = [verdicts EXCEPT ![f] = {ReviewRow[r] : r \in verdicts[f]}]
           /\ ids' = ids
<1>1. ReviewRow \in [Row -> Row] /\ \A r \in Row : Keeps(r, ReviewRow[r])
    BY DEF ReviewRow, Row, Keeps
<1>2. verdicts[f] \subseteq Row
    BY DEF TypeOK
<1>3. {[r EXCEPT !.by = "analyst"] : r \in verdicts[f]} = {ReviewRow[r] : r \in verdicts[f]}
    BY <1>2 DEF ReviewRow
<1> QED BY <1>1, <1>3 DEF Review

\* So is the closing of an event's verdicts, which leaves decided rows alone.
LEMMA CloseUpdates ==
    ASSUME TypeOK, NEW f \in Events, Mark(f)
    PROVE  /\ CloseRow \in [Row -> Row] /\ \A r \in Row : Keeps(r, CloseRow[r])
           /\ verdicts' = [verdicts EXCEPT ![f] = {CloseRow[r] : r \in verdicts[f]}]
           /\ ids' = ids
<1>1. CloseRow \in [Row -> Row] /\ \A r \in Row : Keeps(r, CloseRow[r])
    BY DEF CloseRow, Row, Keeps, Unreviewed
<1>2. verdicts[f] \subseteq Row
    BY DEF TypeOK
<1>3. {IF Unreviewed(r) THEN [r EXCEPT !.by = "sweep"] ELSE r : r \in verdicts[f]}
        = {CloseRow[r] : r \in verdicts[f]}
    BY <1>2 DEF CloseRow
<1> QED BY <1>1, <1>3 DEF Mark

\* So is the note of a second look, made on the row whose id was listed.
LEMMA LookUpdates ==
    ASSUME TypeOK, Pending, UpdateSecondLook
    PROVE  LET f == looks.at[1]  F == LookRow(looks.at[2]) IN
           /\ Flagged(looks.at) /\ f \in Events
           /\ F \in [Row -> Row] /\ \A r \in Row : Keeps(r, F[r])
           /\ verdicts' = [verdicts EXCEPT ![f] = {F[r] : r \in verdicts[f]}]
           /\ ids' = ids
<1> DEFINE f == looks.at[1]  id == looks.at[2]  F == LookRow(id)
<1>0. Flagged(looks.at) /\ f \in Events /\ id \in Nat
    BY DEF Pending, UpdateSecondLook, Flagged
<1>1. F \in [Row -> Row] /\ \A r \in Row : Keeps(r, F[r])
    BY <1>0 DEF LookRow, Row, Keeps, OfTheRow
<1>2. verdicts[f] \subseteq Row
    BY <1>0 DEF TypeOK
<1>3. {IF OfTheRow(r, id) THEN [r EXCEPT !.look = id] ELSE r : r \in verdicts[f]}
        = {F[r] : r \in verdicts[f]}
    BY <1>2 DEF LookRow
<1> QED BY <1>0, <1>1, <1>3 DEF UpdateSecondLook

-----------------------------------------------------------------------------
(* The invariant holds *)

\* Before any run there are no verdicts, and the scripts have listed nothing.
LEMMA SweepBegins == SweepInit => SweepInv
BY DEF SweepInit, SweepInv, TypeOK, Pages, Kinds, Idle, NoLook, OneRow, Pending, LookMatches, Witnessed

\* What Graph answered for an event the script would close: no live link.
LEMMA MarkableIsDead ==
    ASSUME TypeOK, NEW e \in Events, Outcome(e) \in Markable
    PROVE  ~HasLive(e)
<1>1. CASE item[e] = Nothing
    BY <1>1 DEF HasLive
<1>2. CASE item[e] # Nothing
    <2>1. e \notin NoRef /\ Complete(item[e]) /\ "hidden" \notin item[e].first
             /\ ~Active(item[e].first)
        BY <1>2 DEF Outcome, Markable
    <2> QED BY <2>1 DEF HasLive, Complete, Active
<1> QED BY <1>1, <1>2

\* The types of the variables that are not rows of verdicts.
SweepRest ==
    /\ item \in [Events -> Pages \cup {Nothing}] /\ changes \in Nat
    /\ linkRow \in [Events -> {"active", "manually_removed"}]
    /\ sweep \in [pc : {"idle", "check", "mark"}, todo : SUBSET Events, found : SUBSET Events]
    /\ dead \subseteq Events
    /\ launches \in [sweep : Nat, looks : Nat]
LookType ==
    looks \in [pc : {"idle", "next", "write"}, todo : SUBSET (Events \X Nat),
               at : (Events \X Nat) \cup {Nothing}]

\* The scripts' own state keeps its types, and what is to be closed was dead.
LEMMA SweepSteps ==
    ASSUME TypeOK, Witnessed, [SweepNext]_sweepVars
    PROVE  SweepRest' /\ Witnessed'
<1>0. SweepRest
    BY DEF SweepRest, TypeOK
<1>1. ASSUME NEW e \in Events, Change(e)
      PROVE  SweepRest' /\ Witnessed'
    <2>1. item' \in [Events -> Pages \cup {Nothing}]
        <3>1. \A to \in Edits(e) : to \in Pages \cup {Nothing}
            BY <1>1 DEF Edits, Edited, Change, Pages, Kinds, TypeOK
        <3> QED BY <3>1, <1>1 DEF Change, TypeOK
    <2>2. \A g \in Events \ {e} : item'[g] = item[g]
        BY <1>1 DEF Change, TypeOK
    <2>3. \A g \in Events \ {e} : HasLive(g)' = HasLive(g)
        BY <2>2 DEF HasLive
    <2> QED BY <1>0, <1>1, <2>1, <2>3 DEF Change, SweepRest, Witnessed
<1>2. CASE ListQueue
    <2> DEFINE queue == {e \in Events : \E r \in verdicts[e] : r.by = "nobody" /\ r.bad}
    <2>1. sweep' = [pc |-> "check", todo |-> queue, found |-> {}] /\ queue \subseteq Events
        BY <1>2 DEF ListQueue, Idle
    <2>2. /\ dead' = {e \in Events : ~HasLive(e)} /\ launches' = [launches EXCEPT !.sweep = @ + 1]
          /\ item' = item /\ changes' = changes /\ linkRow' = linkRow
        BY <1>2 DEF ListQueue
    <2>3. \A e \in Events : HasLive(e)' = HasLive(e)
        BY <2>2 DEF HasLive
    <2>4. Witnessed'
        BY <2>1, <2>2, <2>3 DEF Witnessed
    <2> HIDE DEF queue
    <2>5. SweepRest'
        BY <1>0, <2>1, <2>2 DEF SweepRest
    <2> QED BY <2>4, <2>5
<1>3. ASSUME NEW e \in Events, Check(e)
      PROVE  SweepRest' /\ Witnessed'
    <2>1. PICK answer \in {Outcome(e), "error"} :
             sweep' = [sweep EXCEPT !.todo = @ \ {e},
                                    !.found = IF answer \in Markable THEN @ \cup {e} ELSE @]
        BY <1>3 DEF Check
    <2>2. answer \in Markable => ~HasLive(e)
        BY MarkableIsDead, <2>1 DEF Markable
    <2>3. answer \in Markable => e \in dead
        BY <2>2, <1>3 DEF Witnessed, Check
    <2>4. /\ sweep'.pc = sweep.pc /\ sweep'.todo \subseteq Events
          /\ sweep'.found \subseteq sweep.found \cup {e}
          /\ e \in sweep'.found => e \in sweep.found \/ answer \in Markable
        BY <1>0, <2>1 DEF SweepRest
    <2>5. sweep' \in [pc : {"idle", "check", "mark"}, todo : SUBSET Events, found : SUBSET Events]
        <3>1. CASE answer \in Markable
            BY <1>0, <2>1, <3>1 DEF SweepRest
        <3>2. CASE answer \notin Markable
            BY <1>0, <2>1, <3>2 DEF SweepRest
        <3> QED BY <3>1, <3>2
    <2>6. SweepRest'
        BY <1>0, <1>3, <2>5 DEF Check, SweepRest
    <2> QED BY <2>3, <2>4, <2>6, <1>3 DEF Check, Witnessed, HasLive
<1>4. CASE Gathered
    BY <1>0, <1>4 DEF Gathered, SweepRest, Witnessed, HasLive
<1>5. ASSUME NEW e \in Events, Mark(e)
      PROVE  SweepRest' /\ Witnessed'
    BY <1>0, <1>5 DEF Mark, SweepRest, Witnessed, HasLive
<1>6. CASE SweepEnds
    BY <1>0, <1>6 DEF SweepEnds, SweepRest, Idle, Witnessed
<1>7. CASE FetchFlagged
    BY <1>0, <1>7 DEF FetchFlagged, SweepRest, Witnessed, HasLive
<1>8. ASSUME UNCHANGED <<item, changes, linkRow, sweep, dead, launches>>
      PROVE  SweepRest' /\ Witnessed'
    BY <1>0, <1>8 DEF SweepRest, Witnessed, HasLive
<1> QED
    BY <1>1, <1>2, <1>3, <1>4, <1>5, <1>6, <1>7, <1>8
    DEF SweepNext, sweepVars, Insert, Erase, Review, AnalyzeOne, AnalysisFails, UpdateSecondLook, LooksEnd

RowType == verdicts \in [Events -> SUBSET Row] /\ ids \in Nat

\* The part of the invariant that speaks of rows of verdicts.
RowInv == RowType /\ LookType /\ OneRow /\ Pending /\ LookMatches

\* An update whose second looks are right keeps that part, with no more to analyse.
LEMMA UpdateSteps ==
    ASSUME SweepInv, NEW f \in Events, NEW F \in [Row -> Row],
           \A r \in Row : Keeps(r, F[r]),
           \A r \in verdicts[f] : F[r].look = r.look \/ (F[r].look = r.id /\ r.bad),
           verdicts' = [verdicts EXCEPT ![f] = {F[r] : r \in verdicts[f]}], ids' = ids,
           LookType', looks'.todo = looks.todo, looks' = looks \/ looks'.pc = "next"
    PROVE  RowInv'
<1>1. /\ verdicts' \in [Events -> SUBSET Row] /\ OneRow'
      /\ \A v : Flagged(v) => Flagged(v)'
      /\ \A e \in Events : \A r2 \in verdicts'[e] :
            \E r \in verdicts[e] : r \in Row /\ r2 = IF e = f THEN F[r] ELSE r
    BY Updated DEF SweepInv
<1>2. LookMatches'
    <2>1. ASSUME NEW e \in Events, NEW r2 \in verdicts'[e]
          PROVE  r2.look \in {0, r2.id} /\ (r2.look # 0 => r2.bad)
        <3>1. PICK r \in verdicts[e] : r \in Row /\ r2 = IF e = f THEN F[r] ELSE r
            BY <1>1, <2>1
        <3>2. r.look \in {0, r.id} /\ (r.look # 0 => r.bad)
            BY DEF SweepInv, LookMatches
        <3>3. r2.id = r.id /\ r2.bad = r.bad
            BY <3>1 DEF Keeps
        <3>4. r2.look = r.look \/ (r2.look = r.id /\ r.bad)
            <4>1. CASE e = f
                BY <3>1, <4>1
            <4>2. CASE e # f
                BY <3>1, <4>2
            <4> QED BY <4>1, <4>2
        <3> QED BY <3>2, <3>3, <3>4
    <2> QED BY <2>1 DEF LookMatches
<1>3. Pending'
    BY <1>1 DEF SweepInv, Pending
<1> QED BY <1>1, <1>2, <1>3 DEF RowInv, RowType, SweepInv, TypeOK

\* No step spoils it.
LEMMA RowSteps ==
    ASSUME SweepInv, [SweepNext]_sweepVars
    PROVE  RowInv'
<1>0. TypeOK /\ RowInv
    BY DEF SweepInv, RowInv, RowType, LookType, TypeOK
<1>1. ASSUME NEW e \in Events, NEW bad \in BOOLEAN, Insert(e, bad)
      PROVE  RowInv'
    <2> DEFINE new == [id |-> ids + 1, bad |-> bad, by |-> "nobody", look |-> 0]
    <2>1. /\ ids' = ids + 1 /\ new \in Row
          /\ verdicts' = [verdicts EXCEPT ![e] = @ \cup {new}]
          /\ \A g \in Events : verdicts'[g] = IF g = e THEN verdicts[e] \cup {new} ELSE verdicts[g]
        BY <1>0, <1>1, Inserted DEF RowInv
    <2>2. new.id = ids + 1 /\ new.look = 0 /\ looks' = looks
        BY <1>1 DEF Insert
    <2> HIDE DEF new
    <2>3. \A g \in Events : verdicts[g] \subseteq Row
        BY <1>0 DEF TypeOK
    <2>4. RowType' /\ LookType'
        BY <1>0, <2>1, <2>2 DEF RowType, LookType, TypeOK
    <2>5. \A g \in Events : \A r \in verdicts[g] : r.id \in Nat /\ r.id <= ids
        BY <1>0, <2>3 DEF RowInv, OneRow, Row
    <2>6. ids \in Nat
        BY <1>0 DEF TypeOK
    <2>7. OneRow'
        <3>1. ASSUME NEW g \in Events, NEW r \in verdicts'[g]
              PROVE  r.id <= ids' /\ \A q \in verdicts'[g] : q.id = r.id => q = r
            <4>1. r \in verdicts[g] \/ r = new
                BY <2>1, <3>1
            <4>2. \A q \in verdicts'[g] : q \in verdicts[g] \/ q = new
                BY <2>1
            <4>3. \A q \in verdicts[g] : q.id # new.id
                BY <2>2, <2>5, <2>6
            <4>4. r.id <= ids'
                BY <4>1, <2>1, <2>2, <2>5, <2>6
            <4>5. \A q \in verdicts[g] : r \in verdicts[g] /\ q.id = r.id => q = r
                BY <1>0 DEF RowInv, OneRow
            <4> QED BY <4>1, <4>2, <4>3, <4>4, <4>5
        <3> QED BY <3>1 DEF OneRow
    <2>8. \A v : Flagged(v) => Flagged(v)'
        <3>1. ASSUME NEW v, Flagged(v)
              PROVE  Flagged(v)'
            <4>1. v \in Events \X Nat /\ v[1] \in Events /\ v[2] \in Nat /\ v[2] <= ids
                BY <3>1 DEF Flagged
            <4>2. \A r \in verdicts'[v[1]] : r \in verdicts[v[1]] \/ r = new
                BY <2>1, <4>1
            <4>3. \A r \in verdicts'[v[1]] : r.id = v[2] => r.bad
                BY <4>1, <4>2, <2>2, <2>6, <3>1 DEF Flagged
            <4>4. v[2] <= ids'
                BY <4>1, <2>1, <2>6
            <4> QED BY <4>1, <4>3, <4>4 DEF Flagged
        <3> QED BY <3>1
    <2>9. Pending'
        BY <1>0, <2>2, <2>8 DEF RowInv, Pending
    <2>10. LookMatches'
        BY <1>0, <2>1, <2>2 DEF RowInv, LookMatches
    <2> QED BY <2>4, <2>7, <2>9, <2>10 DEF RowInv
<1>2. ASSUME NEW e \in Events, Erase(e)
      PROVE  RowInv'
    <2>1. /\ \A g \in Events : verdicts'[g] \subseteq verdicts[g]
          /\ ids' = ids /\ looks' = looks /\ RowType' /\ LookType'
        BY <1>0, <1>2 DEF Erase, TypeOK, RowType, LookType
    <2>2. OneRow' /\ LookMatches'
        BY <1>0, <2>1 DEF RowInv, OneRow, LookMatches
    <2>3. \A v : Flagged(v) => Flagged(v)'
        BY <2>1 DEF Flagged
    <2>4. Pending'
        BY <1>0, <2>1, <2>3 DEF RowInv, Pending
    <2> QED BY <2>1, <2>2, <2>4 DEF RowInv
<1>3. ASSUME NEW e \in Events, Review(e)
      PROVE  RowInv'
    <2>1. \A r \in Row : ReviewRow[r].look = r.look
        BY DEF ReviewRow, Row
    <2>2. looks' = looks /\ LookType'
        BY <1>0, <1>3 DEF Review, RowInv, LookType
    <2>3. verdicts[e] \subseteq Row
        BY <1>0 DEF TypeOK
    <2>4. \A r \in verdicts[e] : ReviewRow[r].look = r.look
        BY <2>1, <2>3
    <2> QED BY <1>0, <1>3, <2>2, <2>4, ReviewUpdates, UpdateSteps
<1>4. ASSUME NEW e \in Events, Mark(e)
      PROVE  RowInv'
    <2>1. \A r \in Row : CloseRow[r].look = r.look
        BY DEF CloseRow, Row
    <2>2. looks' = looks /\ LookType'
        BY <1>0, <1>4 DEF Mark, RowInv, LookType
    <2>3. verdicts[e] \subseteq Row
        BY <1>0 DEF TypeOK
    <2>4. \A r \in verdicts[e] : CloseRow[r].look = r.look
        BY <2>1, <2>3
    <2> QED BY <1>0, <1>4, <2>2, <2>4, CloseUpdates, UpdateSteps
<1>5. CASE UpdateSecondLook
    <2>1. PICK f \in Events, F \in [Row -> Row] :
              /\ \A r \in Row : Keeps(r, F[r])
              /\ \A r \in verdicts[f] : F[r].look = r.look \/ (F[r].look = r.id /\ r.bad)
              /\ verdicts' = [verdicts EXCEPT ![f] = {F[r] : r \in verdicts[f]}] /\ ids' = ids
        <3> DEFINE g == looks.at[1]  n == looks.at[2]  G == LookRow(n)
        <3>1. /\ Flagged(looks.at) /\ g \in Events /\ n \in Nat
              /\ G \in [Row -> Row] /\ \A r \in Row : Keeps(r, G[r])
              /\ verdicts' = [verdicts EXCEPT ![g] = {G[r] : r \in verdicts[g]}] /\ ids' = ids
            BY <1>0, <1>5, LookUpdates DEF RowInv, Flagged
        <3>2. \A r \in Row : G[r].look = IF r.id = n THEN r.id ELSE r.look
            BY <3>1 DEF LookRow, OfTheRow, Row
        <3>3. \A r \in verdicts[g] : r \in Row /\ (r.id = n => r.bad)
            BY <1>0, <3>1 DEF Flagged, TypeOK
        <3>4. \A r \in verdicts[g] : G[r].look = r.look \/ (G[r].look = r.id /\ r.bad)
            BY <3>2, <3>3
        <3> HIDE DEF g, n, G
        <3> QED BY <3>1, <3>4
    <2>2. looks'.pc = "next" /\ looks'.todo = looks.todo /\ LookType'
        BY <1>0, <1>5 DEF UpdateSecondLook, RowInv, LookType
    <2> QED BY <2>1, <2>2, UpdateSteps
<1>6. CASE FetchFlagged
    <2> DEFINE fetched == UNION {{<<e, r.id>> : r \in {q \in verdicts[e] : q.bad /\ q.look = 0}} :
                                 e \in Events}
    <2>1. looks' = [pc |-> "next", todo |-> fetched, at |-> Nothing]
        BY <1>6 DEF FetchFlagged, NoLook
    <2>2. verdicts' = verdicts /\ ids' = ids
        BY <1>6 DEF FetchFlagged
    <2>3. ASSUME NEW v \in fetched
          PROVE  Flagged(v)
        <3>1. PICK e \in Events : \E r \in verdicts[e] : r.bad /\ v = <<e, r.id>>
            BY <2>3
        <3>a. PICK r \in verdicts[e] : r.bad /\ v = <<e, r.id>>
            BY <3>1
        <3>2. r \in Row /\ r.id \in Nat /\ r.id <= ids
            BY <1>0, <3>a DEF TypeOK, Row, RowInv, OneRow
        <3>3. \A q \in verdicts[e] : q.id = r.id => q.bad
            BY <1>0, <3>a DEF RowInv, OneRow
        <3> QED BY <3>a, <3>2, <3>3 DEF Flagged
    <2> HIDE DEF fetched
    <2>4. \A v \in fetched : Flagged(v)' /\ v \in Events \X Nat
        BY <2>2, <2>3 DEF Flagged
    <2>5. LookType' /\ Pending'
        BY <2>1, <2>4 DEF LookType, Pending
    <2> QED BY <1>0, <2>2, <2>5 DEF RowInv, RowType, OneRow, LookMatches
<1>7. ASSUME NEW v \in looks.todo, AnalyzeOne(v) \/ AnalysisFails(v)
      PROVE  RowInv'
    <2>1. /\ looks'.todo \subseteq looks.todo
          /\ looks'.pc = "write" => looks'.at = v
          /\ verdicts' = verdicts /\ ids' = ids /\ LookType'
        BY <1>0, <1>7 DEF AnalyzeOne, AnalysisFails, RowInv, LookType
    <2>2. \A u : Flagged(u) => Flagged(u)'
        BY <2>1 DEF Flagged
    <2>3. Pending'
        BY <1>0, <1>7, <2>1, <2>2 DEF RowInv, Pending
    <2> QED BY <1>0, <2>1, <2>3 DEF RowInv, RowType, OneRow, LookMatches
<1>8. CASE LooksEnd
    BY <1>0, <1>8 DEF LooksEnd, NoLook, RowInv, RowType, LookType, OneRow, LookMatches, Pending
<1>9. ASSUME UNCHANGED <<verdicts, ids, looks>>
      PROVE  RowInv'
    BY <1>0, <1>9 DEF RowInv, RowType, LookType, OneRow, LookMatches, Pending, Flagged
<1> QED
    BY <1>1, <1>2, <1>3, <1>4, <1>5, <1>6, <1>7, <1>8, <1>9
    DEF SweepNext, sweepVars, Change, Check, ListQueue, Gathered, SweepEnds

\* The invariant of both scripts.
THEOREM SweepInvariant == SweepSpec => []SweepInv
<1>1. SweepInv /\ [SweepNext]_sweepVars => SweepInv'
    BY SweepSteps, RowSteps DEF SweepInv, RowInv, RowType, LookType, SweepRest, TypeOK
<1> QED BY SweepBegins, <1>1, PTL DEF SweepSpec

-----------------------------------------------------------------------------
(* What the scripts promise *)

\* Every variable keeps its type, for any events, verdicts, changes and runs.
THEOREM SweepTypeCorrect == SweepSpec => []TypeOK
BY SweepInvariant, PTL DEF SweepInv

\* A second look stands in the flagged verdict it was made for, however many rows
\* its event has, and whatever is inserted, deleted or reviewed meanwhile.
THEOREM LooksMatch == SweepSpec => []LookMatches
BY SweepInvariant, PTL DEF SweepInv

\* What an analyst decided while the script was checking stands: no closing, no
\* second look and no new row changes it.
THEOREM AnalystSafe == SweepSpec => AnalystStands
<1>1. ASSUME SweepInv, [SweepNext]_sweepVars,
             NEW e \in Events, NEW r \in verdicts[e], NEW r2 \in verdicts'[e],
             r2.id = r.id, r.by = "analyst"
      PROVE  r2.by = "analyst"
    <2>0. TypeOK /\ OneRow /\ Pending
        BY <1>1 DEF SweepInv
    <2>1. ASSUME NEW f \in Events, NEW F \in [Row -> Row], \A q \in Row : Keeps(q, F[q]),
                 verdicts' = [verdicts EXCEPT ![f] = {F[q] : q \in verdicts[f]}], ids' = ids
          PROVE  r2.by = "analyst"
        <3>1. r \in Row /\ r2 = IF e = f THEN F[r] ELSE r
            BY <2>0, <2>1, <1>1, Updated
        <3> QED BY <3>1, <2>1, <1>1 DEF Keeps
    <2>2. \A f \in Events : Review(f) => r2.by = "analyst"
        BY <2>0, <2>1, ReviewUpdates
    <2>3. \A f \in Events : Mark(f) => r2.by = "analyst"
        BY <2>0, <2>1, CloseUpdates
    <2>4. UpdateSecondLook => r2.by = "analyst"
        <3>1. SUFFICES ASSUME UpdateSecondLook PROVE r2.by = "analyst"
            OBVIOUS
        <3>2. PICK f \in Events, F \in [Row -> Row] :
                  /\ \A q \in Row : Keeps(q, F[q])
                  /\ verdicts' = [verdicts EXCEPT ![f] = {F[q] : q \in verdicts[f]}] /\ ids' = ids
            BY <2>0, <3>1, LookUpdates
        <3> QED BY <3>2, <2>1
    <2>5. ASSUME NEW f \in Events, NEW bad \in BOOLEAN, Insert(f, bad)
          PROVE  r2.by = "analyst"
        <3> DEFINE new == [id |-> ids + 1, bad |-> bad, by |-> "nobody", look |-> 0]
        <3>1. verdicts'[e] = IF e = f THEN verdicts[f] \cup {new} ELSE verdicts[e]
            BY <2>0, <2>5, Inserted
        <3>2. r \in Row /\ r.id <= ids /\ ids \in Nat
            BY <2>0, <1>1 DEF TypeOK, OneRow
        <3>3. r2 # new
            BY <3>2, <1>1 DEF Row
        <3>4. r2 \in verdicts[e]
            BY <3>1, <3>3, <1>1
        <3> QED BY <3>4, <2>0, <1>1 DEF OneRow
    <2>6. \A f \in Events : Erase(f) => r2.by = "analyst"
        <3>1. ASSUME NEW f \in Events, Erase(f)
              PROVE  r2.by = "analyst"
            <4>1. r2 \in verdicts[e]
                BY <2>0, <3>1, <1>1 DEF Erase, TypeOK
            <4> QED BY <4>1, <2>0, <1>1 DEF OneRow
        <3> QED BY <3>1
    <2>7. UNCHANGED verdicts => r2.by = "analyst"
        BY <2>0, <1>1 DEF OneRow
    <2> QED
        BY <1>1, <2>2, <2>3, <2>4, <2>5, <2>6, <2>7
        DEF SweepNext, sweepVars, Change, Check, ListQueue, Gathered, SweepEnds, FetchFlagged,
            AnalyzeOne, AnalysisFails, LooksEnd
<1>2. SweepInv /\ [SweepNext]_sweepVars =>
          [\A e \in Events : \A r \in verdicts[e], r2 \in verdicts'[e] :
               Becomes(e, r, r2) /\ r.by = "analyst" => r2.by = "analyst"]_sweepVars
    BY <1>1 DEF Becomes
<1> QED BY SweepInvariant, <1>2, PTL DEF SweepSpec, AnalystStands

\* The script closes an event, and stops the countdown of its link, only if the item
\* was without a live link at some moment of the run.
THEOREM ClosedSafe == SweepSpec => ClosedWereDead
<1>1. ASSUME SweepInv, [SweepNext]_sweepVars, NEW e \in Events \ dead
      PROVE  /\ linkRow'[e] = linkRow[e]
             /\ \A r \in verdicts[e], r2 \in verdicts'[e] :
                   Becomes(e, r, r2) /\ r.by # "sweep" => r2.by # "sweep"
    <2>0. TypeOK /\ OneRow /\ Pending /\ Witnessed
        BY <1>1 DEF SweepInv
    <2>1. ASSUME NEW f \in Events, Mark(f)
          PROVE  f # e
        BY <2>0, <2>1 DEF Mark, Witnessed
    <2>2. linkRow'[e] = linkRow[e]
        BY <2>0, <2>1, <1>1
        DEF TypeOK, SweepNext, sweepVars, Change, Insert, Erase, Review, Check, Mark, ListQueue, Gathered,
            SweepEnds, FetchFlagged, UpdateSecondLook, LooksEnd, AnalyzeOne, AnalysisFails
    <2>3. ASSUME NEW r \in verdicts[e], NEW r2 \in verdicts'[e], r2.id = r.id, r.by # "sweep"
          PROVE  r2.by # "sweep"
        <3>1. ASSUME NEW f \in Events, NEW F \in [Row -> Row], \A q \in Row : Keeps(q, F[q]),
                     verdicts' = [verdicts EXCEPT ![f] = {F[q] : q \in verdicts[f]}], ids' = ids,
                     \A q \in Row : e = f /\ q.by # "sweep" => F[q].by # "sweep"
              PROVE  r2.by # "sweep"
            <4>1. r \in Row /\ r2 = IF e = f THEN F[r] ELSE r
                BY <2>0, <3>1, <2>3, Updated
            <4> QED BY <4>1, <3>1, <2>3
        <3>2. ASSUME NEW f \in Events, Review(f)
              PROVE  r2.by # "sweep"
            <4>1. \A q \in Row : ReviewRow[q].by # "sweep"
                BY DEF ReviewRow, Row
            <4> QED BY <4>1, <2>0, <3>1, <3>2, ReviewUpdates
        <3>3. ASSUME NEW f \in Events, Mark(f)
              PROVE  r2.by # "sweep"
            BY <2>0, <2>1, <3>1, <3>3, CloseUpdates
        <3>4. UpdateSecondLook => r2.by # "sweep"
            <4>1. SUFFICES ASSUME UpdateSecondLook PROVE r2.by # "sweep"
                OBVIOUS
            <4>2. PICK f \in Events, F \in [Row -> Row] :
                      /\ \A q \in Row : Keeps(q, F[q])
                      /\ verdicts' = [verdicts EXCEPT ![f] = {F[q] : q \in verdicts[f]}] /\ ids' = ids
                      /\ \A q \in Row : F[q].by = q.by
                <5> DEFINE F == LookRow(looks.at[2])
                <5>1. /\ looks.at[1] \in Events /\ F \in [Row -> Row]
                      /\ \A q \in Row : Keeps(q, F[q])
                      /\ verdicts' = [verdicts EXCEPT ![looks.at[1]] =
                                          {F[q] : q \in verdicts[looks.at[1]]}]
                      /\ ids' = ids
                    BY <2>0, <4>1, LookUpdates
                <5>2. \A q \in Row : F[q].by = q.by
                    BY DEF LookRow, Row
                <5> HIDE DEF F
                <5> QED BY <5>1, <5>2
            <4> QED BY <4>2, <3>1
        <3>5. ASSUME NEW f \in Events, NEW bad \in BOOLEAN, Insert(f, bad)
              PROVE  r2.by # "sweep"
            <4> DEFINE new == [id |-> ids + 1, bad |-> bad, by |-> "nobody", look |-> 0]
            <4>1. verdicts'[e] = IF e = f THEN verdicts[f] \cup {new} ELSE verdicts[e]
                BY <2>0, <3>5, Inserted
            <4>2. new.by # "sweep"
                OBVIOUS
            <4>3. r2 = new \/ r2 \in verdicts[e]
                BY <4>1, <2>3
            <4> QED BY <4>2, <4>3, <2>0, <2>3 DEF OneRow
        <3>6. ASSUME NEW f \in Events, Erase(f)
              PROVE  r2.by # "sweep"
            <4>1. r2 \in verdicts[e]
                BY <2>0, <3>6, <2>3 DEF Erase, TypeOK
            <4> QED BY <4>1, <2>0, <2>3 DEF OneRow
        <3>7. UNCHANGED verdicts => r2.by # "sweep"
            BY <2>0, <2>3 DEF OneRow
        <3> QED
            BY <1>1, <3>2, <3>3, <3>4, <3>5, <3>6, <3>7
            DEF SweepNext, sweepVars, Change, Check, ListQueue, Gathered, SweepEnds, FetchFlagged,
                AnalyzeOne, AnalysisFails, LooksEnd
    <2> QED BY <2>2, <2>3 DEF Becomes
<1>2. SweepInv /\ [SweepNext]_sweepVars =>
          [\A e \in Events \ dead :
              /\ \A r \in verdicts[e], r2 \in verdicts'[e] :
                    Becomes(e, r, r2) /\ r.by # "sweep" => r2.by # "sweep"
              /\ linkRow'[e] = linkRow[e]]_sweepVars
    BY <1>1
<1> QED BY SweepInvariant, <1>2, PTL DEF SweepSpec, ClosedWereDead

-----------------------------------------------------------------------------
(* The folder: what the snapshot calls known *)

InHand == {"analyse", "count", "flag"}

\* The types
FolderTypes ==
    /\ present \subseteq Items /\ version \in [Items -> Nat]
    /\ snapshot \in [Items -> Nat]
    /\ listing \in Seq(Items) /\ Len(listing) <= MaxChildren
    /\ ctag \in [Items -> Nat] /\ k \in Nat \ {0}
    /\ tried \in [Items -> Nat] /\ missed \subseteq Items
    /\ again \in [Items -> Nat] /\ todo \subseteq Items /\ jobs \subseteq Items

\* The run begins with the first child and stays within the listing.
Handling ==
    /\ pc \in {"idle", "meta", "list"} => k = 1
    /\ pc \in InHand => k \in DOMAIN listing

\* A version that a listing shows is no newer than the file. What the worker has behind
\* it, and what the rescan compared or pushed, was analysed, is about to be, or was passed over.
Seen == \A i \in Items : ctag[i] <= version[i] /\ again[i] <= version[i] /\ snapshot[i] <= version[i]
Known(i, v)   == tried[i] >= v \/ i \in missed
Covered(i, v) == Known(i, v) \/ i \in jobs
Passed ==
    /\ pc \in InHand \cup {"child"} =>
           \A j \in DOMAIN listing : j < k => Known(listing[j], ctag[listing[j]])
    /\ pc \in {"count", "flag"} => Known(listing[k], ctag[listing[k]])
Handed == scan = "push" => \A i \in Items : again[i] > 0 => i \in todo \/ Covered(i, again[i])

KnownInv == FolderTypes /\ Handling /\ Seen /\ Passed /\ Handed /\ SnapshotCovered

HIDE SweepAssumption DEF tables
USE FolderAssumption DEF drive, row, rows, outcome, shared, locals, history, bounds, rescanVars, Positions

\* Nothing is known and nothing is listed at first.
LEMMA RescanInit == Init => KnownInv
<1> SUFFICES ASSUME Init PROVE KnownInv
    OBVIOUS
<1>1. /\ version = [i \in Items |-> 1] /\ ctag = [i \in Items |-> 0] /\ again = [i \in Items |-> 0]
      /\ snapshot = [i \in Items |-> 0] /\ pc = "idle" /\ scan = "idle" /\ listing = <<>> /\ k = 1
    BY DEF Init, FolderInit
<1>2. FolderTypes
    BY <1>1 DEF Init, FolderInit, FolderTypes
<1>3. Handling /\ Seen /\ Passed /\ Handed /\ SnapshotCovered
    BY <1>1 DEF Handling, Seen, Passed, Handed, SnapshotCovered, InHand
<1> QED BY <1>2, <1>3 DEF KnownInv

\* A listing is a sequence of the files that are present.
LEMMA OrderFacts ==
    ASSUME NEW S \in SUBSET Items, NEW o \in Orders(S)
    PROVE  o \in Seq(Items) /\ Len(o) = Cardinality(S) /\ Cardinality(S) \in Nat
<1>1. IsFiniteSet(S) /\ Cardinality(S) \in Nat
    BY FS_Subset, FS_CardinalityType
<1>2. o \in [1 .. Cardinality(S) -> S]
    BY DEF Orders
<1>3. o \in [1 .. Cardinality(S) -> Items]
    BY <1>2
<1>4. o \in Seq(Items)
    BY <1>1, <1>3, SeqDef
<1>5. Len(o) \in Nat /\ DOMAIN o = 1 .. Len(o)
    BY <1>4, LenProperties
<1>6. DOMAIN o = 1 .. Cardinality(S)
    BY <1>3
<1>7. ASSUME NEW m \in Nat, NEW n \in Nat, 1 .. m = 1 .. n PROVE m = n
    <2>1. (m > 0 => m \in 1 .. m) /\ (n > 0 => n \in 1 .. n)
        OBVIOUS
    <2>2. (m > 0 => m <= n) /\ (n > 0 => n <= m)
        BY <1>7, <2>1
    <2> QED BY <2>2
<1>8. Len(o) = Cardinality(S)
    BY <1>1, <1>5, <1>6, <1>7, Zenon
<1> QED BY <1>1, <1>4, <1>8

\* An analysis begins with the newest version.
LEMMA TriedFacts ==
    ASSUME tried \in [Items -> Nat], version \in [Items -> Nat], NEW i \in Items, Tried(i)
    PROVE  /\ tried' \in [Items -> Nat] /\ \A h \in Items : tried'[h] >= tried[h]
           /\ tried'[i] >= version[i]
BY DEF Tried

\* The child at hand is a file of the listing.
LEMMA CurrentFile ==
    ASSUME KnownInv, pc \in InHand \/ Remaining
    PROVE  Current \in Items /\ k \in DOMAIN listing /\ k \in Positions
<1>1. listing \in Seq(Items) /\ Len(listing) \in Nat /\ k \in Nat \ {0} /\ DOMAIN listing = 1 .. Len(listing)
    BY LenProperties DEF KnownInv, FolderTypes
<1>2. k \in 1 .. Len(listing)
    BY <1>1 DEF KnownInv, Handling, Remaining
<1>3. Current \in Items
    BY <1>1, <1>2, ElementOfSeq DEF Current
<1> QED BY <1>1, <1>2, <1>3 DEF KnownInv, FolderTypes

-----------------------------------------------------------------------------
(* The folder: what the steps do to the histories, the loop and the snapshot *)

\* The histories grow, by one file at a time.
LEMMA HistoryGrows ==
    ASSUME KnownInv, [Next]_vars
    PROVE  /\ tried' \in [Items -> Nat] /\ missed \subseteq missed' /\ missed' \subseteq Items
           /\ \A h \in Items : tried'[h] >= tried[h]
<1>1. tried \in [Items -> Nat] /\ version \in [Items -> Nat] /\ missed \subseteq Items
    BY DEF KnownInv, FolderTypes
<1>2. pc \in InHand \/ Remaining => Current \in Items
    BY CurrentFile
<1>3. \/ UNCHANGED history
      \/ UNCHANGED tried /\ \E i \in Items : missed' = missed \cup {i}
      \/ UNCHANGED missed /\ \E i \in Items : Tried(i)
    <2>1. CASE OwnerStep
        BY <2>1 DEF OwnerStep, Modify, AddFile, DeleteFile, EndShare
    <2>2. CASE Start \/ ReadFolder \/ ReadBlind \/ NoLink
        BY <2>2 DEF Start, ReadFolder, ReadBlind, NoLink, Return
    <2>3. CASE Fallback \/ List \/ EmptyFolder \/ CreateChild
        BY <2>3 DEF Fallback, List, EmptyFolder, CreateChild
    <2>4. CASE CountChild \/ FlagChild \/ StoreSnapshot \/ SumUp
        BY <2>4 DEF CountChild, FlagChild, StoreSnapshot, SumUp
    <2>5. CASE SendSummary \/ Finish \/ HandlerRaises \/ RecoverParent
        BY <2>5 DEF SendSummary, Finish, HandlerRaises, RecoverParent, Return
    <2>6. CASE WorkerCrash
        BY <2>6 DEF WorkerCrash, Return
    <2>7. CASE FindDue \/ LinkEnded \/ ListAgain \/ Compare
        BY <2>7 DEF FindDue, LinkEnded, ListAgain, Compare, folderVars, Rest
    <2>8. CASE WriteSnapshot \/ Recorded \/ RescanFails \/ CronCrash
        BY <2>8 DEF WriteSnapshot, Recorded, RescanFails, CronCrash, Rest
    <2>9. CASE Week
        BY <2>9 DEF Week
    <2>10. CASE SkipChild
        BY <2>10, <1>2 DEF SkipChild
    <2>11. CASE Analysed
        BY <2>11, <1>2 DEF Analysed, InHand
    <2>12. CASE NoResponse
        BY <2>12, <1>2 DEF NoResponse, InHand
    <2>13. CASE ChildRaises
        BY <2>13, <1>2 DEF ChildRaises, InHand
    <2>14. CASE \E i \in Items : Push(i)
        BY <2>14 DEF Push, folderVars
    <2>15. CASE \E i \in Items : RunJob(i)
        BY <2>15 DEF RunJob
    <2>16. CASE UNCHANGED vars
        BY <2>16 DEF vars, folderVars
    <2> QED BY <2>1, <2>2, <2>3, <2>4, <2>5, <2>6, <2>7, <2>8, <2>9, <2>10, <2>11, <2>12, <2>13,
        <2>14, <2>15, <2>16 DEF Next, HandlerStep, ScanStep
<1> QED BY <1>1, <1>3, TriedFacts

\* So does a file's version.
LEMMA VersionsGrow ==
    ASSUME KnownInv, [Next]_vars
    PROVE  version' \in [Items -> Nat] /\ present' \subseteq Items /\ \A h \in Items : version'[h] >= version[h]
<1>1. version \in [Items -> Nat] /\ present \subseteq Items
    BY DEF KnownInv, FolderTypes
<1>2. \/ UNCHANGED <<version, present>>
      \/ UNCHANGED version /\ \E i \in Items : present' \in {present \cup {i}, present \ {i}}
      \/ UNCHANGED present /\ \E i \in Items : version' = [version EXCEPT ![i] = @ + 1]
    <2>1. CASE OwnerStep
        BY <2>1 DEF OwnerStep, Modify, AddFile, DeleteFile, EndShare
    <2>2. CASE Start \/ ReadFolder \/ ReadBlind \/ NoLink
        BY <2>2 DEF Start, ReadFolder, ReadBlind, NoLink, Return
    <2>3. CASE Fallback \/ List \/ EmptyFolder \/ CreateChild
        BY <2>3 DEF Fallback, List, EmptyFolder, CreateChild
    <2>4. CASE SkipChild \/ Analysed \/ NoResponse \/ CountChild
        BY <2>4 DEF SkipChild, Analysed, NoResponse, CountChild
    <2>5. CASE FlagChild \/ ChildRaises \/ StoreSnapshot \/ SumUp
        BY <2>5 DEF FlagChild, ChildRaises, StoreSnapshot, SumUp
    <2>6. CASE SendSummary \/ Finish \/ HandlerRaises \/ RecoverParent
        BY <2>6 DEF SendSummary, Finish, HandlerRaises, RecoverParent, Return
    <2>7. CASE WorkerCrash
        BY <2>7 DEF WorkerCrash, Return
    <2>8. CASE FindDue \/ LinkEnded \/ ListAgain \/ Compare
        BY <2>8 DEF FindDue, LinkEnded, ListAgain, Compare, folderVars, Rest
    <2>9. CASE WriteSnapshot \/ Recorded \/ RescanFails \/ CronCrash
        BY <2>9 DEF WriteSnapshot, Recorded, RescanFails, CronCrash, Rest
    <2>10. CASE Week
        BY <2>10 DEF Week
    <2>11. CASE \E i \in Items : Push(i)
        BY <2>11 DEF Push, folderVars
    <2>12. CASE \E i \in Items : RunJob(i)
        BY <2>12 DEF RunJob
    <2>13. CASE UNCHANGED vars
        BY <2>13 DEF vars, folderVars
    <2> QED BY <2>1, <2>2, <2>3, <2>4, <2>5, <2>6, <2>7, <2>8, <2>9, <2>10, <2>11, <2>12, <2>13
        DEF Next, HandlerStep, ScanStep
<1> QED BY <1>1, <1>2

\* A step leaves the loop over the children alone, or goes on within a child, to the
\* next one, or out of the loop; a new listing begins with the first child.
Stays   == UNCHANGED <<listing, ctag, k>>
Within  == Stays /\ \/ Remaining /\ pc' = "analyse"
                    \/ pc = "analyse" /\ pc' = "count" /\ Tried(Current)
                    \/ pc = "count" /\ pc' = "flag"
Onwards == /\ UNCHANGED <<listing, ctag>> /\ k' = k + 1 /\ pc' = "child"
           /\ \/ pc = "analyse" /\ Tried(Current)
              \/ pc \in {"count", "flag"}
              \/ Remaining /\ missed' = missed \cup {Current}
Outside == /\ pc' \notin InHand \cup {"child"}
           /\ \/ Stays /\ (pc \in {"idle", "meta"} \/ pc' \notin {"idle", "meta", "list"})
              \/ listing' = <<>> /\ ctag' = [i \in Items |-> 0] /\ k' = 1
Anew    == /\ pc = "list" /\ UNCHANGED k /\ pc' \in {"child", "empty"}
           /\ listing' \in Orders(present) /\ Cardinality(present) <= MaxChildren
           /\ ctag' = [i \in Items |-> IF i \in present THEN version[i] ELSE 0]
Moves   == (Stays /\ UNCHANGED pc) \/ Within \/ Onwards \/ Outside \/ Anew

\* Every step does one of these to the loop.
LEMMA LoopMoves == ASSUME [Next]_vars PROVE Moves
<1>1. CASE OwnerStep
    BY <1>1 DEF OwnerStep, Modify, AddFile, DeleteFile, EndShare, Stays, Moves
<1>2. CASE RecoverParent
    BY <1>2 DEF RecoverParent, Stays, Moves
<1>3. CASE FindDue \/ LinkEnded \/ ListAgain \/ Compare
    BY <1>3 DEF FindDue, LinkEnded, ListAgain, Compare, folderVars, Rest, Stays, Moves
<1>4. CASE WriteSnapshot \/ Recorded \/ RescanFails \/ CronCrash
    BY <1>4 DEF WriteSnapshot, Recorded, RescanFails, CronCrash, Rest, Stays, Moves
<1>5. CASE Week
    BY <1>5 DEF Week, Stays, Moves
<1>6. CASE Start
    BY <1>6 DEF Start, Stays, Moves, Outside, InHand
<1>7. CASE ReadFolder
    BY <1>7 DEF ReadFolder, Stays, Moves, Outside, InHand
<1>8. CASE ReadBlind
    BY <1>8 DEF ReadBlind, Stays, Moves, Outside, InHand
<1>9. CASE NoLink
    BY <1>9 DEF NoLink, Return, Stays, Moves, Outside, InHand
<1>10. CASE Fallback
    BY <1>10 DEF Fallback, Stays, Moves, Outside, InHand
<1>11. CASE List
    BY <1>11 DEF List, Stays, Moves, Anew
<1>12. CASE EmptyFolder
    BY <1>12 DEF EmptyFolder, Stays, Moves, Outside, InHand
<1>13. CASE CreateChild
    BY <1>13 DEF CreateChild, Stays, Moves, Within
<1>14. CASE SkipChild
    BY <1>14 DEF SkipChild, Stays, Moves, Onwards, NextChild
<1>15. CASE Analysed
    BY <1>15 DEF Analysed, Stays, Moves, Within
<1>16. CASE NoResponse
    BY <1>16 DEF NoResponse, Stays, Moves, Within
<1>17. CASE CountChild
    BY <1>17 DEF CountChild, Stays, Moves, Within, Onwards, NextChild
<1>18. CASE FlagChild
    BY <1>18 DEF FlagChild, Stays, Moves, Onwards, NextChild
<1>19. CASE ChildRaises
    BY <1>19 DEF ChildRaises, Stays, Moves, Onwards, NextChild
<1>20. CASE StoreSnapshot
    BY <1>20 DEF StoreSnapshot, Stays, Moves, Outside, InHand
<1>21. CASE SumUp
    BY <1>21 DEF SumUp, Stays, Moves, Outside, InHand
<1>22. CASE SendSummary
    BY <1>22 DEF SendSummary, Stays, Moves, Outside, InHand
<1>23. CASE Finish
    BY <1>23 DEF Finish, Return, Stays, Moves, Outside, InHand
<1>24. CASE HandlerRaises
    BY <1>24 DEF HandlerRaises, Return, Stays, Moves, Outside, InHand
<1>25. CASE WorkerCrash
    BY <1>25 DEF WorkerCrash, Return, Stays, Moves, Outside, InHand
<1>26. CASE \E i \in Items : Push(i)
    BY <1>26 DEF Push, folderVars, Stays, Moves
<1>27. CASE \E i \in Items : RunJob(i)
    BY <1>27 DEF RunJob, Stays, Moves
<1>28. CASE UNCHANGED vars
    BY <1>28 DEF vars, folderVars, Stays, Moves
<1> QED BY <1>1, <1>2, <1>3, <1>4, <1>5, <1>6, <1>7, <1>8, <1>9, <1>10, <1>11, <1>12, <1>13,
    <1>14, <1>15, <1>16, <1>17, <1>18, <1>19, <1>20, <1>21, <1>22, <1>23, <1>24, <1>25, <1>26,
    <1>27, <1>28 DEF Next, HandlerStep, ScanStep

\* The rescan lists the folder, compares it with the snapshot, pushes jobs that the worker
\* runs, and ends.
Lists    == again' = [i \in Items |-> IF i \in present THEN version[i] ELSE 0] /\ scan' = "compare" /\ UNCHANGED <<todo, jobs>>
Compares == todo' = {i \in Listed : Differs(i)} /\ scan' = "push" /\ UNCHANGED <<again, jobs>>
Pushes   == \E i \in todo : todo' = todo \ {i} /\ jobs' = jobs \cup {i} /\ UNCHANGED <<scan, again>>
Runs     == \E i \in jobs : jobs' = jobs \ {i} /\ Tried(i) /\ UNCHANGED <<scan, again, todo>>
Ends     == UNCHANGED jobs /\ (Rest \/ (UNCHANGED <<again, todo>> /\ scan' \in {"link", "record"}))
ScanMoves == UNCHANGED <<scan, again, todo, jobs>> \/ Lists \/ Compares \/ Pushes \/ Runs \/ Ends

\* Every step does one of these to the rescan.
LEMMA RescanMoves == ASSUME [Next]_vars PROVE ScanMoves
<1>1. CASE (OwnerStep \/ HandlerStep \/ WorkerCrash) /\ UNCHANGED rescanVars
    BY <1>1 DEF ScanMoves
<1>2. CASE FindDue \/ LinkEnded \/ WriteSnapshot \/ Recorded
    BY <1>2 DEF FindDue, LinkEnded, WriteSnapshot, Recorded, ScanMoves, Ends
<1>3. CASE RescanFails \/ CronCrash \/ Week
    BY <1>3 DEF RescanFails, CronCrash, Week, ScanMoves, Ends
<1>4. CASE ListAgain \/ Compare
    BY <1>4 DEF ListAgain, Compare, ScanMoves, Lists, Compares
<1>5. CASE \E i \in Items : Push(i)
    BY <1>5 DEF Push, ScanMoves, Pushes
<1>6. CASE \E i \in Items : RunJob(i)
    BY <1>6 DEF RunJob, ScanMoves, Runs
<1>7. CASE UNCHANGED vars
    BY <1>7 DEF vars, ScanMoves
<1> QED BY <1>1, <1>2, <1>3, <1>4, <1>5, <1>6, <1>7 DEF Next, ScanStep

\* The snapshot is written by the worker, behind its loop, and by the rescan, behind its pushes.
Stores == /\ pc = "child" /\ k > Len(listing)
          /\ \E n \in 0 .. Len(listing) :
                snapshot' = [i \in Items |-> IF i \in Stored(n) THEN ctag[i] ELSE snapshot[i]]
Writes == /\ scan = "push" /\ todo = {}
          /\ \E T \in SUBSET Listed : snapshot' = [i \in Items |-> IF i \in T THEN again[i] ELSE snapshot[i]]

\* No other step writes the snapshot.
LEMMA SnapshotWrites == ASSUME [Next]_vars PROVE UNCHANGED snapshot \/ Stores \/ Writes
<1>1. CASE OwnerStep
    BY <1>1 DEF OwnerStep, Modify, AddFile, DeleteFile, EndShare
<1>2. CASE Start \/ ReadFolder \/ ReadBlind \/ NoLink
    BY <1>2 DEF Start, ReadFolder, ReadBlind, NoLink, Return
<1>3. CASE Fallback \/ List \/ EmptyFolder \/ CreateChild
    BY <1>3 DEF Fallback, List, EmptyFolder, CreateChild
<1>4. CASE SkipChild \/ Analysed \/ NoResponse \/ CountChild
    BY <1>4 DEF SkipChild, Analysed, NoResponse, CountChild
<1>5. CASE FlagChild \/ ChildRaises \/ SumUp \/ SendSummary
    BY <1>5 DEF FlagChild, ChildRaises, SumUp, SendSummary
<1>6. CASE Finish \/ HandlerRaises \/ RecoverParent \/ WorkerCrash
    BY <1>6 DEF Finish, HandlerRaises, RecoverParent, WorkerCrash, Return
<1>7. CASE FindDue \/ LinkEnded \/ ListAgain \/ Compare
    BY <1>7 DEF FindDue, LinkEnded, ListAgain, Compare, folderVars, Rest
<1>8. CASE Recorded \/ Week
    BY <1>8 DEF Recorded, Week, Rest
<1>9. CASE StoreSnapshot
    BY <1>9 DEF StoreSnapshot, Stores
<1>10. CASE WriteSnapshot
    BY <1>10 DEF WriteSnapshot, Upsert, Writes
<1>11. CASE RescanFails
    BY <1>11 DEF RescanFails, Rest, PartlyWritten, Upsert, Writes
<1>12. CASE CronCrash
    BY <1>12 DEF CronCrash, Rest, PartlyWritten, Upsert, Writes
<1>13. CASE \E i \in Items : Push(i)
    BY <1>13 DEF Push, folderVars
<1>14. CASE \E i \in Items : RunJob(i)
    BY <1>14 DEF RunJob
<1>15. CASE UNCHANGED vars
    BY <1>15 DEF vars, folderVars
<1> QED BY <1>1, <1>2, <1>3, <1>4, <1>5, <1>6, <1>7, <1>8, <1>9, <1>10, <1>11, <1>12, <1>13,
    <1>14, <1>15 DEF Next, HandlerStep, ScanStep

-----------------------------------------------------------------------------
(* The folder: the step keeps what is known *)

\* What is known stays known, and so does what is covered, for a version the file has had.
LEMMA KnownStays ==
    ASSUME KnownInv, [Next]_vars, NEW i \in Items, NEW v \in Nat
    PROVE  /\ Known(i, v) => tried'[i] >= v \/ i \in missed'
           /\ Covered(i, v) /\ v <= version[i] => tried'[i] >= v \/ i \in missed' \/ i \in jobs'
<1>1. /\ tried \in [Items -> Nat] /\ version \in [Items -> Nat] /\ jobs \subseteq Items
      /\ tried' \in [Items -> Nat] /\ missed \subseteq missed' /\ tried'[i] >= tried[i]
    BY HistoryGrows DEF KnownInv, FolderTypes
<1>2. jobs \subseteq jobs' \/ Runs
    BY RescanMoves DEF ScanMoves, Lists, Compares, Pushes, Ends, Rest
<1>3. ASSUME Runs, i \in jobs PROVE i \in jobs' \/ tried'[i] >= version[i]
    BY <1>1, <1>3, TriedFacts DEF Runs
<1>4. Known(i, v) => tried'[i] >= v \/ i \in missed'
    BY <1>1 DEF Known
<1>5. Covered(i, v) /\ v <= version[i] => tried'[i] >= v \/ i \in missed' \/ i \in jobs'
    BY <1>1, <1>2, <1>3, <1>4 DEF Covered
<1> QED BY <1>4, <1>5

\* The types and the loop's counter.
LEMMA TypesStay == ASSUME KnownInv, [Next]_vars PROVE FolderTypes' /\ Handling'
<1>1. FolderTypes /\ Handling
    BY DEF KnownInv
<1>2. /\ snapshot' \in [Items -> Nat]
    BY <1>1, SnapshotWrites DEF FolderTypes, Stores, Writes
<1>3. again' \in [Items -> Nat] /\ todo' \subseteq Items /\ jobs' \subseteq Items
    BY <1>1, RescanMoves DEF FolderTypes, ScanMoves, Lists, Compares, Pushes, Runs, Ends, Rest,
        Listed
<1>4. /\ listing' \in Seq(Items) /\ Len(listing') <= MaxChildren /\ ctag' \in [Items -> Nat]
      /\ k' \in Nat \ {0} /\ Handling'
    <2>1. CASE Stays /\ UNCHANGED pc
        BY <1>1, <2>1 DEF FolderTypes, Handling, Stays
    <2>2. CASE Within
        BY <1>1, <2>2, CurrentFile DEF FolderTypes, Handling, Stays, Within, InHand
    <2>3. CASE Onwards
        BY <1>1, <2>3 DEF FolderTypes, Handling, Onwards, InHand
    <2>4. CASE Outside
        <3>1. CASE Stays
            BY <1>1, <2>4, <3>1 DEF FolderTypes, Handling, Stays, Outside, InHand
        <3>2. CASE listing' = <<>> /\ ctag' = [i \in Items |-> 0] /\ k' = 1
            BY <2>4, <3>2, EmptySeq DEF Handling, Outside, InHand
        <3> QED BY <2>4, <3>1, <3>2 DEF Outside
    <2>5. CASE Anew
        <3>1. listing' \in Seq(Items) /\ Len(listing') <= MaxChildren
            BY <1>1, <2>5, OrderFacts DEF FolderTypes, Anew
        <3> QED BY <1>1, <2>5, <3>1 DEF FolderTypes, Handling, Anew, InHand
    <2> QED BY <2>1, <2>2, <2>3, <2>4, <2>5, LoopMoves DEF Moves
<1> QED BY <1>2, <1>3, <1>4, HistoryGrows, VersionsGrow DEF FolderTypes

\* No listing is newer than the files.
LEMMA SeenStays == ASSUME KnownInv, [Next]_vars PROVE Seen'
<1>1. FolderTypes /\ Seen
    BY DEF KnownInv
<1>2. version' \in [Items -> Nat] /\ \A i \in Items : version[i] \in Nat /\ version'[i] >= version[i]
    BY <1>1, VersionsGrow DEF FolderTypes
<1>3. \A i \in Items : ctag'[i] <= version[i]
    <2>1. \A i \in Items : version[i] \in Nat /\ ctag[i] <= version[i]
        BY <1>1 DEF FolderTypes, Seen
    <2>2. CASE UNCHANGED ctag
        BY <2>1, <2>2
    <2>3. CASE ctag' = [i \in Items |-> 0]
        BY <2>1, <2>3
    <2>4. CASE Anew
        BY <2>1, <2>4 DEF Anew
    <2> QED BY <2>2, <2>3, <2>4, LoopMoves DEF Moves, Stays, Within, Onwards, Outside
<1>4. \A i \in Items : again'[i] <= version[i]
    <2>1. \A i \in Items : version[i] \in Nat /\ again[i] <= version[i]
        BY <1>1 DEF FolderTypes, Seen
    <2>2. CASE UNCHANGED again
        BY <2>1, <2>2
    <2>3. CASE Rest
        BY <2>1, <2>3 DEF Rest
    <2>4. CASE Lists
        BY <2>1, <2>4 DEF Lists
    <2> QED BY <2>2, <2>3, <2>4, RescanMoves DEF ScanMoves, Compares, Pushes, Runs, Ends
<1>5. \A i \in Items : snapshot'[i] <= version[i]
    BY <1>1, SnapshotWrites DEF FolderTypes, Seen, Stores, Writes
<1>6. FolderTypes'
    BY TypesStay
<1>7. ASSUME NEW i \in Items, NEW v \in Nat, v <= version[i] PROVE v <= version'[i]
    BY <1>2, <1>7
<1>8. \A i \in Items : ctag'[i] \in Nat /\ again'[i] \in Nat /\ snapshot'[i] \in Nat
    BY <1>6 DEF FolderTypes
<1>9. ASSUME NEW i \in Items
      PROVE  ctag'[i] <= version'[i] /\ again'[i] <= version'[i] /\ snapshot'[i] <= version'[i]
    BY <1>3, <1>4, <1>5, <1>7, <1>8
<1> QED BY <1>9 DEF Seen

\* What is behind the loop is known.
LEMMA PassedStays == ASSUME KnownInv, [Next]_vars PROVE Passed'
<1> DEFINE Kn(i) == tried'[i] >= ctag[i] \/ i \in missed'
<1>1. FolderTypes /\ Passed /\ Seen /\ DOMAIN listing = 1 .. Len(listing) /\ Len(listing) \in Nat
    BY LenProperties DEF KnownInv, FolderTypes
<1>2. \A j \in DOMAIN listing : listing[j] \in Items
    BY <1>1, ElementOfSeq DEF FolderTypes
<1>3. ASSUME NEW i \in Items, Known(i, ctag[i]) PROVE Kn(i)
    BY <1>1, <1>3, KnownStays DEF FolderTypes
<1>4. ASSUME Tried(Current), pc = "analyse" PROVE Kn(Current)
    <2>1. Current \in Items
        BY <1>4, CurrentFile DEF InHand
    <2>2. tried'[Current] >= version[Current] /\ ctag[Current] <= version[Current]
        BY <1>1, <1>4, <2>1, TriedFacts DEF FolderTypes, Seen
    <2> QED BY <1>1, <2>1, <2>2, HistoryGrows DEF FolderTypes
<1>5. CASE Stays /\ UNCHANGED pc
    <2>1. pc \in InHand \cup {"child"} => \A j \in DOMAIN listing : j < k => Kn(listing[j])
        BY <1>1, <1>2, <1>3 DEF Passed
    <2>2. pc \in {"count", "flag"} => Kn(listing[k])
        BY <1>1, <1>2, <1>3 DEF Passed, KnownInv, Handling, InHand
    <2> QED BY <1>5, <2>1, <2>2 DEF Passed, Known, Stays
<1>6. CASE Within
    <2>1. \A j \in DOMAIN listing : j < k => Kn(listing[j])
        BY <1>1, <1>2, <1>3, <1>6 DEF Passed, Within, Remaining, InHand
    <2>2. pc' \in {"count", "flag"} => Kn(listing[k])
        BY <1>1, <1>2, <1>3, <1>4, <1>6 DEF Passed, Within, KnownInv, Handling, InHand, Current
    <2> QED BY <1>6, <2>1, <2>2 DEF Passed, Known, Stays, Within
<1>7. CASE Onwards
    <2>1. k \in DOMAIN listing /\ Current \in Items /\ k \in Nat
        BY <1>1, <1>7, CurrentFile DEF Onwards, InHand, FolderTypes
    <2>2. Kn(Current)
        BY <1>1, <1>3, <1>4, <1>7, <2>1 DEF Onwards, Passed, Current
    <2>3. \A j \in DOMAIN listing : j < k => Kn(listing[j])
        BY <1>1, <1>2, <1>3, <1>7 DEF Onwards, Passed, InHand, Remaining
    <2>4. \A j \in DOMAIN listing : j < k + 1 => Kn(listing[j])
        BY <1>1, <2>1, <2>2, <2>3 DEF Current
    <2> QED BY <1>7, <2>4 DEF Onwards, Passed, Known
<1>8. CASE Outside
    BY <1>8 DEF Outside, Passed, InHand
<1>9. CASE Anew
    <2>1. k' = 1 /\ pc' \in {"child", "empty"}
        BY <1>9 DEF Anew, KnownInv, Handling
    <2>2. DOMAIN listing' \subseteq Nat \ {0}
        BY TypesStay, LenProperties DEF FolderTypes
    <2> QED BY <2>1, <2>2 DEF Passed
<1> QED BY <1>5, <1>6, <1>7, <1>8, <1>9, LoopMoves DEF Moves

\* What the rescan has compared is pushed or covered, and so is what the snapshot names.
LEMMA CoveredStays == ASSUME KnownInv, [Next]_vars PROVE Handed' /\ SnapshotCovered'
<1> DEFINE Cov(i, v) == tried'[i] >= v \/ i \in missed' \/ i \in jobs'
<1>1. FolderTypes /\ Seen /\ Passed /\ Handed /\ SnapshotCovered
    BY DEF KnownInv
<1>2. ASSUME NEW i \in Items, NEW v \in Nat, v <= version[i], Covered(i, v) PROVE Cov(i, v)
    BY <1>2, KnownStays
<1>3. \A i \in Items : again[i] \in Nat /\ snapshot[i] \in Nat /\ ctag[i] \in Nat
                       /\ again[i] <= version[i] /\ snapshot[i] <= version[i] /\ ctag[i] <= version[i]
    BY <1>1 DEF FolderTypes, Seen
<1>4. \A i \in Items : snapshot[i] > 0 => Covered(i, snapshot[i])
    BY <1>1 DEF SnapshotCovered, Covered, Known
<1>5. Handed'
    <2>1. ASSUME scan = "push", NEW i \in Items, again[i] > 0, i \notin todo PROVE Cov(i, again[i])
        BY <1>1, <1>2, <1>3, <2>1 DEF Handed
    <2>2. ASSUME Compares, NEW i \in Items, again[i] > 0, i \notin todo' PROVE Cov(i, again[i])
        BY <1>2, <1>3, <1>4, <2>2 DEF Compares, Listed, Differs
    <2>3. CASE UNCHANGED <<scan, again, todo>>
        BY <2>1, <2>3 DEF Handed, Covered, Known
    <2>4. CASE Compares
        BY <2>2, <2>4 DEF Handed, Covered, Known, Compares
    <2>5. CASE Pushes
        BY <2>1, <2>5 DEF Handed, Covered, Known, Pushes
    <2>6. CASE Lists \/ Ends
        BY <2>6 DEF Handed, Lists, Ends, Rest
    <2> QED BY <2>3, <2>4, <2>5, <2>6, RescanMoves DEF ScanMoves, Runs
<1>6. ASSUME NEW i \in Items, snapshot'[i] > 0 PROVE Cov(i, snapshot'[i])
    <2>1. CASE snapshot'[i] = snapshot[i]
        BY <1>2, <1>3, <1>4, <1>6, <2>1
    <2>2. CASE Stores /\ snapshot'[i] = ctag[i] /\ snapshot'[i] # snapshot[i]
        <3>1. PICK j \in 1 .. Len(listing) : listing[j] = i
            <4>1. PICK n \in 0 .. Len(listing) :
                      snapshot' = [h \in Items |-> IF h \in Stored(n) THEN ctag[h] ELSE snapshot[h]]
                BY <2>2 DEF Stores
            <4>2. i \in Stored(n)
                BY <2>2, <4>1
            <4>3. Len(listing) \in Nat
                BY <1>1, LenProperties DEF FolderTypes
            <4> QED BY <4>2, <4>3 DEF Stored
        <3>2. j \in DOMAIN listing /\ j < k
            BY <1>1, <2>2, LenProperties DEF Stores, FolderTypes
        <3>3. Known(i, ctag[i])
            BY <1>1, <2>2, <3>1, <3>2 DEF Stores, Passed
        <3> QED BY <1>2, <1>3, <2>2, <3>3 DEF Covered
    <2>3. CASE Writes /\ snapshot'[i] = again[i] /\ again[i] > 0
        BY <1>1, <1>2, <1>3, <2>3 DEF Writes, Handed
    <2>4. \/ snapshot'[i] = snapshot[i]
          \/ Stores /\ snapshot'[i] = ctag[i]
          \/ Writes /\ snapshot'[i] = again[i]
        BY SnapshotWrites DEF Stores, Writes
    <2> QED BY <1>6, <2>1, <2>2, <2>3, <2>4
<1> QED BY <1>5, <1>6 DEF SnapshotCovered

\* Nothing that the snapshot names is lost.
LEMMA KnownStep == ASSUME KnownInv, [Next]_vars PROVE KnownInv'
BY TypesStay, SeenStays, PassedStays, CoveredStays DEF KnownInv

\* What the snapshot calls known was analysed in that version, waits on the worker's
\* queue, or was passed over by the worker: the rescan loses nothing.
THEOREM SnapshotSafe == Spec => []SnapshotCovered
<1>1. Init => KnownInv
    BY RescanInit
<1>2. KnownInv /\ [Next]_vars => KnownInv'
    BY KnownStep
<1>3. KnownInv => SnapshotCovered
    BY DEF KnownInv
<1> QED BY <1>1, <1>2, <1>3, PTL DEF Spec

-----------------------------------------------------------------------------
(* The folder: what the summary names *)

\* The child rows belong to runs that have begun, and a verdict has a row.
RowTypes ==
    /\ child \in [Positions -> {"absent", "processing"} \cup Terminal]
    /\ risky \subseteq Positions /\ attempt \in [Positions -> Nat]
    /\ nflagged \in Nat /\ runs \in Nat /\ faults \in Nat
RowsBegan == \A j \in Positions : attempt[j] <= runs /\ (j \in risky => child[j] # "absent")

\* The risky children of this run that are not flagged, but for the one at hand
Unflagged == ThisRun \ (flagged \cup IF pc \in {"count", "flag"} THEN {k} ELSE {})
Looping   == pc \in InHand \cup {"child", "sum", "alert"}

\* A run begins without flags and without children of its own, and a flag is counted
\* before it is set.
Phases ==
    /\ pc # "idle" => status = "processing"
    /\ pc \in {"idle", "meta", "list"} => flagged = {}
    /\ pc \in {"meta", "list", "empty"} => ThisRun = {}
    /\ Looping => (nflagged = 0 => flagged = {})
    /\ pc = "flag" => nflagged > 0

\* Every risky child that got no flag cost a fault.
Losses ==
    /\ Looping => Cardinality(Unflagged) <= faults
    /\ pc = "finish" /\ mode = "folder_enumeration" => Cardinality(ThisRun \ summary) <= faults

SummaryInv == RowTypes /\ RowsBegan /\ Phases /\ Losses /\ SummaryComplete

\* Before the first run no child has a row and no summary is due.
LEMMA SummaryInit == Init => SummaryInv
<1> SUFFICES ASSUME Init PROVE SummaryInv
    OBVIOUS
<1>1. RowTypes /\ RowsBegan
    BY DEF Init, FolderInit, RowTypes, RowsBegan, Terminal
<1>2. Phases /\ Losses /\ SummaryComplete
    BY DEF Init, FolderInit, Phases, Losses, SummaryComplete, Looping, InHand
<1> QED BY <1>1, <1>2 DEF SummaryInv

\* A part of a small set is small, and stays small with one element more.
LEMMA SmallSets ==
    ASSUME NEW S \in SUBSET Positions, NEW x \in Positions, NEW n \in Nat, Cardinality(S) <= n
    PROVE  /\ \A T \in SUBSET S : Cardinality(T) <= n /\ Cardinality(T) <= n + 1
           /\ \A T \in SUBSET (S \cup {x}) : Cardinality(T) <= n + 1
<1>1. IsFiniteSet(Positions)
    BY FS_Interval
<1>2. IsFiniteSet(S) /\ IsFiniteSet(S \cup {x})
    BY <1>1, FS_Subset, FS_AddElement
<1>3. Cardinality(S) \in Nat /\ Cardinality(S \cup {x}) \in Nat /\ Cardinality(S \cup {x}) <= Cardinality(S) + 1
    BY <1>2, FS_AddElement, FS_CardinalityType
<1>4. ASSUME NEW R, IsFiniteSet(R), NEW T \in SUBSET R
      PROVE  Cardinality(T) <= Cardinality(R) /\ Cardinality(T) \in Nat
    BY <1>4, FS_Subset, FS_CardinalityType
<1>5. ASSUME NEW T \in SUBSET S PROVE Cardinality(T) <= n /\ Cardinality(T) <= n + 1
    <2>1. Cardinality(T) <= Cardinality(S) /\ Cardinality(T) \in Nat
        BY <1>2, <1>4
    <2> QED BY <1>3, <2>1
<1>6. ASSUME NEW T \in SUBSET (S \cup {x}) PROVE Cardinality(T) <= n + 1
    <2>1. Cardinality(T) <= Cardinality(S \cup {x}) /\ Cardinality(T) \in Nat
        BY <1>2, <1>4
    <2> QED BY <1>3, <2>1
<1> QED BY <1>5, <1>6

\* What a step does to the child rows: nothing, but for a row that is created, and a child
\* at hand that gets a status and perhaps a verdict.
Kept    == UNCHANGED rows /\ runs' \in {runs, runs + 1}
Created == /\ Remaining /\ child[k] = "absent" /\ UNCHANGED <<risky, runs>>
           /\ child' = [child EXCEPT ![k] = "processing"] /\ attempt' = [attempt EXCEPT ![k] = runs]
Judged  == /\ pc \in InHand \/ Remaining
           /\ UNCHANGED <<attempt, runs>>
           /\ \/ UNCHANGED <<child, risky>>
              \/ /\ \E st \in Terminal : child' = [child EXCEPT ![k] = st]
                 /\ risky' = risky \/ (risky' = risky \cup {k} /\ pc' = "count" /\ UNCHANGED k)

\* Every step does one of these to the rows, and counts at most one fault.
LEMMA RowMoves ==
    ASSUME [Next]_vars
    PROVE  (Kept \/ Created \/ Judged) /\ faults' \in {faults, faults + 1}
<1>1. CASE OwnerStep
    BY <1>1 DEF OwnerStep, Modify, AddFile, DeleteFile, EndShare, Kept
<1>2. CASE Start \/ ReadFolder \/ NoLink \/ List
    BY <1>2 DEF Start, ReadFolder, NoLink, List, Return, Kept
<1>3. CASE EmptyFolder \/ SkipChild \/ CountChild \/ FlagChild
    BY <1>3 DEF EmptyFolder, SkipChild, CountChild, FlagChild, Kept
<1>4. CASE SumUp \/ SendSummary \/ Finish \/ RecoverParent
    BY <1>4 DEF SumUp, SendSummary, Finish, RecoverParent, Return, Kept
<1>5. CASE WorkerCrash
    BY <1>5 DEF WorkerCrash, Return, Kept
<1>6. CASE FindDue \/ LinkEnded \/ ListAgain \/ Compare
    BY <1>6 DEF FindDue, LinkEnded, ListAgain, Compare, folderVars, Rest, Kept
<1>7. CASE WriteSnapshot \/ Recorded \/ CronCrash \/ Week
    BY <1>7 DEF WriteSnapshot, Recorded, CronCrash, Week, Rest, Kept
<1>8. CASE ReadBlind
    BY <1>8 DEF ReadBlind, Kept, Fault
<1>9. CASE Fallback
    BY <1>9 DEF Fallback, Kept, Fault
<1>10. CASE CreateChild
    BY <1>10 DEF CreateChild, Created, Kept
<1>11. CASE Analysed
    BY <1>11 DEF Analysed, InHand, Judged, Terminal, Kept
<1>12. CASE NoResponse
    BY <1>12 DEF NoResponse, InHand, Judged, Terminal, Kept
<1>13. CASE ChildRaises
    BY <1>13 DEF ChildRaises, InHand, Judged, FailChild, Terminal, Remaining, Fault, Counted,
        NextChild, Kept
<1>14. CASE StoreSnapshot
    BY <1>14 DEF StoreSnapshot, Kept, Fault
<1>15. CASE HandlerRaises
    BY <1>15 DEF HandlerRaises, Return, Kept, Fault
<1>16. CASE RescanFails
    BY <1>16 DEF RescanFails, Rest, Kept, Fault
<1>17. CASE \E i \in Items : Push(i)
    BY <1>17 DEF Push, folderVars, Kept
<1>18. CASE \E i \in Items : RunJob(i)
    BY <1>18 DEF RunJob, Kept
<1>19. CASE UNCHANGED vars
    BY <1>19 DEF vars, folderVars, Kept
<1> QED BY <1>1, <1>2, <1>3, <1>4, <1>5, <1>6, <1>7, <1>8, <1>9, <1>10, <1>11, <1>12, <1>13,
    <1>14, <1>15, <1>16, <1>17, <1>18, <1>19 DEF Next, HandlerStep, ScanStep

\* So the risky children of this run are the same, or gain the one at hand, or a run begins.
LEMMA RowsStay ==
    ASSUME KnownInv, SummaryInv, [Next]_vars
    PROVE  /\ (child' \in [Positions -> {"absent", "processing"} \cup Terminal]
               /\ risky' \subseteq Positions /\ attempt' \in [Positions -> Nat] /\ runs' \in Nat)
           /\ RowsBegan' /\ faults' \in Nat
           /\ ThisRun' \subseteq ThisRun \/ (pc' = "count" /\ UNCHANGED k /\ ThisRun' \subseteq ThisRun \cup {k})
           /\ runs' = runs + 1 => ThisRun' = {}
<1>1. RowTypes /\ RowsBegan
    BY DEF SummaryInv
<1>2. pc \in InHand \/ Remaining => k \in Positions
    BY CurrentFile
<1>3. CASE Kept
    BY <1>1, <1>3, RowMoves DEF RowTypes, RowsBegan, Kept, ThisRun
<1>4. CASE Created
    BY <1>1, <1>2, <1>4, RowMoves DEF RowTypes, RowsBegan, Created, ThisRun
<1>5. CASE Judged
    <2>1. k \in Positions /\ UNCHANGED <<attempt, runs>>
        BY <1>2, <1>5 DEF Judged
    <2>2. CASE UNCHANGED <<child, risky>>
        BY <1>1, <2>1, <2>2, RowMoves DEF RowTypes, RowsBegan, ThisRun
    <2>3. ASSUME NEW st \in Terminal, child' = [child EXCEPT ![k] = st],
                 risky' = risky \/ (risky' = risky \cup {k} /\ pc' = "count" /\ UNCHANGED k)
          PROVE  /\ child' \in [Positions -> {"absent", "processing"} \cup Terminal] /\ risky' \subseteq Positions
                 /\ RowsBegan'
                 /\ ThisRun' \subseteq ThisRun \/ (pc' = "count" /\ UNCHANGED k /\ ThisRun' \subseteq ThisRun \cup {k})
        <3>1. child' \in [Positions -> {"absent", "processing"} \cup Terminal] /\ risky' \subseteq Positions
            BY <1>1, <2>1, <2>3 DEF RowTypes
        <3>2. \A j \in Positions : child'[j] = IF j = k THEN st ELSE child[j]
            BY <1>1, <2>3 DEF RowTypes
        <3>3. RowsBegan'
            BY <1>1, <2>1, <2>3, <3>2 DEF RowsBegan, Terminal
        <3>4. ThisRun' \subseteq ThisRun \/ (pc' = "count" /\ UNCHANGED k /\ ThisRun' \subseteq ThisRun \cup {k})
            BY <2>1, <2>3 DEF ThisRun
        <3> QED BY <3>1, <3>3, <3>4
    <2>4. runs' # runs + 1
        BY <1>1, <2>1 DEF RowTypes
    <2> QED BY <1>1, <1>5, <2>1, <2>2, <2>3, <2>4, RowMoves DEF RowTypes, Judged
<1> QED BY <1>3, <1>4, <1>5, RowMoves

\* Owners, the rescan and the worker's jobs leave the handler and its rows alone.
HandlerIdle == UNCHANGED <<status, rows, mode, summary, pc, flagged, nflagged, k, runs>>

\* Every step is one of the handler's, a crash of the worker, or such a step.
LEMMA Elsewhere == ASSUME [Next]_vars PROVE HandlerStep \/ WorkerCrash \/ HandlerIdle
<1>1. CASE OwnerStep
    BY <1>1 DEF OwnerStep, Modify, AddFile, DeleteFile, EndShare, HandlerIdle
<1>2. CASE FindDue \/ ListAgain \/ Compare \/ \E i \in Items : Push(i)
    BY <1>2 DEF FindDue, ListAgain, Compare, Push, folderVars, HandlerIdle
<1>3. CASE LinkEnded \/ WriteSnapshot \/ Recorded \/ RescanFails
    BY <1>3 DEF LinkEnded, WriteSnapshot, Recorded, RescanFails, HandlerIdle
<1>4. CASE CronCrash \/ Week \/ \E i \in Items : RunJob(i)
    BY <1>4 DEF CronCrash, Week, RunJob, HandlerIdle
<1>5. CASE UNCHANGED vars
    BY <1>5 DEF vars, folderVars, HandlerIdle
<1> QED BY <1>1, <1>2, <1>3, <1>4, <1>5 DEF Next, ScanStep

\* A run keeps its phases.
LEMMA PhasesStay == ASSUME KnownInv, SummaryInv, [Next]_vars PROVE Phases' /\ nflagged' \in Nat
<1>1. Phases /\ nflagged \in Nat /\ runs \in Nat
    BY DEF SummaryInv, RowTypes
<1>2. /\ pc' # "count" => ThisRun' \subseteq ThisRun
      /\ runs' = runs + 1 => ThisRun' = {}
    BY RowsStay
<1> HIDE DEF ThisRun
<1>3. Phases' /\ nflagged' \in Nat
    <2>1. CASE Start
        BY <1>1, <1>2, <2>1 DEF Start, Phases, Looping, InHand
    <2>2. CASE ReadFolder
        BY <1>1, <1>2, <2>2 DEF ReadFolder, Phases, Looping, InHand
    <2>3. CASE ReadBlind
        BY <1>1, <1>2, <2>3 DEF ReadBlind, Phases, Looping, InHand
    <2>4. CASE NoLink
        BY <1>1, <1>2, <2>4 DEF NoLink, Return, Phases, Looping, InHand
    <2>5. CASE Fallback
        BY <1>1, <1>2, <2>5 DEF Fallback, Phases, Looping, InHand
    <2>6. CASE List
        BY <1>1, <1>2, <2>6 DEF List, Phases, Looping, InHand
    <2>7. CASE EmptyFolder
        BY <1>1, <1>2, <2>7 DEF EmptyFolder, Phases, Looping, InHand
    <2>8. CASE CreateChild
        BY <1>1, <1>2, <2>8 DEF CreateChild, Phases, Looping, InHand, Remaining
    <2>9. CASE SkipChild
        BY <1>1, <1>2, <2>9 DEF SkipChild, Phases, Looping, InHand, NextChild, Counted, Remaining
    <2>10. CASE Analysed
        BY <1>1, <1>2, <2>10 DEF Analysed, Phases, Looping, InHand
    <2>11. CASE NoResponse
        BY <1>1, <1>2, <2>11 DEF NoResponse, Phases, Looping, InHand
    <2>12. CASE CountChild
        BY <1>1, <1>2, <2>12 DEF CountChild, Phases, Looping, InHand, NextChild, Counted,
            Remaining
    <2>13. CASE FlagChild
        BY <1>1, <1>2, <2>13 DEF FlagChild, Phases, Looping, InHand, NextChild, Counted, Remaining
    <2>14. CASE ChildRaises
        BY <1>1, <1>2, <2>14 DEF ChildRaises, Phases, Looping, InHand, NextChild, Counted,
            Remaining
    <2>15. CASE StoreSnapshot
        BY <1>1, <1>2, <2>15 DEF StoreSnapshot, Phases, Looping, InHand
    <2>16. CASE SumUp
        BY <1>1, <1>2, <2>16 DEF SumUp, Phases, Looping, InHand, WorthTelling
    <2>17. CASE SendSummary
        BY <1>1, <1>2, <2>17 DEF SendSummary, Phases, Looping, InHand
    <2>18. CASE Finish
        BY <1>1, <1>2, <2>18 DEF Finish, Return, Phases, Looping, InHand
    <2>19. CASE HandlerRaises
        BY <1>1, <1>2, <2>19 DEF HandlerRaises, Return, Phases, Looping, InHand
    <2>20. CASE RecoverParent
        BY <1>1, <1>2, <2>20 DEF RecoverParent, Phases, Looping, InHand
    <2>21. CASE WorkerCrash
        BY <1>1, <1>2, <2>21 DEF WorkerCrash, Return, Phases, Looping, InHand
    <2>22. CASE HandlerIdle
        BY <1>1, <1>2, <2>22 DEF HandlerIdle, Phases, Looping, InHand
    <2> QED BY Elsewhere, <2>1, <2>2, <2>3, <2>4, <2>5, <2>6, <2>7, <2>8, <2>9, <2>10, <2>11,
        <2>12, <2>13, <2>14, <2>15, <2>16, <2>17, <2>18, <2>19, <2>20, <2>21, <2>22 DEF
        HandlerStep
<1> QED BY <1>3

\* Within the loop a risky child without a flag is an old one, or the one at hand and lost
\* to a fault.
Loses == Looping /\ pc \in {"count", "flag"} /\ faults' = faults + 1 /\ Unflagged' \subseteq Unflagged \cup {k}

\* Every step within the loop keeps what is unflagged, or loses the child at hand.
LEMMA UnflaggedMoves ==
    ASSUME KnownInv, SummaryInv, [Next]_vars, Looping'
    PROVE  (Looping /\ Unflagged' \subseteq Unflagged) \/ Loses \/ Unflagged' = {}
<1> DEFINE Goal == (Looping /\ Unflagged' \subseteq Unflagged) \/ Loses \/ Unflagged' = {}
<1>1. Phases /\ k \in Nat
    BY DEF SummaryInv, KnownInv, FolderTypes
<1>2. ThisRun' \subseteq ThisRun \/ (pc' = "count" /\ UNCHANGED k /\ ThisRun' \subseteq ThisRun \cup {k})
    BY RowsStay
<1>4. k \notin risky => k \notin ThisRun
    BY DEF ThisRun
<1> HIDE DEF ThisRun
<1>3. Goal
    <2>1. CASE Start
        BY <1>1, <1>2, <1>4, <2>1 DEF Start, Unflagged, Looping, InHand
    <2>2. CASE ReadFolder
        BY <1>1, <1>2, <1>4, <2>2 DEF ReadFolder, Unflagged, Looping, InHand
    <2>3. CASE ReadBlind
        BY <1>1, <1>2, <1>4, <2>3 DEF ReadBlind, Unflagged, Looping, InHand
    <2>4. CASE NoLink
        BY <1>1, <1>2, <1>4, <2>4 DEF NoLink, Return, Unflagged, Looping, InHand
    <2>5. CASE Fallback
        BY <1>1, <1>2, <1>4, <2>5 DEF Fallback, Unflagged, Looping, InHand
    <2>6. CASE List
        BY <1>1, <1>2, <1>4, <2>6 DEF List, Unflagged, Looping, InHand, Phases
    <2>7. CASE EmptyFolder
        BY <1>1, <1>2, <1>4, <2>7 DEF EmptyFolder, Unflagged, Looping, InHand
    <2>8. CASE CreateChild
        BY <1>1, <1>2, <1>4, <2>8 DEF CreateChild, Unflagged, Looping, InHand, Remaining
    <2>9. CASE SkipChild
        BY <1>1, <1>2, <1>4, <2>9 DEF SkipChild, Unflagged, Looping, InHand, NextChild, Remaining,
            Loses, Fault
    <2>10. CASE Analysed
        BY <1>1, <1>2, <1>4, <2>10 DEF Analysed, Unflagged, Looping, InHand
    <2>11. CASE NoResponse
        BY <1>1, <1>2, <1>4, <2>11 DEF NoResponse, Unflagged, Looping, InHand
    <2>12. CASE CountChild
        BY <1>1, <1>2, <1>4, <2>12 DEF CountChild, Unflagged, Looping, InHand, NextChild,
            Remaining, Loses, Fault
    <2>13. CASE FlagChild
        BY <1>1, <1>2, <1>4, <2>13 DEF FlagChild, Unflagged, Looping, InHand, NextChild,
            Remaining, Loses, Fault
    <2>14. CASE ChildRaises
        BY <1>1, <1>2, <1>4, <2>14 DEF ChildRaises, Unflagged, Looping, InHand, NextChild,
            Remaining, Loses, Fault
    <2>15. CASE StoreSnapshot
        BY <1>1, <1>2, <1>4, <2>15 DEF StoreSnapshot, Unflagged, Looping, InHand
    <2>16. CASE SumUp
        BY <1>1, <1>2, <1>4, <2>16 DEF SumUp, Unflagged, Looping, InHand
    <2>17. CASE SendSummary
        BY <1>1, <1>2, <1>4, <2>17 DEF SendSummary, Unflagged, Looping, InHand
    <2>18. CASE Finish
        BY <1>1, <1>2, <1>4, <2>18 DEF Finish, Return, Unflagged, Looping, InHand
    <2>19. CASE HandlerRaises
        BY <1>1, <1>2, <1>4, <2>19 DEF HandlerRaises, Return, Unflagged, Looping, InHand
    <2>20. CASE RecoverParent
        BY <1>1, <1>2, <1>4, <2>20 DEF RecoverParent, Unflagged, Looping, InHand
    <2>21. CASE WorkerCrash
        BY <1>1, <1>2, <1>4, <2>21 DEF WorkerCrash, Return, Unflagged, Looping, InHand
    <2>22. CASE HandlerIdle
        BY <1>1, <1>2, <1>4, <2>22 DEF HandlerIdle, Unflagged, Looping, InHand
    <2> QED BY Elsewhere, <2>1, <2>2, <2>3, <2>4, <2>5, <2>6, <2>7, <2>8, <2>9, <2>10, <2>11,
        <2>12, <2>13, <2>14, <2>15, <2>16, <2>17, <2>18, <2>19, <2>20, <2>21, <2>22 DEF
        HandlerStep
<1> QED BY <1>3

\* What the summary leaves out when it is sent, or needless, was without a flag.
LEMMA SummaryMoves ==
    ASSUME KnownInv, SummaryInv, [Next]_vars, pc' = "finish", mode' = "folder_enumeration"
    PROVE  \/ pc = "finish" /\ UNCHANGED <<mode, summary>>
           \/ Looping /\ pc \in {"sum", "alert"} /\ UNCHANGED <<flagged, k>> /\ ThisRun \ summary' \subseteq Unflagged
<1> DEFINE Goal == \/ pc = "finish" /\ UNCHANGED <<mode, summary>>
                   \/ Looping /\ pc \in {"sum", "alert"} /\ UNCHANGED <<flagged, k>> /\ ThisRun \ summary' \subseteq Unflagged
<1>1. Phases /\ nflagged \in Nat
    BY DEF SummaryInv, RowTypes
<1>2. Goal
    <2>1. CASE Start
        BY <1>1, <2>1 DEF Start, Phases, Looping, InHand
    <2>2. CASE ReadFolder
        BY <1>1, <2>2 DEF ReadFolder, Phases, Looping, InHand
    <2>3. CASE ReadBlind
        BY <1>1, <2>3 DEF ReadBlind, Phases, Looping, InHand
    <2>4. CASE NoLink
        BY <1>1, <2>4 DEF NoLink, Return, Phases, Looping, InHand
    <2>5. CASE Fallback
        BY <1>1, <2>5 DEF Fallback, Phases, Looping, InHand
    <2>6. CASE List
        BY <1>1, <2>6 DEF List, Phases, Looping, InHand
    <2>7. CASE EmptyFolder
        BY <1>1, <2>7 DEF EmptyFolder, Phases, Looping, InHand
    <2>8. CASE CreateChild
        BY <1>1, <2>8 DEF CreateChild, Phases, Looping, InHand
    <2>9. CASE SkipChild
        BY <1>1, <2>9 DEF SkipChild, Phases, Looping, InHand, NextChild, Counted, Remaining
    <2>10. CASE Analysed
        BY <1>1, <2>10 DEF Analysed, Phases, Looping, InHand
    <2>11. CASE NoResponse
        BY <1>1, <2>11 DEF NoResponse, Phases, Looping, InHand
    <2>12. CASE CountChild
        BY <1>1, <2>12 DEF CountChild, Phases, Looping, InHand, NextChild, Counted, Remaining
    <2>13. CASE FlagChild
        BY <1>1, <2>13 DEF FlagChild, Phases, Looping, InHand, NextChild, Counted, Remaining
    <2>14. CASE ChildRaises
        BY <1>1, <2>14 DEF ChildRaises, Phases, Looping, InHand, NextChild, Counted, Remaining
    <2>15. CASE StoreSnapshot
        BY <1>1, <2>15 DEF StoreSnapshot, Phases, Looping, InHand
    <2>16. CASE SumUp
        BY <1>1, <2>16 DEF SumUp, Phases, Looping, InHand, WorthTelling, Unflagged
    <2>17. CASE SendSummary
        BY <1>1, <2>17 DEF SendSummary, Phases, Looping, InHand, Unflagged
    <2>18. CASE Finish
        BY <1>1, <2>18 DEF Finish, Return, Phases, Looping, InHand
    <2>19. CASE HandlerRaises
        BY <1>1, <2>19 DEF HandlerRaises, Return, Phases, Looping, InHand
    <2>20. CASE RecoverParent
        BY <1>1, <2>20 DEF RecoverParent, Phases, Looping, InHand
    <2>21. CASE WorkerCrash
        BY <1>1, <2>21 DEF WorkerCrash, Return, Phases, Looping, InHand
    <2>22. CASE HandlerIdle
        BY <1>1, <2>22 DEF HandlerIdle, Phases, Looping, InHand
    <2> QED BY Elsewhere, <2>1, <2>2, <2>3, <2>4, <2>5, <2>6, <2>7, <2>8, <2>9, <2>10, <2>11,
        <2>12, <2>13, <2>14, <2>15, <2>16, <2>17, <2>18, <2>19, <2>20, <2>21, <2>22 DEF
        HandlerStep
<1> QED BY <1>2

\* A folder is completed at the end of a run, or without one that has children of its own.
LEMMA Completes ==
    ASSUME KnownInv, SummaryInv, [Next]_vars, status' = "completed"
    PROVE  \/ status = "completed" /\ UNCHANGED <<mode, summary>>
           \/ pc = "finish" /\ UNCHANGED <<mode, summary>>
           \/ ThisRun = {}
<1>1. Phases
    BY DEF SummaryInv
<1>2. \/ status = "completed" /\ UNCHANGED <<mode, summary>>
      \/ pc = "finish" /\ UNCHANGED <<mode, summary>>
      \/ ThisRun = {}
    <2>1. CASE Start
        BY <1>1, <2>1 DEF Start, Phases, Looping, InHand
    <2>2. CASE ReadFolder
        BY <1>1, <2>2 DEF ReadFolder, Phases, Looping, InHand
    <2>3. CASE ReadBlind
        BY <1>1, <2>3 DEF ReadBlind, Phases, Looping, InHand
    <2>4. CASE NoLink
        BY <1>1, <2>4 DEF NoLink, Return, Phases, Looping, InHand
    <2>5. CASE Fallback
        BY <1>1, <2>5 DEF Fallback, Phases, Looping, InHand
    <2>6. CASE List
        BY <1>1, <2>6 DEF List, Phases, Looping, InHand
    <2>7. CASE EmptyFolder
        BY <1>1, <2>7 DEF EmptyFolder, Phases, Looping, InHand
    <2>8. CASE CreateChild
        BY <1>1, <2>8 DEF CreateChild, Phases, Looping, InHand
    <2>9. CASE SkipChild
        BY <1>1, <2>9 DEF SkipChild, Phases, Looping, InHand, NextChild, Counted, Remaining
    <2>10. CASE Analysed
        BY <1>1, <2>10 DEF Analysed, Phases, Looping, InHand
    <2>11. CASE NoResponse
        BY <1>1, <2>11 DEF NoResponse, Phases, Looping, InHand
    <2>12. CASE CountChild
        BY <1>1, <2>12 DEF CountChild, Phases, Looping, InHand, NextChild, Counted, Remaining
    <2>13. CASE FlagChild
        BY <1>1, <2>13 DEF FlagChild, Phases, Looping, InHand, NextChild, Counted, Remaining
    <2>14. CASE ChildRaises
        BY <1>1, <2>14 DEF ChildRaises, Phases, Looping, InHand, NextChild, Counted, Remaining
    <2>15. CASE StoreSnapshot
        BY <1>1, <2>15 DEF StoreSnapshot, Phases, Looping, InHand
    <2>16. CASE SumUp
        BY <1>1, <2>16 DEF SumUp, Phases, Looping, InHand
    <2>17. CASE SendSummary
        BY <1>1, <2>17 DEF SendSummary, Phases, Looping, InHand
    <2>18. CASE Finish
        BY <1>1, <2>18 DEF Finish, Return, Phases, Looping, InHand
    <2>19. CASE HandlerRaises
        BY <1>1, <2>19 DEF HandlerRaises, Return, Phases, Looping, InHand
    <2>20. CASE RecoverParent
        BY <1>1, <2>20 DEF RecoverParent, Phases, Looping, InHand
    <2>21. CASE WorkerCrash
        BY <1>1, <2>21 DEF WorkerCrash, Return, Phases, Looping, InHand
    <2>22. CASE HandlerIdle
        BY <1>1, <2>22 DEF HandlerIdle, Phases, Looping, InHand
    <2> QED BY Elsewhere, <2>1, <2>2, <2>3, <2>4, <2>5, <2>6, <2>7, <2>8, <2>9, <2>10, <2>11,
        <2>12, <2>13, <2>14, <2>15, <2>16, <2>17, <2>18, <2>19, <2>20, <2>21, <2>22 DEF
        HandlerStep
<1> QED BY <1>2

\* The losses stay within the faults.
LEMMA LossesStay == ASSUME KnownInv, SummaryInv, [Next]_vars PROVE Losses' /\ SummaryComplete'
<1>1. /\ Losses /\ SummaryComplete /\ risky \subseteq Positions /\ faults \in Nat
      /\ faults' \in {faults, faults + 1} /\ Cardinality({}) = 0
    BY RowMoves, FS_EmptySet DEF SummaryInv, RowTypes
<1>2. ThisRun \subseteq Positions /\ Unflagged \subseteq Positions
    BY <1>1 DEF ThisRun, Unflagged
<1>3. ThisRun' \subseteq ThisRun \/ pc' = "count"
    BY RowsStay
<1>4. ASSUME NEW Old \in SUBSET Positions, Cardinality(Old) <= faults, NEW T \in SUBSET Old
      PROVE  Cardinality(T) <= faults'
    <2>1. CASE Old = {}
        <3>1. T = {}
            BY <1>4, <2>1
        <3> QED BY <1>1, <3>1
    <2>2. ASSUME NEW x \in Positions PROVE Cardinality(T) <= faults'
        BY <1>1, <1>4, SmallSets
    <2> QED BY <1>4, <2>1, <2>2
<1>5. Looping' => Cardinality(Unflagged') <= faults'
    <2>1. SUFFICES ASSUME Looping' PROVE Cardinality(Unflagged') <= faults'
        OBVIOUS
    <2>2. CASE Looping /\ Unflagged' \subseteq Unflagged
        BY <1>1, <1>2, <1>4, <2>2 DEF Losses
    <2>3. CASE Loses
        <3>1. k \in Positions
            BY <2>3, CurrentFile DEF Loses, InHand
        <3> QED BY <1>1, <1>2, <2>3, <3>1, SmallSets DEF Losses, Loses
    <2>4. CASE Unflagged' = {}
        BY <1>1, <2>4
    <2> QED BY <2>1, <2>2, <2>3, <2>4, UnflaggedMoves
<1>6. pc' = "finish" /\ mode' = "folder_enumeration" => Cardinality((ThisRun \ summary)') <= faults'
    <2>1. SUFFICES ASSUME pc' = "finish", mode' = "folder_enumeration" PROVE Cardinality((ThisRun \ summary)') <= faults'
        OBVIOUS
    <2>2. ThisRun' \subseteq ThisRun
        BY <1>3, <2>1
    <2>3. CASE pc = "finish" /\ UNCHANGED <<mode, summary>>
        BY <1>1, <1>2, <1>4, <2>1, <2>2, <2>3 DEF Losses
    <2>4. CASE Looping /\ pc \in {"sum", "alert"} /\ UNCHANGED <<flagged, k>> /\ ThisRun \ summary' \subseteq Unflagged
        BY <1>1, <1>2, <1>4, <2>2, <2>4 DEF Losses
    <2> QED BY <2>1, <2>3, <2>4, SummaryMoves
<1>7. SummaryComplete'
    <2>1. SUFFICES ASSUME status' = "completed", mode' = "folder_enumeration"
          PROVE  Cardinality((ThisRun \ summary)') <= faults'
        BY DEF SummaryComplete
    <2>2. ThisRun' \subseteq ThisRun
        BY <1>3, <2>1, PhasesStay DEF Phases
    <2>3. CASE status = "completed" /\ UNCHANGED <<mode, summary>>
        BY <1>1, <1>2, <1>4, <2>1, <2>2, <2>3 DEF SummaryComplete
    <2>4. CASE pc = "finish" /\ UNCHANGED <<mode, summary>>
        BY <1>1, <1>2, <1>4, <2>1, <2>2, <2>4 DEF Losses
    <2>5. CASE ThisRun = {}
        BY <1>1, <2>2, <2>5
    <2> QED BY <2>1, <2>3, <2>4, <2>5, Completes
<1> QED BY <1>5, <1>6, <1>7 DEF Losses

\* The summary names every child with a risky verdict of its run, except those of which a
\* step failed: at most one a fault.
THEOREM SummarySafe == Spec => []SummaryComplete
<1>1. Init => KnownInv /\ SummaryInv
    BY RescanInit, SummaryInit
<1>2. KnownInv /\ SummaryInv /\ [Next]_vars => (KnownInv /\ SummaryInv)'
    BY KnownStep, RowsStay, PhasesStay, LossesStay DEF SummaryInv, RowTypes
<1>3. SummaryInv => SummaryComplete
    BY DEF SummaryInv
<1> QED BY <1>1, <1>2, <1>3, PTL DEF Spec
=============================================================================
