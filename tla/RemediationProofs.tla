-------------------------- MODULE RemediationProofs --------------------------
(***************************************************************************)
(* The link lifecycle, and remediation beside it, for all events, links,   *)
(* milestones, calendars, folders and numbers of reviews and mishaps.      *)
(***************************************************************************)
EXTENDS Remediation, WellFoundedInduction, FiniteSetTheorems, SequenceTheorems, TLAPS

-----------------------------------------------------------------------------
(* Milestones have a first *)

Less == {ss \in Nat \X Nat : ss[1] < ss[2]}

\* The order of the milestones is well-founded.
LEMMA LessIsWellFounded == IsWellFoundedOn(Less, Nat)
<1>1. Less = OpToRel(<, Nat)
    BY DEF Less, OpToRel
<1> QED BY <1>1, NatLessThanWellFounded

\* First returns the least element.
LEMMA FirstIsLeast ==
    ASSUME NEW S \in SUBSET Nat, S # {}
    PROVE  First(S) \in S /\ \A n \in S : First(S) <= n
<1>1. PICK x \in S : \A y \in S : <<y, x>> \notin Less
    BY LessIsWellFounded, WFMin
<1>2. \A y \in S : y \in Nat
    OBVIOUS
<1>3. \A y \in S : <<y, x>> \in Nat \X Nat /\ ~(y < x)
    BY <1>1, <1>2 DEF Less
<1>4. x \in Nat
    BY <1>2
<1>5. ASSUME NEW y \in S
      PROVE  x <= y
    <2>1. y \in Nat /\ ~(y < x)
        BY <1>2, <1>3
    <2> QED BY <1>4, <2>1
<1> QED BY <1>1, <1>5 DEF First

\* The milestone of a pass is one of the milestones.
LEMMA FirstMilestones ==
    /\ InUse # {} => First(InUse) \in Milestones
    /\ Later # {} => First(Later) \in Milestones
<1>1. InUse \in SUBSET Nat /\ InUse \subseteq Milestones
    BY LinksAssumption DEF InUse
<1>2. Later \in SUBSET Nat /\ Later \subseteq Milestones
    BY <1>1 DEF Later
<1> QED BY <1>1, <1>2, FirstIsLeast

-----------------------------------------------------------------------------
(* The invariant *)

\* A row can still be given up on while it is active.
Patient == \A p \in Pairs : row[p] \in {"none", "active"} => attempts[p] < MaxRemovalAttempts

\* What was fetched is active and not marked, up to the row at hand.
Fetched ==
    /\ pass \in {"idle", "fetch"} => batch = {}
    /\ \A p \in batch :
        /\ p # cur \/ pass \notin {"mark", "notice"} => row[p] = "active"
        /\ p # cur \/ pass # "notice" => milestone \notin notified[p]
    /\ pass = "notice" => milestone \in notified[cur]

\* The link is gone before its row says so.
Gone == RemovedIsGone /\ (pass = "write" => link[cur[2]] = "gone")

\* A mail that is not marked was paid for with a mishap, but for the one just sent;
\* and so was the removal mail that is about to be sent again.
JustSent(p, m) == pass = "mark" /\ p = cur /\ m = milestone /\ milestone < MaxDays
Owed == {d \in Pairs \X Milestones : d[2] \notin notified[d[1]] /\ ~JustSent(d[1], d[2])}
Counted ==
    /\ mails \in [Pairs -> [Milestones -> Nat]] /\ crashes \in Nat /\ faults \in Nat
    /\ \A p \in Pairs, m \in Milestones : /\ mails[p][m] <= 1 + (crashes + faults)
                                          /\ <<p, m>> \in Owed => mails[p][m] <= crashes + faults
    /\ pass = "notice" => mails[cur][milestone] <= crashes + faults

LinksInv == LinksTypeOK /\ Patient /\ Fetched /\ Gone /\ Counted

USE LinksAssumption DEF linkTable, processor, linkBounds

-----------------------------------------------------------------------------
(* The steps *)

\* Before anything is shared there are no rows and no mails.
LEMMA LinksInitInv == LinksInit => LinksInv
<1> SUFFICES ASSUME LinksInit PROVE LinksInv
    OBVIOUS
<1>1. Pairs # {}
    <2>1. PICK e \in Events, l \in Links : l \in LinksOf[e]
        OBVIOUS
    <2>2. <<e, l>> \in Pairs
        BY <2>1 DEF Pairs
    <2> QED BY <2>2
<1>2. AnyPair \in Pairs
    BY <1>1 DEF AnyPair
<1>3. LinksTypeOK
    BY <1>2 DEF LinksInit, LinksTypeOK, Unshared
<1>4. Patient /\ Fetched /\ Gone
    BY DEF LinksInit, Patient, Fetched, Gone, RemovedIsGone
<1>5. Counted
    BY DEF LinksInit, Counted, Owed
<1> QED BY <1>3, <1>4, <1>5 DEF LinksInv

\* A pair is an event and one of its links.
LEMMA PairTypes == \A p \in Pairs : p \in Events \X Links /\ p[1] \in Events /\ p[2] \in Links
BY DEF Pairs

\* Sums of counters that only grow.
LEMMA Sums ==
    \A a, b, c, d \in Nat : /\ a + b \in Nat /\ c + d \in Nat
                            /\ c >= a /\ d >= b => c + d >= a + b
                            /\ c + d > a + b => c + d >= a + b + 1
OBVIOUS

\* Without a mail, the count stands if no more mails are owed, or a mishap was counted.
LEMMA NoMail ==
    ASSUME Counted, LinksTypeOK, UNCHANGED mails, crashes' \in Nat, faults' \in Nat,
           crashes' >= crashes, faults' >= faults,
           \/ crashes' + faults' > crashes + faults
           \/ Owed' \subseteq Owed,
           pass' = "notice" =>
               \/ pass = "notice" /\ cur' = cur /\ milestone' = milestone
               \/ \E p \in Pairs, m \in Milestones : p = cur' /\ m = milestone' /\ <<p, m>> \in Owed
    PROVE  Counted'
<1>0. crashes \in Nat /\ faults \in Nat
    BY DEF Counted
<1>7. PICK a \in Nat, b \in Nat, c \in Nat, d \in Nat :
          a = crashes /\ b = faults /\ c = crashes' /\ d = faults' /\ c >= a /\ d >= b
    BY <1>0
<1>8. a + b \in Nat /\ c + d \in Nat /\ c + d >= a + b
    <2>1. c >= a /\ d >= b
        BY <1>7
    <2> QED BY <2>1
<1>1. PICK k \in Nat, n \in Nat : k = a + b /\ n = c + d /\ n >= k
    BY <1>8
<1>9. k = crashes + faults /\ n = crashes' + faults'
    BY <1>1, <1>7, Zenon
<1>10. c + d > a + b => n >= k + 1
    BY <1>1
<1>2. n >= k + 1 \/ Owed' \subseteq Owed
    BY <1>10, <1>7, Zenon
<1>3. \A p \in Pairs, m \in Milestones :
          /\ mails[p][m] \in Nat /\ mails[p][m] <= 1 + k
          /\ <<p, m>> \in Owed => mails[p][m] <= k
    <2>1. mails \in [Pairs -> [Milestones -> Nat]]
        BY DEF Counted
    <2> QED BY <1>9, <2>1 DEF Counted
<1>4. ASSUME NEW p \in Pairs, NEW m \in Milestones
      PROVE  /\ mails[p][m] <= 1 + n
             /\ <<p, m>> \in Owed' => mails[p][m] <= n
    <2>1. CASE n >= k + 1
        BY <1>1, <1>3, <2>1
    <2>2. CASE Owed' \subseteq Owed
        BY <1>1, <1>3, <2>2
    <2> QED BY <1>2, <2>1, <2>2
<1>5. ASSUME pass' = "notice"
      PROVE  mails[cur'][milestone'] <= n
    <2>1. \E p \in Pairs, m \in Milestones : p = cur' /\ m = milestone' /\ mails[p][m] <= k
        <3>1. CASE pass = "notice" /\ cur' = cur /\ milestone' = milestone
            <4>1. mails[cur][milestone] <= k
                BY <3>1, <1>9 DEF Counted
            <4> QED BY <3>1, <4>1 DEF LinksTypeOK
        <3>2. CASE ~(pass = "notice" /\ cur' = cur /\ milestone' = milestone)
            BY <1>5, <3>2, <1>3
        <3> QED BY <3>1, <3>2
    <2>2. PICK p \in Pairs, m \in Milestones : p = cur' /\ m = milestone' /\ mails[p][m] <= k
        BY <2>1
    <2>3. mails[p][m] <= n
        <3>1. mails[p][m] \in Nat /\ mails[p][m] <= k
            BY <1>3, <2>2
        <3> QED BY <1>1, <3>1
    <2> QED BY <2>2, <2>3
<1>6. mails \in [Pairs -> [Milestones -> Nat]]
    BY DEF Counted
<1>11. /\ \A p \in Pairs, m \in Milestones : /\ mails'[p][m] <= 1 + n
                                             /\ <<p, m>> \in Owed' => mails'[p][m] <= n
       /\ pass' = "notice" => mails'[cur'][milestone'] <= n
       /\ mails' \in [Pairs -> [Milestones -> Nat]]
    BY <1>4, <1>5, <1>6
<1> QED BY <1>9, <1>11, Zenon DEF Counted

\* A step of the tenant or the calendar removes links, and leaves rows and mails alone.
LEMMA TenantSteps ==
    ASSUME LinksInv, TenantStep
    PROVE  LinksInv'
<1>1. LinksTypeOK'
    BY DEF LinksInv, LinksTypeOK, TenantStep, Tick, LinkEnds, Share, Unshared
<1>2. UNCHANGED <<linkTable, mails, pass, milestone, batch, cur, linkBounds>>
    BY DEF TenantStep, Tick, LinkEnds, Share
<1>3. \A l \in Links : link[l] = "gone" => link'[l] = "gone"
    BY DEF LinksInv, LinksTypeOK, TenantStep, Tick, LinkEnds, Share
<1>4. Gone'
    BY <1>2, <1>3, PairTypes DEF LinksInv, LinksTypeOK, Gone, RemovedIsGone
<1>5. Patient' /\ Fetched'
    BY <1>2 DEF LinksInv, Patient, Fetched
<1>6. Counted'
    BY <1>2 DEF LinksInv, Counted, JustSent, Owed
<1> QED BY <1>1, <1>4, <1>5, <1>6 DEF LinksInv

\* Enrolment adds rows that were not there.
LEMMA EnrolSteps ==
    ASSUME LinksInv, NEW e \in Events, EnrolStep(e)
    PROVE  LinksInv'
<1>1. /\ UNCHANGED <<day, link, eventDay, notified, attempts, mails, processor, crashes>>
      /\ faults' \in Nat /\ faults' >= faults
    BY DEF EnrolStep, ListLinks, Enrol, EnrolFails, Fault, LinksInv, Counted
<1>2. /\ row' \in [Pairs -> {"none", "active", "ms_managed", "expired_removed", "error",
                             "manually_removed"}]
      /\ \A p \in Pairs : row'[p] = row[p] \/ (row[p] = "none" /\ row'[p] \in {"active", "ms_managed"})
    BY DEF EnrolStep, ListLinks, Enrol, EnrolFails, InsertRow, FirstStatus, LinksInv, LinksTypeOK
<1>3. enrolling' \in [Events -> SUBSET Links]
    BY DEF EnrolStep, ListLinks, Enrol, EnrolFails, Dequeue, LinksInv, LinksTypeOK
<1>4. LinksTypeOK'
    BY <1>1, <1>2, <1>3 DEF LinksInv, LinksTypeOK
<1>5. Patient' /\ Fetched' /\ Gone'
    BY <1>1, <1>2 DEF LinksInv, LinksTypeOK, Patient, Fetched, Gone, RemovedIsGone
<1>7. Owed' = Owed
    BY <1>1 DEF Owed, JustSent
<1>8. crashes' \in Nat /\ crashes' >= crashes
    BY <1>1 DEF LinksInv, Counted
<1>6. Counted'
    BY <1>1, <1>7, <1>8, NoMail DEF LinksInv
<1> QED BY <1>4, <1>5, <1>6 DEF LinksInv

\* Where the processor holds a row: the row was fetched, and it is one of the table's.
LEMMA AtHandTypes ==
    ASSUME LinksInv
    PROVE  /\ cur \in Pairs /\ cur[2] \in Links /\ batch \subseteq Pairs
           /\ AnyPair \in Pairs
<1>1. AnyPair \in Pairs
    BY DEF AnyPair, LinksInv, LinksTypeOK
<1> QED BY <1>1, PairTypes DEF LinksInv, LinksTypeOK

\* The start of a pass, its queries and its end.
LEMMA PassSteps ==
    ASSUME LinksInv, StartPass \/ Fetch \/ FetchFails \/ MilestoneDone \/ CronCrash
    PROVE  LinksInv'
<1>1. /\ UNCHANGED <<day, link, eventDay, row, notified, attempts, mails, enrolling>>
      /\ crashes' \in Nat /\ faults' \in Nat
      /\ crashes' >= crashes /\ faults' >= faults
    BY DEF StartPass, Fetch, FetchFails, MilestoneDone, CronCrash, Fault, Crash, LinksInv, Counted
<1>2. /\ pass' \in {"idle", "fetch", "rows"}
      /\ milestone' \in IF pass' = "idle" THEN {MaxDays} ELSE Milestones
    BY FirstMilestones
       DEF StartPass, Fetch, FetchFails, MilestoneDone, NextMilestone, CronCrash, LinksInv,
           LinksTypeOK
<1>3. batch' \subseteq Pairs /\ cur' \in Pairs
    BY AtHandTypes DEF StartPass, Fetch, FetchFails, MilestoneDone, CronCrash, Due
<1>4. LinksTypeOK'
    BY <1>1, <1>2, <1>3 DEF LinksInv, LinksTypeOK
<1>5. Patient' /\ Gone'
    BY <1>1, <1>2 DEF LinksInv, Patient, Gone, RemovedIsGone
<1>6. Fetched'
    BY <1>1, <1>2 DEF StartPass, Fetch, FetchFails, MilestoneDone, NextMilestone, CronCrash, Due,
                      LinksInv, Fetched
<1>7. pass = "mark" => crashes' = crashes + 1 /\ faults' = faults
    BY DEF StartPass, Fetch, FetchFails, MilestoneDone, CronCrash, Crash
<1>8. pass # "mark" => Owed' \subseteq Owed
    BY <1>1 DEF Owed, JustSent
<1>9. Counted'
    <2>1. CASE pass = "mark"
        <3>1. crashes' + faults' > crashes + faults
            BY <1>7, <2>1 DEF LinksInv, Counted
        <3> QED BY <1>1, <1>2, <3>1, NoMail DEF LinksInv
    <2>2. CASE pass # "mark"
        BY <1>1, <1>2, <1>8, <2>2, NoMail DEF LinksInv
    <2> QED BY <2>1, <2>2
<1> QED BY <1>4, <1>5, <1>6, <1>9 DEF LinksInv
\* Taking up a row, and passing over one.
LEMMA RowSteps ==
    ASSUME LinksInv, NEW p \in Pairs,
           Countdown(p) \/ CountdownFails(p) \/ Remove(p) \/ RemoveFails(p)
    PROVE  LinksInv'
<1>1. /\ UNCHANGED <<day, eventDay, row, notified, attempts, enrolling, milestone, linkBounds>>
      /\ pass = "rows" /\ p \in batch
    BY DEF Countdown, CountdownFails, Remove, RemoveFails, TakeUp, Skip, AtHand
<1>2. batch' \subseteq batch /\ cur' \in Pairs
    BY AtHandTypes DEF Countdown, CountdownFails, Remove, RemoveFails, TakeUp, Skip
<1>3. \/ pass' = "rows" /\ cur' = AnyPair
      \/ pass' \in {"write", "fail", "mark"} /\ cur' = p /\ p \in batch'
    BY <1>1 DEF Countdown, CountdownFails, Remove, RemoveFails, TakeUp, Skip, FailStep
<1>4. link' \in [Links -> {"absent", "live", "gone"}] /\ \A l \in Links : link[l] = "gone" => link'[l] = "gone"
    BY DEF Countdown, CountdownFails, Remove, RemoveFails, LinksInv, LinksTypeOK
<1>5. LinksTypeOK'
    BY <1>1, <1>2, <1>3, <1>4 DEF LinksInv, LinksTypeOK
<1>6. Patient' /\ Fetched'
    BY <1>1, <1>2, <1>3 DEF LinksInv, Patient, Fetched
<1>7. Gone'
    <2>1. pass' = "write" => link'[cur'[2]] = "gone"
        <3>1. CASE Remove(p)
            BY <3>1, PairTypes DEF Remove, TakeUp, LinksInv, LinksTypeOK
        <3>2. CASE ~Remove(p)
            BY <3>2 DEF Countdown, CountdownFails, RemoveFails, TakeUp, Skip, FailStep
        <3> QED BY <3>1, <3>2
    <2>2. RemovedIsGone'
        BY <1>1, <1>4, PairTypes DEF LinksInv, LinksTypeOK, Gone, RemovedIsGone
    <2> QED BY <2>1, <2>2 DEF Gone
<1>8. ASSUME UNCHANGED mails
      PROVE  Counted'
    <2>1. Owed' \subseteq Owed
        BY <1>1 DEF Owed, JustSent
    <2>2. pass' # "notice"
        BY <1>3
    <2>3. crashes' \in Nat /\ crashes' >= crashes /\ faults' \in Nat /\ faults' >= faults
        BY <1>1 DEF LinksInv, Counted
    <2>4. Counted /\ LinksTypeOK
        BY DEF LinksInv
    <2> QED BY <1>8, <2>1, <2>2, <2>3, <2>4, NoMail
<1>9. ASSUME Countdown(p), Mail(p)
      PROVE  Counted'
    <2> DEFINE M == crashes + faults  M2 == crashes' + faults'
    <2>1. milestone \in Milestones /\ milestone \notin notified[p] /\ milestone < MaxDays
        BY <1>1, <1>9 DEF Countdown, LinksInv, LinksTypeOK, Fetched
    <2>2. mails[p] \in [Milestones -> Nat] /\ mails[p][milestone] <= M
        BY <1>1, <2>1 DEF LinksInv, Counted, JustSent, Owed
    <2>3. \A q \in Pairs, m \in Milestones :
              mails'[q][m] = IF q = p /\ m = milestone THEN mails[p][milestone] + 1 ELSE mails[q][m]
        BY <1>9, <2>1 DEF Mail, LinksInv, Counted
    <2>4. mails' \in [Pairs -> [Milestones -> Nat]]
        BY <1>9, <2>1, <2>2 DEF Mail, LinksInv, Counted
    <2>5. cur' = p /\ pass' = "mark" /\ milestone' = milestone
        BY <1>9 DEF Countdown, TakeUp
    <2>6. M2 = M /\ M \in Nat /\ crashes' \in Nat /\ faults' \in Nat
        BY <1>1 DEF LinksInv, Counted
    <2>7. ASSUME NEW q \in Pairs, NEW m \in Milestones
          PROVE  mails'[q][m] <= 1 + M2 /\ (<<q, m>> \in Owed' => mails'[q][m] <= M2)
        <3>1. mails[q][m] \in Nat /\ mails[q][m] <= 1 + M /\ (<<q, m>> \in Owed => mails[q][m] <= M)
            BY DEF LinksInv, Counted
        <3>2. CASE q = p /\ m = milestone
            <4>1. <<q, m>> \notin Owed'
                BY <2>1, <2>5, <3>2 DEF Owed, JustSent
            <4>2. mails'[q][m] = mails[p][milestone] + 1
                BY <2>3, <3>2
            <4>3. mails[p][milestone] \in Nat
                BY <3>1, <3>2
            <4> QED BY <2>2, <2>6, <4>1, <4>2, <4>3
        <3>3. CASE ~(q = p /\ m = milestone)
            <4>1. <<q, m>> \in Owed' => <<q, m>> \in Owed
                BY <1>1 DEF Owed, JustSent
            <4>2. mails'[q][m] = mails[q][m]
                BY <2>3, <3>3
            <4> QED BY <2>6, <3>1, <4>1, <4>2
        <3> QED BY <3>2, <3>3
    <2>8. pass' # "notice"
        BY <2>5
    <2> HIDE DEF M
    <2> QED BY <2>4, <2>6, <2>7, <2>8, Zenon DEF Counted
<1>10. UNCHANGED mails \/ (Countdown(p) /\ Mail(p))
    BY DEF Countdown, CountdownFails, Remove, RemoveFails
<1>11. Counted'
    BY <1>8, <1>9, <1>10
<1> QED BY <1>5, <1>6, <1>7, <1>11 DEF LinksInv

\* The end of a removal, and of a row.
LEMMA EndSteps ==
    ASSUME LinksInv, WriteRemoved \/ WriteFailure \/ Mark \/ MarkFails \/ Notice
    PROVE  LinksInv'
<1>1. /\ UNCHANGED <<day, link, eventDay, enrolling, milestone, crashes>>
      /\ pass \in {"write", "fail", "mark", "notice"} /\ cur \in batch
    BY DEF WriteRemoved, WriteFailure, Mark, MarkFails, Notice, LinksInv, LinksTypeOK
<1>2. batch' \subseteq batch /\ cur' \in Pairs
    BY AtHandTypes DEF WriteRemoved, WriteFailure, Mark, MarkFails, Notice, Skip
<1>3. \/ pass' = "rows" /\ cur' = AnyPair /\ batch' = batch \ {cur}
      \/ pass' \in {"mark", "fail", "notice"} /\ UNCHANGED <<cur, batch>>
    BY DEF WriteRemoved, WriteFailure, Mark, MarkFails, Notice, Skip
<1>4. /\ row' \in [Pairs -> {"none", "active", "ms_managed", "expired_removed", "error",
                             "manually_removed"}]
      /\ \A p \in Pairs : p # cur => row'[p] = row[p]
    BY DEF WriteRemoved, WriteFailure, Mark, MarkFails, Notice, LinksInv, LinksTypeOK
<1>5. /\ notified' \in [Pairs -> SUBSET Milestones]
      /\ \A p \in Pairs : p # cur => notified'[p] = notified[p]
      /\ \A p \in Pairs : notified[p] \subseteq notified'[p]
    BY DEF WriteRemoved, WriteFailure, Mark, MarkFails, Notice, SetMark, LinksInv, LinksTypeOK
<1>6. /\ attempts' \in [Pairs -> 0 .. MaxRemovalAttempts]
      /\ Patient'
    <2>1. CASE WriteRemoved \/ Mark \/ MarkFails \/ Notice
        BY <2>1, <1>4 DEF WriteRemoved, Mark, MarkFails, Notice, LinksInv, LinksTypeOK, Patient
    <2>2. CASE WriteFailure /\ UNCHANGED <<row, attempts>>
        BY <2>2 DEF LinksInv, LinksTypeOK, Patient
    <2>3. CASE WriteFailure /\ ~UNCHANGED <<row, attempts>>
        <3>1. /\ attempts' = [attempts EXCEPT ![cur] = @ + 1]
              /\ row' = [row EXCEPT ![cur] = IF GivesUp(cur) THEN "error" ELSE "active"]
              /\ pass = "fail"
            BY <2>3 DEF WriteFailure, MoreAttempts
        <3>2. cur \in Pairs /\ row[cur] = "active"
            BY <3>1, <1>1 DEF LinksInv, LinksTypeOK, Fetched
        <3>3. attempts[cur] \in Nat /\ attempts[cur] < MaxRemovalAttempts
            BY <3>2 DEF LinksInv, LinksTypeOK, Patient
        <3> QED BY <3>1, <3>2, <3>3 DEF GivesUp, LinksInv, LinksTypeOK, Patient
    <2> QED BY <2>1, <2>2, <2>3
<1>7. LinksTypeOK'
    BY <1>1, <1>2, <1>3, <1>4, <1>5, <1>6 DEF LinksInv, LinksTypeOK
<1>11. \/ pass' = "rows" /\ batch' = batch \ {cur}
       \/ pass' = "mark" /\ UNCHANGED <<cur, batch, notified>>
       \/ pass' = "fail" /\ pass = "write" /\ UNCHANGED <<cur, batch, notified, row>>
       \/ pass' = "notice" /\ UNCHANGED <<cur, batch>> /\ milestone \in notified'[cur]
    BY <1>1 DEF WriteRemoved, WriteFailure, Mark, MarkFails, Notice, Skip, SetMark, LinksInv,
                LinksTypeOK
<1>12. \A p \in batch : p # cur => row[p] = "active" /\ milestone \notin notified[p]
    BY DEF LinksInv, Fetched
<1>13. /\ pass = "write" => row[cur] = "active"
       /\ pass \in {"write", "mark"} => milestone \notin notified[cur]
    BY <1>1 DEF LinksInv, Fetched
<1>14. pass' = "mark" => pass = "write"
    BY DEF WriteRemoved, WriteFailure, Mark, MarkFails, Notice, Skip
<1>8. Fetched'
    BY <1>1, <1>4, <1>5, <1>11, <1>12, <1>13, <1>14 DEF LinksInv, LinksTypeOK, Fetched
<1>9. Gone'
    BY <1>1, <1>3, <1>4
       DEF WriteRemoved, WriteFailure, Mark, MarkFails, Notice, LinksInv, LinksTypeOK, Gone,
           RemovedIsGone
<1>15. Counted /\ LinksTypeOK /\ crashes' \in Nat /\ crashes' >= crashes
    BY <1>1 DEF LinksInv, Counted
<1>16. ASSUME WriteRemoved \/ WriteFailure \/ (Notice /\ UNCHANGED mails)
       PROVE  Counted'
    <2>1. UNCHANGED <<mails, notified>> /\ faults' \in Nat /\ faults' >= faults /\ pass' # "notice"
        BY <1>15, <1>16 DEF WriteRemoved, WriteFailure, Notice, Fault, Counted, Skip
    <2>2. Owed' \subseteq Owed
        BY <1>1, <1>16, <2>1 DEF WriteRemoved, WriteFailure, Notice, Owed, JustSent
    <2> QED BY <1>15, <2>1, <2>2, NoMail
<1>17. ASSUME MarkFails
       PROVE  Counted'
    <2>1. UNCHANGED mails /\ pass' # "notice" /\ faults' = faults + 1 /\ crashes' = crashes
        BY <1>17 DEF MarkFails, Fault, Skip
    <2>2. faults' \in Nat /\ faults' >= faults /\ crashes' + faults' > crashes + faults
        BY <1>15, <2>1 DEF Counted
    <2> QED BY <1>15, <2>1, <2>2, NoMail
<1>18. ASSUME Mark
       PROVE  Counted'
    <2>1. UNCHANGED <<mails, faults>> /\ faults' \in Nat /\ faults' >= faults
        BY <1>15, <1>18 DEF Mark, Counted
    <2>2. Owed' \subseteq Owed
        <3> SUFFICES ASSUME NEW p \in Pairs, NEW m \in Milestones, <<p, m>> \in Owed'
                     PROVE  <<p, m>> \in Owed
            BY DEF Owed
        <3>1. m \notin notified'[p]
            BY DEF Owed
        <3>2. ~(p = cur /\ m = milestone)
            BY <3>1, <1>18 DEF Mark, SetMark, LinksInv, LinksTypeOK
        <3> QED BY <1>5, <3>1, <3>2 DEF Owed, JustSent
    <2>3. pass' = "notice" => <<cur, milestone>> \in Owed /\ cur \in Pairs /\ milestone \in Milestones
        <3>1. pass' = "notice" => milestone >= MaxDays /\ pass = "mark"
            BY <1>18 DEF Mark, Skip
        <3>2. cur \in Pairs /\ milestone \in Milestones /\ milestone \in Nat /\ MaxDays \in Nat
            BY <1>18 DEF Mark, LinksInv, LinksTypeOK
        <3> QED BY <3>1, <3>2, <1>13 DEF Owed, JustSent
    <2>4. pass' = "notice" => cur' = cur /\ milestone' = milestone
        BY <1>1, <1>3
    <2>5. pass' = "notice" =>
              \E p \in Pairs, m \in Milestones : p = cur' /\ m = milestone' /\ <<p, m>> \in Owed
        BY <2>3, <2>4
    <2> QED BY <1>15, <2>1, <2>2, <2>5, NoMail
<1>19. ASSUME Notice, Mail(cur)
       PROVE  Counted'
    <2> DEFINE M == crashes + faults
    <2>1. pass = "notice" /\ pass' = "rows" /\ UNCHANGED <<notified, crashes, faults>>
        BY <1>19 DEF Notice, Skip
    <2>2. cur \in Pairs /\ milestone \in Milestones /\ milestone \in notified[cur]
        BY <2>1 DEF LinksInv, LinksTypeOK, Fetched
    <2>3. mails[cur] \in [Milestones -> Nat] /\ mails[cur][milestone] <= M /\ M \in Nat
        BY <2>1, <2>2 DEF LinksInv, Counted
    <2>4. mails' \in [Pairs -> [Milestones -> Nat]]
        <3>1. mails \in [Pairs -> [Milestones -> Nat]]
            BY DEF LinksInv, Counted
        <3>4. mails[cur][milestone] + 1 \in Nat
            <4>1. mails[cur][milestone] \in Nat
                BY <2>2, <2>3
            <4> QED BY <4>1
        <3>5. [mails[cur] EXCEPT ![milestone] = mails[cur][milestone] + 1] \in [Milestones -> Nat]
            BY <2>3, <3>4
        <3>2. PICK f \in [Milestones -> Nat] : f = [mails[cur] EXCEPT ![milestone] = @ + 1]
            BY <3>5
        <3>3. mails' = [mails EXCEPT ![cur] = f]
            BY <1>19, <2>2, <3>1, <3>2 DEF Mail
        <3> QED BY <2>2, <3>1, <3>3
    <2>5. \A q \in Pairs, m \in Milestones :
              mails'[q][m] = IF q = cur /\ m = milestone THEN mails[cur][milestone] + 1 ELSE mails[q][m]
        BY <1>19, <2>2 DEF Mail, LinksInv, Counted
    <2>6. Owed' \subseteq Owed
        BY <1>1, <2>1 DEF Owed, JustSent
    <2>7. <<cur, milestone>> \notin Owed
        BY <2>2 DEF Owed
    <2>8. ASSUME NEW q \in Pairs, NEW m \in Milestones
          PROVE  mails'[q][m] <= 1 + M /\ (<<q, m>> \in Owed' => mails'[q][m] <= M)
        <3>1. mails[q][m] \in Nat /\ mails[q][m] <= 1 + M /\ (<<q, m>> \in Owed => mails[q][m] <= M)
            BY DEF LinksInv, Counted
        <3>2. CASE q = cur /\ m = milestone
            <4>1. <<q, m>> \notin Owed'
                BY <2>6, <2>7, <3>2
            <4>2. mails'[q][m] = mails[cur][milestone] + 1
                BY <2>5, <3>2
            <4>3. mails[cur][milestone] \in Nat
                BY <3>1, <3>2
            <4> QED BY <2>3, <4>1, <4>2, <4>3
        <3>3. CASE ~(q = cur /\ m = milestone)
            <4>1. mails'[q][m] = mails[q][m]
                BY <2>5, <3>3
            <4> QED BY <2>6, <3>1, <4>1
        <3> QED BY <3>2, <3>3
    <2>9. crashes' = crashes /\ faults' = faults /\ crashes \in Nat /\ faults \in Nat /\ pass' # "notice"
        BY <2>1, <1>15 DEF Counted
    <2> QED BY <2>4, <2>8, <2>9, Zenon DEF Counted
<1>10. Counted'
    BY <1>16, <1>17, <1>18, <1>19 DEF Notice
<1> QED BY <1>6, <1>7, <1>8, <1>9, <1>10 DEF LinksInv

-----------------------------------------------------------------------------
(* The theorems *)

\* Every step keeps the invariant.
LEMMA LinksStep ==
    ASSUME LinksInv, [LinksNext]_linkVars
    PROVE  LinksInv'
<1>1. CASE TenantStep
    BY <1>1, TenantSteps
<1>2. CASE ProcessorStep
    BY <1>2, PassSteps, RowSteps, EndSteps DEF ProcessorStep
<1>3. CASE CronCrash
    BY <1>3, PassSteps
<1>4. ASSUME NEW e \in Events, EnrolStep(e)
      PROVE  LinksInv'
    BY <1>4, EnrolSteps
<1>5. CASE UNCHANGED linkVars
    BY <1>5 DEF linkVars, LinksInv, LinksTypeOK, Patient, Fetched, Gone, RemovedIsGone, Counted,
                Owed, JustSent
<1> QED BY <1>1, <1>2, <1>3, <1>4, <1>5 DEF LinksNext

\* The invariant holds throughout.
THEOREM LinksInvariant == LinksSpec => []LinksInv
BY LinksInitInv, LinksStep, PTL DEF LinksSpec

\* Type correctness: rows, links and milestones hold what they can hold, and the
\* processor has a row at hand where it works on one.
THEOREM LinksTypeCorrect == LinksSpec => []LinksTypeOK
<1>1. LinksInv => LinksTypeOK
    BY DEF LinksInv
<1> QED BY <1>1, LinksInvariant, PTL

\* A row that says removed speaks of a link that is gone, for any number of events
\* that enrolled the same link and any refusals of Graph.
THEOREM RemovedSafe == LinksSpec => []RemovedIsGone
<1>1. LinksInv => RemovedIsGone
    BY DEF LinksInv, Gone
<1> QED BY <1>1, LinksInvariant, PTL

\* An owner gets each mail of the countdown once, and once more for each crash or
\* failed call at most.
THEOREM MailsSafe == LinksSpec => []MailsOnce
<1>1. ASSUME LinksInv, NEW p \in Pairs, NEW m \in Milestones
      PROVE  mails[p][m] <= 1 + crashes + faults
    <2>1. mails[p][m] <= 1 + (crashes + faults) /\ crashes \in Nat /\ faults \in Nat
        BY <1>1 DEF LinksInv, Counted
    <2>2. 1 + (crashes + faults) = 1 + crashes + faults
        BY <2>1
    <2> QED BY <2>1, <2>2
<1>2. LinksInv => MailsOnce
    BY <1>1 DEF MailsOnce
<1> QED BY <1>2, LinksInvariant, PTL
-----------------------------------------------------------------------------
(* Remediation: the invariant *)

RowStatus == {"none", "active", "ms_managed", "expired_removed", "error", "manually_removed"}
RemedyStatus == {"none", "pending", "in_progress", "failed"} \cup Settled
Working == {"list", "remove", "record", "cascade", "validate", "finish"}

RemedyTypeOK ==
    /\ link \in [Links -> {"absent", "live", "gone"}] /\ row \in [Pairs -> RowStatus]
    /\ cur \in Pairs /\ batch \subseteq Pairs
    /\ crashes \in Nat /\ faults \in Nat
    /\ disposition \in [Events -> Dispositions \cup {"none"}] /\ request \subseteq Events
    /\ remedy \in [Events -> RemedyStatus] /\ cascaded \subseteq Events
    /\ remediated \subseteq Events
    /\ step \in Working \cup {"idle", "mark", "tell"}
    /\ located \subseteq Events /\ known \subseteq Events
    /\ event \in Events /\ target \in Events /\ todo \subseteq Links /\ perm \in Links
    /\ bad \in BOOLEAN /\ passed \in BOOLEAN
    /\ owed \in [Events -> SUBSET Links]
    /\ notes \in Seq(Events \X Dispositions)

\* Two services write rows: each has removed the link before it writes.
BothTrue == Gone /\ (step = "record" => link[perm] = "gone")

\* What is owed was shared, and for the event at hand it is on the items whose rows say
\* where they are.
WasLive ==
    /\ \A e \in Events : \A l \in owed[e] : link[l] # "absent"
    /\ step \in Working =>
           /\ event \in known <=> event \in located
           /\ \A l \in owed[event] : \E e \in located : l \in LinksOf[e]
           /\ event \notin known => owed[event] = {}

\* The row of the remediation at hand, and its items: at a listing there is one.
InHand ==
    /\ step \in {"list", "remove", "record"} =>
           located # {} /\ located \subseteq {event, Parent[event]}
    /\ step \in Working => remedy[event] = "in_progress"
    /\ step \in {"mark", "tell"} => remedy[event] \in Settled

\* A validation that passed has seen none of what was owed.
Validated == step = "finish" /\ passed => \A l \in owed[event] : link[l] = "gone"

\* While a remediation can still fail no note tells of it.
Untold == step = "mark" => \A i \in DOMAIN notes : notes[i] # <<event, "true_positive">>

\* The true positives whose request was cut off.
CutOff == {e \in Events : disposition[e] = "true_positive" /\ remedy[e] = "none"
                          /\ e \notin request}
Kept == IsFiniteSet(CutOff) /\ Cardinality(CutOff) <= faults

RemedyInv ==
    /\ RemedyTypeOK /\ BothTrue
    /\ WasLive /\ InHand /\ Validated /\ CompletedIsClean
    /\ Untold /\ ToldAfterRemedy
    /\ Kept

USE RemediationAssumption DEF linkVars, dashboard, rows, executor

-----------------------------------------------------------------------------
(* Remediation: the links and their rows *)

\* Before the first review there is nothing to remedy.
LEMMA RemedyInitInv == Init => RemedyInv
<1> SUFFICES ASSUME Init PROVE RemedyInv
    OBVIOUS
<1>1. LinksInv
    BY LinksInitInv DEF Init
<1>2. AnyEvent \in Events /\ AnyLink \in Links
    BY DEF AnyEvent, AnyLink
<1>3. RemedyTypeOK
    <2>1. /\ link \in [Links -> {"absent", "live", "gone"}] /\ row \in [Pairs -> RowStatus]
          /\ cur \in Pairs /\ batch \subseteq Pairs
          /\ crashes \in Nat /\ faults \in Nat
        BY <1>1 DEF LinksInv, LinksTypeOK, Counted, RowStatus
    <2>2. notes \in Seq(Events \X Dispositions)
        BY DEF Init
    <2>3. disposition \in [Events -> Dispositions \cup {"none"}]
        BY DEF Init
    <2>4. remedy \in [Events -> RemedyStatus]
        BY DEF Init, RemedyStatus
    <2> QED BY <1>2, <2>1, <2>2, <2>3, <2>4 DEF Init, RemedyTypeOK
<1>4. BothTrue /\ WasLive /\ InHand /\ Validated /\ CompletedIsClean /\ Untold /\ ToldAfterRemedy
    BY <1>1, <1>2 DEF LinksInv, Init, BothTrue, WasLive, InHand, Working, Validated,
                      CompletedIsClean, Untold, ToldAfterRemedy
<1>5. CutOff = {}
    BY DEF Init, CutOff
<1>6. IsFiniteSet(CutOff) /\ Cardinality(CutOff) = 0 /\ faults = 0
    BY <1>5, FS_EmptySet DEF Init, LinksInit
<1>7. Kept
    BY <1>6 DEF Kept
<1> QED BY <1>3, <1>4, <1>7 DEF RemedyInv

\* What every step leaves true of links and mishaps: a link that was shared stays
\* shared or is gone, one that is gone stays gone.
Onward ==
    /\ link' \in [Links -> {"absent", "live", "gone"}] /\ row' \in [Pairs -> RowStatus]
    /\ cur' \in Pairs /\ batch' \subseteq Pairs
    /\ crashes' \in Nat /\ faults' \in Nat /\ faults' >= faults
    /\ \A l \in Links : /\ link[l] # "absent" => link'[l] # "absent"
                        /\ link[l] = "gone" => link'[l] = "gone"

\* A step of the tenant or of an enrolment.
LEMMA TenantOnward ==
    ASSUME RemedyInv, TenantStep \/ \E e \in Events : EnrolStep(e), LinksOnly
    PROVE  Onward /\ BothTrue'
<1>1. CASE TenantStep
    <2>1. UNCHANGED <<row, pass, cur, batch, crashes, faults, step, perm>>
        BY <1>1 DEF TenantStep, Tick, LinkEnds, Share, LinksOnly
    <2>2. /\ link' \in [Links -> {"absent", "live", "gone"}]
          /\ \A l \in Links : /\ link[l] # "absent" => link'[l] # "absent"
                              /\ link[l] = "gone" => link'[l] = "gone"
        BY <1>1 DEF TenantStep, Tick, LinkEnds, Share, RemedyInv, RemedyTypeOK
    <2>3. Onward
        BY <2>1, <2>2 DEF Onward, RemedyInv, RemedyTypeOK
    <2>4. BothTrue'
        BY <2>1, <2>2, PairTypes DEF BothTrue, Gone, RemovedIsGone, RemedyInv, RemedyTypeOK
    <2> QED BY <2>3, <2>4
<1>2. ASSUME NEW e \in Events, EnrolStep(e)
      PROVE  Onward /\ BothTrue'
    <2>1. /\ UNCHANGED <<link, pass, cur, batch, crashes, step, perm>>
          /\ faults' \in Nat /\ faults' >= faults
        BY <1>2 DEF EnrolStep, ListLinks, Enrol, EnrolFails, Fault, LinksOnly, RemedyInv,
                    RemedyTypeOK
    <2>2. /\ row' \in [Pairs -> RowStatus]
          /\ \A p \in Pairs : row'[p] = row[p] \/ row'[p] \in {"active", "ms_managed"}
        BY <1>2 DEF EnrolStep, ListLinks, Enrol, EnrolFails, InsertRow, FirstStatus, RemedyInv,
                    RemedyTypeOK, RowStatus
    <2>3. Onward
        BY <2>1, <2>2 DEF Onward, RemedyInv, RemedyTypeOK
    <2>4. BothTrue'
        BY <2>1, <2>2 DEF BothTrue, Gone, RemovedIsGone, RemedyInv
    <2> QED BY <2>3, <2>4
<1> QED BY <1>1, <1>2

\* A step of the processor or its crash: it writes 'expired_removed' after its DELETE.
LEMMA ProcessorOnward ==
    ASSUME RemedyInv, ProcessorStep \/ CronCrash, LinksOnly
    PROVE  Onward /\ BothTrue'
<1> USE DEF RemedyInv, RemedyTypeOK
<1>1. AnyPair \in Pairs
    BY DEF AnyPair
<1>2. UNCHANGED <<step, perm>>
    BY DEF LinksOnly
<1>3. CASE StartPass \/ Fetch \/ FetchFails \/ MilestoneDone \/ CronCrash
    <2>1. /\ UNCHANGED <<link, row>> /\ pass' # "write"
          /\ crashes' \in Nat /\ faults' \in Nat /\ faults' >= faults
          /\ cur' \in Pairs /\ batch' \subseteq Pairs
        BY <1>1, <1>3 DEF StartPass, Fetch, FetchFails, MilestoneDone, NextMilestone, CronCrash,
                          Fault, Crash, Due
    <2> QED BY <1>2, <2>1 DEF Onward, BothTrue, Gone, RemovedIsGone
<1>4. ASSUME NEW p \in Pairs, Countdown(p) \/ CountdownFails(p) \/ Remove(p) \/ RemoveFails(p)
      PROVE  Onward /\ BothTrue'
    <2>1. /\ UNCHANGED <<row, crashes, faults>>
          /\ cur' \in Pairs /\ batch' \subseteq Pairs
        BY <1>1, <1>4 DEF Countdown, CountdownFails, Remove, RemoveFails, TakeUp, Skip
    <2>2. /\ \A l \in Links : /\ link[l] # "absent" => link'[l] # "absent"
                              /\ link[l] = "gone" => link'[l] = "gone"
          /\ link' \in [Links -> {"absent", "live", "gone"}]
          /\ pass' = "write" => link'[cur'[2]] = "gone"
        BY <1>4, PairTypes
           DEF Countdown, CountdownFails, Remove, RemoveFails, TakeUp, Skip, FailStep
    <2>3. RemovedIsGone'
        BY <2>1, <2>2, PairTypes DEF BothTrue, Gone, RemovedIsGone
    <2> QED BY <1>2, <2>1, <2>2, <2>3 DEF Onward, BothTrue, Gone
<1>5. CASE WriteRemoved \/ WriteFailure \/ Mark \/ MarkFails \/ Notice
    <2>1. /\ UNCHANGED link /\ pass' # "write"
          /\ crashes' \in Nat /\ faults' \in Nat /\ faults' >= faults
          /\ cur' \in Pairs /\ batch' \subseteq Pairs
        BY <1>1, <1>5 DEF WriteRemoved, WriteFailure, Mark, MarkFails, Notice, Fault, Skip
    <2>2. /\ row' \in [Pairs -> RowStatus]
          /\ \A p \in Pairs : \/ row'[p] = row[p] \/ row'[p] \in {"active", "error"}
                              \/ p = cur /\ pass = "write"
        BY <1>5 DEF WriteRemoved, WriteFailure, Mark, MarkFails, Notice, RowStatus
    <2> QED BY <1>2, <2>1, <2>2 DEF Onward, BothTrue, Gone, RemovedIsGone
<1> QED BY <1>3, <1>4, <1>5 DEF ProcessorStep

\* A step of the dashboard, of the executor or of the worker: only the executor
\* removes links, and it writes 'manually_removed' after its DELETE.
LEMMA RemedyOnward ==
    ASSUME RemedyInv, DashboardStep \/ ExecutorStep \/ TellUser \/ WorkerRestart
    PROVE  Onward /\ BothTrue'
<1> USE DEF RemedyInv, RemedyTypeOK
<1>1. ASSUME NEW l \in Links, Delete(l)
      PROVE  Onward /\ BothTrue'
    <2>1. /\ UNCHANGED <<row, pass, cur, batch, crashes, faults>>
          /\ perm' = l /\ link' = [link EXCEPT ![l] = "gone"]
        BY <1>1 DEF Delete
    <2> QED BY <2>1, PairTypes DEF Onward, BothTrue, Gone, RemovedIsGone
<1>2. CASE RecordRemoval
    <2>1. /\ UNCHANGED <<link, pass, cur, batch, crashes>> /\ step' = "remove"
          /\ faults' \in Nat /\ faults' >= faults
          /\ row' \in [Pairs -> RowStatus]
          /\ \A p \in Pairs : row'[p] = row[p] \/ p[2] = perm
        BY <1>2 DEF RecordRemoval, Fault, RowStatus
    <2>2. link[perm] = "gone"
        BY <1>2 DEF RecordRemoval, BothTrue
    <2> QED BY <2>1, <2>2 DEF Onward, BothTrue, Gone, RemovedIsGone
<1>3. CASE /\ UNCHANGED <<link, row, pass, cur, batch>>
           /\ crashes' \in Nat /\ faults' \in Nat /\ faults' >= faults
           /\ step' = "record" => step = "record" /\ perm' = perm
    BY <1>3 DEF Onward, BothTrue, Gone, RemovedIsGone
<1>4. ASSUME DashboardStep \/ TellUser \/ WorkerRestart
      PROVE  Onward /\ BothTrue'
    <2>1. /\ UNCHANGED <<link, row, pass, cur, batch>>
          /\ step' = "record" => step = "record" /\ perm' = perm
        BY <1>4 DEF DashboardStep, ReviewOne, RequestRemedy, RequestLost, ReviewBulk, TellUser,
                    WorkerRestart, Rest
    <2>2. \/ UNCHANGED <<crashes, faults>>
          \/ UNCHANGED crashes /\ faults' = faults + 1
          \/ UNCHANGED faults /\ crashes' = crashes + 1
        BY <1>4 DEF DashboardStep, ReviewOne, RequestRemedy, RequestLost, ReviewBulk, TellUser,
                    WorkerRestart, Fault, Crash
    <2> QED BY <1>3, <2>1, <2>2
<1>5. ASSUME \/ \E e \in Events, S \in SUBSET Events : Claim(e, S)
             \/ \E l \in Links : DeleteFails(l)
             \/ ListPermissions \/ ItemDone \/ Cascade \/ Validate \/ FinishRemedy
             \/ MarkRemediated \/ QueueNote \/ ExecuteRaises
      PROVE  Onward /\ BothTrue'
    BY <1>3, <1>5 DEF Claim, DeleteFails, ListPermissions, ItemDone, Cascade, Validate,
                      FinishRemedy, MarkRemediated, QueueNote, ExecuteRaises, Rest, Fault
<1> QED BY <1>1, <1>2, <1>4, <1>5 DEF ExecutorStep

\* Every step goes onward.
LEMMA OnwardStep ==
    ASSUME RemedyInv, [Next]_vars
    PROVE  Onward /\ BothTrue'
<1>1. CASE UNCHANGED vars
    BY <1>1 DEF vars, Onward, BothTrue, Gone, RemovedIsGone, RemedyInv, RemedyTypeOK
<1> QED BY <1>1, TenantOnward, ProcessorOnward, RemedyOnward DEF Next

-----------------------------------------------------------------------------
(* Remediation: the steps *)

\* Whatever else runs, the dashboard's and the worker's state is as it was.
LEMMA Beside ==
    ASSUME RemedyInv, LinksOnly, Onward, BothTrue'
    PROVE  RemedyInv'
<1>1. UNCHANGED <<dashboard, remedy, cascaded, remediated, executor, notes>>
    BY DEF LinksOnly
<1>2. RemedyTypeOK'
    BY <1>1 DEF Onward, RemedyInv, RemedyTypeOK
<1>3. \A e \in Events : owed[e] \subseteq Links
    BY DEF RemedyInv, RemedyTypeOK
<1>4. WasLive' /\ InHand' /\ Untold' /\ ToldAfterRemedy'
    BY <1>1, <1>3 DEF Onward, RemedyInv, WasLive, InHand, Untold, ToldAfterRemedy
<1>5. Validated' /\ CompletedIsClean'
    BY <1>1, <1>3 DEF Onward, RemedyInv, RemedyTypeOK, Validated, CompletedIsClean
<1>6. CutOff' = CutOff
    BY <1>1 DEF CutOff
<1>7. Cardinality(CutOff) \in Nat
    BY FS_CardinalityType DEF RemedyInv, Kept
<1>8. Kept'
    BY <1>6, <1>7 DEF Onward, RemedyInv, RemedyTypeOK, Kept
<1> QED BY <1>2, <1>4, <1>5, <1>8 DEF RemedyInv

\* The set of the cut-off requests grows by the one that a fault is counted for.
LEMMA CutOffGrows ==
    ASSUME RemedyInv, Onward,
           \/ CutOff' \subseteq CutOff
           \/ faults' = faults + 1 /\ \E e \in Events : CutOff' \subseteq CutOff \cup {e}
    PROVE  Kept'
<1> DEFINE C == CutOff
           D == CutOff'
<1>1. IsFiniteSet(C) /\ Cardinality(C) <= faults /\ Cardinality(C) \in Nat
    BY FS_CardinalityType DEF RemedyInv, Kept
<1>2. faults \in Nat /\ faults' \in Nat /\ faults' >= faults
    BY DEF RemedyInv, RemedyTypeOK, Onward
<1>3. D \subseteq C \/ (faults' = faults + 1 /\ \E e \in Events : D \subseteq C \cup {e})
    OBVIOUS
<1>4. IsFiniteSet(D) /\ Cardinality(D) <= faults'
    <2> HIDE DEF C, D
    <2>1. CASE D \subseteq C
        <3>1. IsFiniteSet(D) /\ Cardinality(D) <= Cardinality(C) /\ Cardinality(D) \in Nat
            BY <1>1, <2>1, FS_Subset, FS_CardinalityType
        <3> QED BY <1>1, <1>2, <3>1
    <2>2. ASSUME faults' = faults + 1, NEW e \in Events, D \subseteq C \cup {e}
          PROVE  IsFiniteSet(D) /\ Cardinality(D) <= faults'
        <3>1. /\ IsFiniteSet(C \cup {e}) /\ Cardinality(C \cup {e}) \in Nat
              /\ Cardinality(C \cup {e}) <= Cardinality(C) + 1
            <4>1. /\ IsFiniteSet(C \cup {e})
                  /\ Cardinality(C \cup {e}) = IF e \in C THEN Cardinality(C)
                                               ELSE Cardinality(C) + 1
                BY <1>1, FS_AddElement
            <4> QED BY <1>1, <4>1
        <3>2. IsFiniteSet(D) /\ Cardinality(D) <= Cardinality(C \cup {e}) /\ Cardinality(D) \in Nat
            BY <2>2, <3>1, FS_Subset, FS_CardinalityType
        <3> QED BY <1>1, <1>2, <2>2, <3>1, <3>2
    <2> QED BY <1>3, <2>1, <2>2
<1> QED BY <1>4 DEF Kept

\* A note more, of whatever was not told as a removal.
LEMMA NoteAdded ==
    ASSUME NEW q \in Seq(Events \X Dispositions), NEW e \in Events, NEW d \in Dispositions
    PROVE  /\ Append(q, <<e, d>>) \in Seq(Events \X Dispositions)
           /\ \A n : (\E i \in DOMAIN Append(q, <<e, d>>) : Append(q, <<e, d>>)[i] = n)
                       => n = <<e, d>> \/ \E i \in DOMAIN q : q[i] = n
OBVIOUS

\* A review writes a verdict and asks for a remediation, or tells of a moderate risk.
LEMMA DashboardSteps ==
    ASSUME RemedyInv, DashboardStep, Onward, BothTrue'
    PROVE  RemedyInv'
<1> USE DEF RemedyInv, RemedyTypeOK
<1>1. UNCHANGED <<remediated, executor, link>>
    BY DEF DashboardStep, ReviewOne, RequestRemedy, RequestLost, ReviewBulk
<1>2. /\ disposition' \in [Events -> Dispositions \cup {"none"}]
      /\ request' \subseteq Events /\ cascaded' \subseteq Events
    <2> DEFINE Verdicts == disposition' \in [Events -> Dispositions \cup {"none"}]
               Requests == request' \subseteq Events /\ cascaded' \subseteq Events
    <2>1. ASSUME NEW e \in Events, NEW d \in Dispositions, ReviewOne(e, d)
          PROVE  Verdicts /\ Requests
        <3>1. disposition' = [disposition EXCEPT ![e] = d] /\ UNCHANGED cascaded
            BY <2>1 DEF ReviewOne
        <3>2. request' \subseteq request \cup {e}
            BY <2>1 DEF ReviewOne
        <3> QED BY <3>1, <3>2
    <2>2. ASSUME NEW e \in Events, RequestRemedy(e) \/ RequestLost(e)
          PROVE  Verdicts /\ Requests
        <3>1. UNCHANGED disposition /\ request' \subseteq request /\ cascaded' \subseteq cascaded
            BY <2>2 DEF RequestRemedy, RequestLost
        <3> QED BY <3>1
    <2>3. ASSUME NEW S \in SUBSET Events, NEW d \in Dispositions, ReviewBulk(S, d)
          PROVE  Verdicts /\ Requests
        <3>1. /\ disposition' = [e \in Events |-> IF e \in {x \in S : disposition[x] # d} THEN d
                                                  ELSE disposition[e]]
              /\ UNCHANGED request /\ cascaded' \subseteq cascaded
            BY <2>3 DEF ReviewBulk
        <3> QED BY <3>1
    <2> QED BY <2>1, <2>2, <2>3 DEF DashboardStep
<1> DEFINE Rows ==
        /\ remedy' \in [Events -> RemedyStatus]
        /\ \A e \in Events : \/ remedy'[e] = remedy[e] /\ (e \in cascaded' <=> e \in cascaded)
                             \/ remedy[e] \notin Active /\ remedy'[e] = "pending"
<1>3. Rows
    <2>1. ASSUME NEW S \in SUBSET Events, Insert(S), \A e \in S : remedy[e] \notin Active,
                 cascaded' = cascaded \ S
          PROVE  Rows
        BY <2>1 DEF Insert, RemedyStatus
    <2>2. ASSUME NEW e \in Events, NEW d \in Dispositions, ReviewOne(e, d)
          PROVE  Rows
        BY <2>2 DEF ReviewOne
    <2>3. ASSUME NEW e \in Events, RequestRemedy(e)
          PROVE  Rows
        BY <2>3, <2>1 DEF RequestRemedy
    <2>4. ASSUME NEW e \in Events, RequestLost(e)
          PROVE  Rows
        BY <2>4 DEF RequestLost
    <2>5. ASSUME NEW S \in SUBSET Events, NEW d \in Dispositions, ReviewBulk(S, d)
          PROVE  Rows
        BY <2>5, <2>1 DEF ReviewBulk
    <2> QED BY <2>2, <2>3, <2>4, <2>5 DEF DashboardStep
<1> DEFINE Notes ==
        /\ notes' \in Seq(Events \X Dispositions)
        /\ \A e \in Events : (\E i \in DOMAIN notes' : notes'[i] = <<e, "true_positive">>)
                                => \E i \in DOMAIN notes : notes[i] = <<e, "true_positive">>
<1>4. Notes
    <2>1. ASSUME NEW e \in Events, NEW d \in Dispositions, ReviewOne(e, d)
          PROVE  Notes
        <3>1. CASE notes' = notes
            BY <3>1
        <3>2. CASE d = "moderate_risk" /\ notes' = Append(notes, <<e, d>>)
            BY <3>2, NoteAdded
        <3> QED BY <2>1, <3>1, <3>2 DEF ReviewOne, Tell
    <2>2. ASSUME NEW e \in Events, RequestRemedy(e) \/ RequestLost(e)
          PROVE  Notes
        BY <2>2 DEF RequestRemedy, RequestLost
    <2>3. ASSUME NEW S \in SUBSET Events, NEW d \in Dispositions, ReviewBulk(S, d)
          PROVE  Notes
        <3> DEFINE written == {e \in S : disposition[e] # d}
        <3>1. PICK order \in [1..Cardinality(written) -> written] :
                 notes' = IF d = "moderate_risk"
                          THEN notes \o [i \in DOMAIN order |-> <<order[i], d>>] ELSE notes
            BY <2>3 DEF ReviewBulk
        <3>2. CASE d = "moderate_risk"
            <4> DEFINE more == [i \in DOMAIN order |-> <<order[i], d>>]
            <4>1. more \in Seq(Events \X Dispositions)
                <5> HIDE DEF RemedyInv, RemedyTypeOK
                <5> DEFINE n == Cardinality(written)
                <5>1. n \in Nat /\ written \subseteq Events
                    BY FS_Subset, FS_CardinalityType
                <5>2. DOMAIN order = 1..n /\ \A i \in 1..n : order[i] \in written
                    OBVIOUS
                <5> HIDE DEF written, n
                <5>3. more \in [1..n -> Events \X Dispositions]
                    BY <5>1, <5>2
                <5> HIDE DEF more
                <5> QED BY <5>1, <5>3
            <4>2. notes' = notes \o more
                BY <3>1, <3>2
            <4>3. \A i \in DOMAIN more : more[i][2] = "moderate_risk"
                BY <3>2
            <4> HIDE DEF more
            <4> QED BY <4>1, <4>2, <4>3
        <3>3. CASE d # "moderate_risk"
            BY <3>1, <3>3
        <3> QED BY <3>2, <3>3
    <2> QED BY <2>1, <2>2, <2>3 DEF DashboardStep
<1>5. RemedyTypeOK'
    BY <1>1, <1>2, <1>3, <1>4 DEF Onward
<1>6. WasLive' /\ Validated'
    BY <1>1 DEF WasLive, Validated
<1>7. InHand'
    BY <1>1, <1>3 DEF InHand, Active, Settled, Working
<1>8. CompletedIsClean'
    BY <1>1, <1>3 DEF CompletedIsClean
<1>9. Untold' /\ ToldAfterRemedy'
    BY <1>1, <1>3, <1>4 DEF Untold, ToldAfterRemedy, Active, Settled
<1>10. Kept'
    <2>1. ASSUME NEW e \in Events, NEW d \in Dispositions, ReviewOne(e, d)
          PROVE  CutOff' \subseteq CutOff
        BY <2>1 DEF ReviewOne, CutOff
    <2>2. ASSUME NEW e \in Events, RequestRemedy(e)
          PROVE  CutOff' \subseteq CutOff
        BY <2>2 DEF RequestRemedy, Insert, CutOff, Active
    <2>3. ASSUME NEW e \in Events, RequestLost(e)
          PROVE  faults' = faults + 1 /\ CutOff' \subseteq CutOff \cup {e}
        BY <2>3 DEF RequestLost, Fault, CutOff
    <2>4. ASSUME NEW S \in SUBSET Events, NEW d \in Dispositions, ReviewBulk(S, d)
          PROVE  CutOff' \subseteq CutOff
        BY <2>4 DEF ReviewBulk, Insert, NeedsRemedy, CutOff
    <2> QED BY <2>1, <2>2, <2>3, <2>4, CutOffGrows DEF DashboardStep
<1> QED BY <1>5, <1>6, <1>7, <1>8, <1>9, <1>10

\* Steps that leave reviews alone and unmake no remediation cut off no request.
LEMMA NoneCutOff ==
    ASSUME RemedyInv, Onward, UNCHANGED <<disposition, request>>,
           \A e \in Events : remedy'[e] = "none" => remedy[e] = "none"
    PROVE  Kept'
<1>1. CutOff' \subseteq CutOff
    BY DEF CutOff
<1> QED BY <1>1, CutOffGrows

\* The executor's work on the links: listing, deleting, recording, validating.
LEMMA WorkSteps ==
    ASSUME RemedyInv, Onward, BothTrue',
           \/ ListPermissions \/ RecordRemoval \/ ItemDone \/ Validate
           \/ \E l \in Links : Delete(l) \/ DeleteFails(l)
    PROVE  RemedyInv'
<1> USE DEF RemedyInv, RemedyTypeOK
<1>1. /\ UNCHANGED <<dashboard, remedy, cascaded, remediated, notes, event, located, owed, known>>
      /\ step \in Working /\ step' \in Working
    BY DEF ListPermissions, RecordRemoval, ItemDone, Validate, Delete, DeleteFails, Working
<1>2. /\ target' \in Events /\ todo' \subseteq Links /\ perm' \in Links
      /\ bad' \in BOOLEAN /\ passed' \in BOOLEAN
    <2>1. AnyLink \in Links
        BY DEF AnyLink
    <2>2. LiveOn(target) \subseteq Links
        BY DEF LiveOn
    <2>3. CASE Validate
        BY <2>3 DEF Validate
    <2>4. CASE ItemDone
        <3>1. target' \in {target, Parent[event]} /\ UNCHANGED <<todo, perm, bad, passed>>
              /\ (target' # target => located # {event} /\ step = "remove")
            BY <2>4 DEF ItemDone
        <3>2. target' # target => Parent[event] \in located
            BY <3>1 DEF InHand
        <3> QED BY <3>1, <3>2
    <2>5. CASE ListPermissions
        BY <2>2, <2>5 DEF ListPermissions
    <2>6. CASE RecordRemoval \/ \E l \in Links : Delete(l) \/ DeleteFails(l)
        BY <2>1, <2>6 DEF RecordRemoval, Delete, DeleteFails
    <2> QED BY <2>3, <2>4, <2>5, <2>6
<1>3. RemedyTypeOK'
    BY <1>1, <1>2 DEF Onward
<1>7. step' \in {"list", "remove", "record"} => step \in {"list", "remove", "record"}
    BY DEF ListPermissions, RecordRemoval, ItemDone, Validate, Delete, DeleteFails
<1>8. InHand'
    BY <1>1, <1>7 DEF InHand, Working
<1>9. WasLive'
    BY <1>1 DEF Onward, WasLive
<1>4. CompletedIsClean' /\ Untold' /\ ToldAfterRemedy'
    BY <1>1 DEF Onward, CompletedIsClean, Untold, ToldAfterRemedy, Working
<1>5. Validated'
    <2>1. CASE Validate
        <3>1. UNCHANGED <<link, event, owed>> /\ (passed' => Remaining = {}) /\ step = "validate"
            BY <2>1 DEF Validate
        <3>2. ASSUME Remaining = {}, NEW l \in owed[event]
              PROVE  link[l] = "gone"
            <4>1. l \in Links /\ link[l] # "absent"
                BY DEF WasLive
            <4>2. PICK e \in located : l \in LinksOf[e]
                BY <3>1 DEF WasLive, Working
            <4>3. l \notin LiveOn(e)
                BY <3>2, <4>2 DEF Remaining
            <4> QED BY <4>1, <4>2, <4>3 DEF LiveOn
        <3> QED BY <3>1, <3>2 DEF Validated
    <2>2. CASE ~Validate
        BY <1>1, <2>2 DEF ListPermissions, RecordRemoval, ItemDone, Delete, DeleteFails, Validated
    <2> QED BY <2>1, <2>2
<1>6. Kept'
    BY <1>1, NoneCutOff
<1> QED BY <1>3, <1>4, <1>5, <1>6, <1>8, <1>9

\* The executor claims a remediation and writes its outcomes; the rows left by a
\* worker that died are claimed again.
LEMMA RowWriteSteps ==
    ASSUME RemedyInv, Onward, BothTrue',
           \/ \E e \in Events, S \in SUBSET Events : Claim(e, S)
           \/ Cascade \/ FinishRemedy \/ MarkRemediated \/ QueueNote \/ ExecuteRaises
           \/ WorkerRestart
    PROVE  RemedyInv'
<1> USE DEF RemedyInv, RemedyTypeOK
<1>1. UNCHANGED <<dashboard, link>>
    BY DEF Claim, Cascade, FinishRemedy, MarkRemediated, QueueNote, ExecuteRaises, WorkerRestart
<1>2. AnyEvent \in Events /\ AnyLink \in Links
    BY DEF AnyEvent, AnyLink
<1>3. ASSUME NEW e \in Events, NEW S \in SUBSET Events, Claim(e, S)
      PROVE  RemedyInv'
    <2> DEFINE L == IF e \in S THEN UNION {LiveOn(f) : f \in S} ELSE {}
    <2>1. /\ UNCHANGED <<cascaded, remediated, notes, bad, passed, todo, perm>>
          /\ remedy[e] = "pending" /\ remedy' = [remedy EXCEPT ![e] = "in_progress"]
          /\ event' = e /\ target' \in Events /\ step' \in {"list", "finish"}
          /\ located' = S /\ (S = {} <=> step' = "finish") /\ S \subseteq {e, Parent[e]}
          /\ owed' = [owed EXCEPT ![e] = L]
          /\ known' = IF e \in S THEN known \cup {e} ELSE known \ {e}
        BY <1>3, LocatedAssumption DEF Claim
    <2>2. /\ L \subseteq Links
          /\ \A l \in L : link[l] # "absent" /\ e \in S /\ \E f \in S : l \in LinksOf[f]
        BY DEF LiveOn
    <2> HIDE DEF L
    <2>3. RemedyTypeOK'
        <3>1. remedy' \in [Events -> RemedyStatus] /\ owed' \in [Events -> SUBSET Links]
            BY <2>1, <2>2 DEF RemedyStatus
        <3>2. located' \subseteq Events /\ known' \subseteq Events
              /\ step' \in Working \cup {"idle", "mark", "tell"}
            BY <2>1 DEF Working
        <3> QED BY <1>1, <2>1, <3>1, <3>2 DEF Onward
    <2>4. WasLive'
        <3>1. owed'[e] = L /\ \A f \in Events : f # e => owed'[f] = owed[f]
            BY <2>1
        <3>2. e \in known' <=> e \in S
            BY <2>1
        <3> QED BY <1>1, <2>1, <2>2, <3>1, <3>2 DEF WasLive
    <2>5. InHand' /\ Untold'
        BY <2>1 DEF InHand, Working, Untold
    <2>6. CompletedIsClean' /\ Validated'
        BY <1>1, <2>1, <2>2 DEF CompletedIsClean, Validated
    <2>7. ToldAfterRemedy'
        BY <2>1 DEF ToldAfterRemedy, Settled
    <2>8. Kept'
        BY <1>1, <2>1, NoneCutOff
    <2> QED BY <2>3, <2>4, <2>5, <2>6, <2>7, <2>8
<1>4. CASE Cascade
    <2>1. /\ UNCHANGED <<notes, event, located, owed, known, target, bad, passed, todo, perm>>
          /\ step = "cascade" /\ step' = IF event \in located THEN "validate" ELSE "finish"
          /\ \/ UNCHANGED <<remedy, cascaded>>
             \/ /\ remedy[target] \notin Active
                /\ remedy' = [remedy EXCEPT ![target] = "completed"]
                /\ cascaded' = cascaded \cup {target}
          /\ remediated' \subseteq Events
        BY <1>4 DEF Cascade
    <2>2. RemedyTypeOK'
        BY <1>1, <2>1 DEF Onward, RemedyStatus, Settled, Working
    <2>3. WasLive' /\ Validated' /\ Untold'
        BY <1>1, <2>1 DEF WasLive, Validated, Untold
    <2>4. InHand'
        BY <2>1 DEF InHand, Working, Active
    <2>5. CompletedIsClean'
        BY <1>1, <2>1 DEF CompletedIsClean
    <2>6. ToldAfterRemedy'
        BY <2>1 DEF ToldAfterRemedy, Settled
    <2>7. Kept'
        BY <1>1, <2>1, NoneCutOff
    <2> QED BY <2>2, <2>3, <2>4, <2>5, <2>6, <2>7
<1>5. CASE FinishRemedy
    <2>1. /\ UNCHANGED <<cascaded, remediated, notes, event, located, owed, known, target, bad, passed, todo, perm>>
          /\ step = "finish" /\ step' = "mark"
          /\ remedy' = [remedy EXCEPT ![event] =
                          IF passed /\ ~bad THEN "completed" ELSE "completed_with_warnings"]
        BY <1>5 DEF FinishRemedy
    <2>2. RemedyTypeOK'
        BY <1>1, <2>1 DEF Onward, RemedyStatus, Settled, Working
    <2>3. WasLive' /\ Validated' /\ InHand'
        BY <1>1, <2>1 DEF WasLive, Validated, InHand, Settled, Working
    <2>4. CompletedIsClean'
        BY <1>1, <2>1 DEF CompletedIsClean, Validated
    <2>5. Untold' /\ ToldAfterRemedy'
        <3>1. remedy[event] = "in_progress"
            BY <2>1 DEF InHand, Working
        <3> QED BY <2>1, <3>1 DEF Untold, ToldAfterRemedy, Settled
    <2>6. Kept'
        BY <1>1, <2>1, NoneCutOff
    <2> QED BY <2>2, <2>3, <2>4, <2>5, <2>6
<1>6. CASE MarkRemediated
    <2>1. /\ UNCHANGED <<remedy, cascaded, notes, event, located, owed, known, target, bad, passed, todo, perm>>
          /\ step = "mark" /\ step' = "tell" /\ remediated' \subseteq Events
        BY <1>6 DEF MarkRemediated
    <2>2. RemedyTypeOK'
        BY <1>1, <2>1 DEF Onward, Working
    <2>3. WasLive' /\ Validated' /\ InHand' /\ CompletedIsClean' /\ Untold' /\ ToldAfterRemedy'
        BY <1>1, <2>1 DEF WasLive, Validated, InHand, Working, CompletedIsClean, Untold,
                          ToldAfterRemedy
    <2>4. Kept'
        BY <1>1, <2>1, NoneCutOff
    <2> QED BY <2>2, <2>3, <2>4
<1>7. CASE QueueNote
    <2>1. /\ UNCHANGED <<remedy, cascaded, remediated, owed, known>> /\ Rest
          /\ step = "tell" /\ (notes' = notes \/ notes' = Append(notes, <<event, "true_positive">>))
        BY <1>7 DEF QueueNote, Tell, Rest
    <2>2. /\ notes' \in Seq(Events \X Dispositions)
          /\ \A e \in Events : (\E i \in DOMAIN notes' : notes'[i] = <<e, "true_positive">>)
                => e = event \/ \E i \in DOMAIN notes : notes[i] = <<e, "true_positive">>
        <3>1. CASE notes' = notes
            BY <3>1
        <3>2. CASE notes' = Append(notes, <<event, "true_positive">>)
            BY <3>2, NoteAdded DEF Dispositions
        <3> QED BY <2>1, <3>1, <3>2
    <2>3. RemedyTypeOK'
        BY <1>1, <1>2, <2>1, <2>2 DEF Onward, Rest
    <2>4. WasLive' /\ Validated' /\ InHand' /\ CompletedIsClean' /\ Untold'
        BY <1>1, <2>1 DEF Rest, WasLive, Validated, InHand, Working, CompletedIsClean, Untold
    <2>5. ToldAfterRemedy'
        BY <2>1, <2>2 DEF ToldAfterRemedy, InHand
    <2>6. Kept'
        BY <1>1, <2>1, NoneCutOff
    <2> QED BY <2>3, <2>4, <2>5, <2>6
<1>8. CASE ExecuteRaises
    <2>1. /\ UNCHANGED <<cascaded, remediated, owed, known, notes>> /\ Rest
          /\ step \in Working \cup {"mark"}
          /\ remedy' \in {remedy, [remedy EXCEPT ![event] = "failed"]}
        BY <1>8 DEF ExecuteRaises, Rest, Working
    <2>2. RemedyTypeOK'
        BY <1>1, <1>2, <2>1 DEF Onward, Rest, RemedyStatus
    <2>3. WasLive' /\ Validated' /\ InHand' /\ CompletedIsClean' /\ Untold'
        BY <1>1, <2>1 DEF Rest, WasLive, Validated, InHand, Working, CompletedIsClean, Untold
    <2>4. \A i \in DOMAIN notes : notes[i] # <<event, "true_positive">>
        BY <2>1 DEF Untold, ToldAfterRemedy, InHand, Settled
    <2>5. ToldAfterRemedy'
        BY <2>1, <2>4 DEF ToldAfterRemedy
    <2>6. Kept'
        BY <1>1, <2>1, NoneCutOff
    <2> QED BY <2>2, <2>3, <2>5, <2>6
<1>9. CASE WorkerRestart
    <2>1. /\ UNCHANGED <<cascaded, remediated, owed, known, notes>> /\ Rest /\ remedy' = Reclaimed
        BY <1>9 DEF WorkerRestart, Rest
    <2>2. RemedyTypeOK'
        BY <1>1, <1>2, <2>1 DEF Onward, Rest, RemedyStatus, Reclaimed
    <2>3. WasLive' /\ Validated' /\ InHand' /\ CompletedIsClean' /\ Untold'
        BY <1>1, <2>1 DEF Rest, Reclaimed, WasLive, Validated, InHand, Working,
                          CompletedIsClean, Untold
    <2>4. ToldAfterRemedy'
        BY <2>1 DEF ToldAfterRemedy, Reclaimed, Settled
    <2>5. Kept'
        <3>1. \A e \in Events : remedy'[e] = "none" => remedy[e] = "none"
            BY <2>1 DEF Reclaimed
        <3> QED BY <1>1, <3>1, NoneCutOff
    <2> QED BY <2>2, <2>3, <2>4, <2>5
<1> QED BY <1>3, <1>4, <1>5, <1>6, <1>7, <1>8, <1>9

\* A note is taken off the list.
LEMMA TellSteps ==
    ASSUME RemedyInv, Onward, BothTrue', TellUser
    PROVE  RemedyInv'
<1> USE DEF RemedyInv, RemedyTypeOK
<1>1. UNCHANGED <<link, dashboard, remedy, cascaded, remediated, executor>>
    BY DEF TellUser
<1>2. /\ notes' \in Seq(Events \X Dispositions)
      /\ \A n : (\E i \in DOMAIN notes' : notes'[i] = n) => \E i \in DOMAIN notes : notes[i] = n
    <2>1. notes # <<>> /\ notes' = Tail(notes)
        BY DEF TellUser
    <2> QED BY <2>1
<1>3. RemedyTypeOK'
    BY <1>1, <1>2 DEF Onward
<1>4. WasLive' /\ Validated' /\ InHand' /\ CompletedIsClean' /\ Untold' /\ ToldAfterRemedy'
    BY <1>1, <1>2 DEF WasLive, Validated, InHand, CompletedIsClean, Untold, ToldAfterRemedy
<1>5. Kept'
    BY <1>1, NoneCutOff
<1> QED BY <1>3, <1>4, <1>5

-----------------------------------------------------------------------------
(* Remediation: the theorems *)

\* Every step keeps the invariant.
LEMMA RemedyStep ==
    ASSUME RemedyInv, [Next]_vars
    PROVE  RemedyInv'
<1>1. Onward /\ BothTrue'
    BY OnwardStep
<1>2. CASE LinksOnly
    BY <1>1, <1>2, Beside
<1>3. CASE DashboardStep
    BY <1>1, <1>3, DashboardSteps
<1>4. CASE ExecutorStep \/ WorkerRestart
    BY <1>1, <1>4, WorkSteps, RowWriteSteps DEF ExecutorStep
<1>5. CASE TellUser
    BY <1>1, <1>5, TellSteps
<1>6. CASE UNCHANGED vars
    BY <1>1, <1>6, Beside DEF vars, LinksOnly
<1> QED BY <1>2, <1>3, <1>4, <1>5, <1>6 DEF Next

\* The invariant holds throughout.
THEOREM RemedyInvariant == Spec => []RemedyInv
BY RemedyInitInv, RemedyStep, PTL DEF Spec

\* With two services that remove links and write their rows, a row that says removed
\* still speaks of a link that is gone.
THEOREM BothServicesSafe == Spec => []RemovedIsGone
<1>1. RemedyInv => RemovedIsGone
    BY DEF RemedyInv, BothTrue, Gone
<1> QED BY <1>1, RemedyInvariant, PTL

\* Where the event's row said at the claim where its item is, the remediation is
\* 'completed' only when every link that the item then had is gone, and every link of the
\* folder if its row said so too, whatever failed, crashed or was shared meanwhile.
THEOREM CompletedSafe == Spec => []CompletedIsClean
<1>1. RemedyInv => CompletedIsClean
    BY DEF RemedyInv
<1> QED BY <1>1, RemedyInvariant, PTL

\* No user is told of a removal whose remediation has not ended.
THEOREM ToldSafe == Spec => []ToldAfterRemedy
<1>1. RemedyInv => ToldAfterRemedy
    BY DEF RemedyInv
<1> QED BY <1>1, RemedyInvariant, PTL

\* At most one true positive for each fault is left without a remediation.
THEOREM RequestSafe == Spec => []RequestKept
<1>1. RemedyInv => RequestKept
    BY DEF RemedyInv, Kept, CutOff, RequestKept
<1> QED BY <1>1, RemedyInvariant, PTL

-----------------------------------------------------------------------------
(* Remediation: the promise *)

\* A cascaded row is completed, and is not the one whose user is to be told.
Inherited ==
    /\ \A e \in cascaded : remedy[e] = "completed"
    /\ step \in {"mark", "tell"} => event \notin cascaded
PromiseInv == RemedyInv /\ Inherited

\* What the promise sees of a step that leaves these alone
LEMMA Unseen ==
    ASSUME UNCHANGED <<remedy, cascaded, owed, known, link, notes>>, ToTell' = ToTell
    PROVE  UNCHANGED Promise!vars
BY DEF Promise!vars, Stages, Stage, Ended

\* The stages of those whose rows are not written stay as they are.
LEMMA SameStages ==
    ASSUME UNCHANGED <<remedy, cascaded, known>> PROVE Stages' = Stages
BY DEF Stages, Stage

\* Rows that are inserted are asked for.
LEMMA Asks ==
    ASSUME PromiseInv, NEW S \in SUBSET Events, \A e \in S : remedy[e] \notin Active,
           remedy' = [e \in Events |-> IF e \in S THEN "pending" ELSE remedy[e]],
           cascaded' = cascaded \ S, UNCHANGED <<owed, known, link, notes, step, event>>
    PROVE  Promise!Ask(S) /\ Inherited'
<1>1. \A e \in S : remedy[e] \in {"none", "failed"}
    BY DEF PromiseInv, RemedyInv, RemedyTypeOK, RemedyStatus, Active, Settled
<1>2. S \subseteq Promise!Unasked
    BY <1>1 DEF Promise!Unasked, Stages, Stage
<1>3. Stages' = [e \in Events |-> IF e \in S THEN "asked" ELSE Stages[e]]
    BY DEF Stages, Stage
<1>4. UNCHANGED <<owed, known, Ended, ToTell, notes>>
    BY DEF Ended, ToTell
<1>5. Inherited'
    <2>1. \A e \in cascaded' : e \in Events /\ e \notin S /\ remedy[e] = "completed"
        BY DEF Inherited, PromiseInv, RemedyInv, RemedyTypeOK
    <2>2. \A e \in cascaded' : remedy'[e] = "completed"
        BY <2>1
    <2>3. step' \in {"mark", "tell"} => event' \notin cascaded'
        BY DEF Inherited, PromiseInv
    <2> QED BY <2>2, <2>3 DEF Inherited
<1> QED BY <1>2, <1>3, <1>4, <1>5 DEF Promise!Ask

\* Notes of an advice are appended.
LEMMA Advises ==
    ASSUME PromiseInv, NEW s \in Seq(Events \X {"moderate_risk"}), notes' = notes \o s,
           UNCHANGED <<remedy, cascaded, owed, known, link, step, event>>
    PROVE  Promise!Advise /\ Inherited'
<1>1. notes \in Seq(Events \X Dispositions)
    BY DEF PromiseInv, RemedyInv, RemedyTypeOK
<1>2. /\ Len(notes) \in Nat /\ Len(s) \in Nat /\ Len(notes') = Len(notes) + Len(s)
      /\ \A i \in 1 .. Len(notes') :
             notes'[i] = IF i <= Len(notes) THEN notes[i] ELSE s[i - Len(notes)]
    BY <1>1, ConcatProperties
<1>3. SubSeq(notes', 1, Len(notes)) = notes
    <2> DEFINE d == SubSeq(notes', 1, Len(notes))
    <2>1. d = [i \in 1 .. Len(notes) |-> notes'[i]]
        <3>1. \A i \in 1 .. Len(notes) : notes'[i] \in Events \X Dispositions
            BY <1>1, <1>2, ElementOfSeq
        <3> QED BY <1>2, <3>1, SubSeqProperties
    <2>2. notes = [i \in 1 .. Len(notes) |-> notes[i]]
        BY <1>1
    <2> QED BY <1>2, <2>1, <2>2
<1>4. ASSUME NEW i \in Len(notes) + 1 .. Len(notes')
      PROVE  notes'[i] \in Events \X {"moderate_risk"}
    <2>1. i - Len(notes) \in 1 .. Len(s) /\ notes'[i] = s[i - Len(notes)]
        BY <1>2
    <2> QED BY <2>1, ElementOfSeq
<1>5. UNCHANGED <<Stages, owed, known, Ended, ToTell>>
    BY SameStages DEF Ended, ToTell
<1>6. Inherited'
    BY DEF PromiseInv, Inherited
<1> QED BY <1>2, <1>3, <1>4, <1>5, <1>6 DEF Promise!Advise

\* A step of the dashboard asks for remediations or advises.
LEMMA DashboardPromise ==
    ASSUME PromiseInv, DashboardStep
    PROVE  [Promise!Next]_(Promise!vars) /\ Inherited'
<1> USE DEF PromiseInv
<1>1. UNCHANGED <<link, owed, known, step, event>>
    BY DEF DashboardStep, ReviewOne, RequestRemedy, RequestLost, ReviewBulk
<1>2. CASE UNCHANGED <<remedy, cascaded, notes>>
    <2>1. ToTell' = ToTell /\ Inherited'
        BY <1>1, <1>2 DEF ToTell, Inherited
    <2> QED BY <1>1, <1>2, <2>1, Unseen
<1>3. ASSUME NEW e \in Events, NEW d \in Dispositions, ReviewOne(e, d)
      PROVE  [Promise!Next]_(Promise!vars) /\ Inherited'
    <2>1. UNCHANGED <<remedy, cascaded>>
        BY <1>3 DEF ReviewOne
    <2>2. CASE d # "moderate_risk"
        BY <1>2, <1>3, <2>1, <2>2 DEF ReviewOne
    <2>3. CASE d = "moderate_risk"
        <3>1. notes' = Append(notes, <<e, d>>) /\ notes \in Seq(Events \X Dispositions)
            BY <1>3, <2>3 DEF ReviewOne, Tell, RemedyInv, RemedyTypeOK
        <3>2. notes' = notes \o << <<e, d>> >>
            <4>1. <<e, d>> \in Events \X Dispositions
                OBVIOUS
            <4> HIDE DEF Dispositions
            <4> QED BY <3>1, <4>1, AppendIsConcat
        <3>3. << <<e, d>> >> \in Seq(Events \X {"moderate_risk"})
            BY <2>3
        <3> QED BY <1>1, <2>1, <3>2, <3>3, Advises DEF Promise!Next
    <2> QED BY <2>2, <2>3
<1>4. ASSUME NEW e \in Events, RequestRemedy(e)
      PROVE  [Promise!Next]_(Promise!vars) /\ Inherited'
    <2>1. CASE remedy[e] \in Active
        BY <1>2, <1>4, <2>1 DEF RequestRemedy
    <2>2. CASE remedy[e] \notin Active
        <3>1. /\ remedy' = [f \in Events |-> IF f \in {e} THEN "pending" ELSE remedy[f]]
              /\ cascaded' = cascaded \ {e} /\ UNCHANGED notes
            BY <1>4, <2>2 DEF RequestRemedy, Insert
        <3>2. Promise!Ask({e}) /\ Inherited'
            BY <1>1, <2>2, <3>1, Asks
        <3> QED BY <3>2 DEF Promise!Next
    <2> QED BY <2>1, <2>2
<1>5. ASSUME NEW e \in Events, RequestLost(e)
      PROVE  [Promise!Next]_(Promise!vars) /\ Inherited'
    BY <1>2, <1>5 DEF RequestLost
<1>6. ASSUME NEW S \in SUBSET Events, NEW d \in Dispositions, ReviewBulk(S, d)
      PROVE  [Promise!Next]_(Promise!vars) /\ Inherited'
    <2> DEFINE written == {e \in S : disposition[e] # d}
               new == IF d = "true_positive" THEN {e \in written : NeedsRemedy(e)} ELSE {}
    <2>1. /\ \A e \in new : remedy[e] \notin Active
          /\ remedy' = [f \in Events |-> IF f \in new THEN "pending" ELSE remedy[f]]
          /\ cascaded' = cascaded \ new
          /\ \E order \in [1 .. Cardinality(written) -> written] :
                 notes' = IF d = "moderate_risk"
                          THEN notes \o [i \in DOMAIN order |-> <<order[i], d>>] ELSE notes
        BY <1>6 DEF ReviewBulk, Insert
    <2>2. CASE d # "moderate_risk"
        <3>1. new \in SUBSET Events /\ UNCHANGED notes
            BY <2>1, <2>2
        <3>2. Promise!Ask(new) /\ Inherited'
            <4> HIDE DEF new
            <4> QED BY <1>1, <2>1, <3>1, Asks
        <3> QED BY <3>1, <3>2 DEF Promise!Next
    <2>3. CASE d = "moderate_risk"
        <3>1. UNCHANGED <<remedy, cascaded>>
            BY <2>1, <2>3 DEF RemedyInv, RemedyTypeOK
        <3>2. PICK order \in [1 .. Cardinality(written) -> written] :
                  notes' = notes \o [i \in DOMAIN order |-> <<order[i], d>>]
            BY <2>1, <2>3
        <3>3. IsFiniteSet(written)
            BY FS_Subset DEF RemedyInv
        <3>4. Cardinality(written) \in Nat
            BY <3>3, FS_CardinalityType
        <3>5. [i \in DOMAIN order |-> <<order[i], d>>] \in Seq(Events \X {"moderate_risk"})
            <4>1. written \subseteq Events
                OBVIOUS
            <4> HIDE DEF written
            <4>2. DOMAIN order = 1 .. Cardinality(written)
                BY <3>2
            <4>3. \A i \in DOMAIN order : <<order[i], d>> \in Events \X {"moderate_risk"}
                BY <2>3, <3>2, <4>1, <4>2
            <4> QED BY <3>4, <4>2, <4>3, IsASeq
        <3> QED BY <1>1, <3>1, <3>2, <3>5, Advises DEF Promise!Next
    <2> QED BY <2>2, <2>3
<1> QED BY <1>3, <1>4, <1>5, <1>6 DEF DashboardStep

\* A step of the executor undertakes a remediation, settles it, tells of it or fails,
\* or is out of the promise's sight.
LEMMA ExecutorPromise ==
    ASSUME PromiseInv, ExecutorStep, Onward
    PROVE  [Promise!Next]_(Promise!vars) /\ Inherited'
<1> USE DEF PromiseInv
<1>1. event \in Events /\ target \in Events /\ remedy \in [Events -> RemedyStatus]
      /\ owed \in [Events -> SUBSET Links]
    BY DEF RemedyInv, RemedyTypeOK
<1>2. ASSUME NEW e \in Events, NEW S \in SUBSET Events, Claim(e, S)
      PROVE  [Promise!Next]_(Promise!vars) /\ Inherited'
    <2> DEFINE L == IF e \in S THEN UNION {LiveOn(f) : f \in S} ELSE {}
    <2>1. /\ remedy[e] = "pending" /\ remedy' = [remedy EXCEPT ![e] = "in_progress"]
          /\ owed' = [owed EXCEPT ![e] = L] /\ step = "idle" /\ step' \in {"list", "finish"}
          /\ UNCHANGED <<link, cascaded, notes>>
          /\ known' = IF e \in S THEN known \cup {e} ELSE known \ {e}
        BY <1>2 DEF Claim
    <2>2. L \in SUBSET (Links \ Ended)
        BY <1>1 DEF LiveOn, Ended
    <2> HIDE DEF L
    <2>3. Stages[e] = "asked" /\ Stages' = Stages
        BY <1>1, <2>1 DEF Stages, Stage
    <2>4. UNCHANGED <<Ended, ToTell, notes>>
        BY <2>1 DEF Ended, ToTell
    <2>5. Promise!Undertake(e)
        BY <2>1, <2>2, <2>3, <2>4 DEF Promise!Undertake
    <2>6. Inherited'
        BY <1>1, <2>1 DEF Inherited
    <2> QED BY <2>5, <2>6 DEF Promise!Next
<1>3. ASSUME NEW l \in Links, Delete(l)
      PROVE  [Promise!Next]_(Promise!vars) /\ Inherited'
    <2>1. step' = "record" /\ step = "remove" /\ UNCHANGED <<remedy, cascaded, owed, known, notes>>
        BY <1>3 DEF Delete
    <2>2. Ended \subseteq Ended' /\ Ended' \subseteq Links
        BY DEF Onward, Ended
    <2>3. UNCHANGED <<Stages, owed, known, ToTell, notes>> /\ Inherited'
        BY <2>1, SameStages DEF ToTell, Inherited
    <2> QED BY <2>2, <2>3 DEF Promise!Vanish, Promise!Next
<1>4. CASE \/ ListPermissions \/ RecordRemoval \/ ItemDone \/ Validate \/ MarkRemediated
           \/ \E l \in Links : DeleteFails(l)
    <2>1. UNCHANGED <<remedy, cascaded, owed, known, link, notes, event>>
        BY <1>4 DEF ListPermissions, RecordRemoval, ItemDone, Validate, MarkRemediated, DeleteFails
    <2>2. step \in {"mark", "tell"} <=> step' \in {"mark", "tell"}
        BY <1>4 DEF ListPermissions, RecordRemoval, ItemDone, Validate, MarkRemediated, DeleteFails
    <2>3. ToTell' = ToTell /\ Inherited'
        BY <2>1, <2>2 DEF ToTell, Inherited
    <2> QED BY <2>1, <2>3, Unseen
<1>5. CASE Cascade
    <2>1. step = "cascade" /\ step' \in {"validate", "finish"} /\ UNCHANGED <<owed, known, link, notes>>
        BY <1>5 DEF Cascade
    <2>2. ToTell' = ToTell
        BY <2>1 DEF ToTell
    <2>3. CASE remedy[target] \in Active
        <3>1. UNCHANGED <<remedy, cascaded>> /\ Inherited'
            BY <1>5, <2>1, <2>3 DEF Cascade, Inherited
        <3> QED BY <2>1, <2>2, <3>1, Unseen
    <2>4. CASE remedy[target] \notin Active
        <3>1. /\ remedy' = [remedy EXCEPT ![target] = "completed"]
              /\ cascaded' = cascaded \cup {target}
            BY <1>5, <2>4 DEF Cascade
        <3>2. remedy[target] \in {"none", "failed"}
            BY <1>1, <2>4 DEF RemedyStatus, Active, Settled
        <3>3. target \in Promise!Unasked
            BY <1>1, <3>2 DEF Promise!Unasked, Stages, Stage
        <3>4. Stages' = [Stages EXCEPT ![target] = "inherited"]
            <4>1. known' = known
                BY <1>5 DEF Cascade
            <4>2. \A e \in Events : e # target => /\ remedy'[e] = remedy[e]
                                                  /\ e \in cascaded' <=> e \in cascaded
                BY <1>1, <3>1
            <4>3. \A e \in Events : Stage(e)' = IF e = target THEN "inherited" ELSE Stage(e)
                BY <1>1, <3>1, <4>1, <4>2 DEF Stage
            <4> QED BY <1>1, <4>3 DEF Stages
        <3>5. Ended' = Ended
            BY <2>1 DEF Ended
        <3>6. Promise!Inherit(target)
            BY <2>1, <2>2, <3>3, <3>4, <3>5 DEF Promise!Inherit
        <3>7. Inherited'
            BY <1>1, <2>1, <3>1 DEF Inherited
        <3> QED BY <1>1, <3>6, <3>7 DEF Promise!Next
    <2> QED BY <2>3, <2>4
<1>6. CASE FinishRemedy
    <2>1. /\ step = "finish" /\ step' = "mark" /\ UNCHANGED <<owed, known, link, notes, cascaded, event>>
          /\ remedy' = [remedy EXCEPT ![event] = IF passed /\ ~bad THEN "completed"
                                                ELSE "completed_with_warnings"]
        BY <1>6 DEF FinishRemedy
    <2>2. remedy[event] = "in_progress" /\ event \notin cascaded
        BY <2>1 DEF RemedyInv, InHand, Working, Inherited
    <2>3. passed => owed[event] \subseteq Ended
        BY <1>1, <2>1 DEF RemedyInv, Validated, Ended
    <2>4. Stages[event] = "asked"
        BY <1>1, <2>2 DEF Stages, Stage
    <2>5. Stages' = [Stages EXCEPT ![event] = IF ~(passed /\ ~bad) THEN "warned"
                                             ELSE IF event \in known THEN "done" ELSE "unchecked"]
        BY <1>1, <2>1, <2>2 DEF Stages, Stage
    <2>6. ToTell' = ToTell \cup {event} /\ Ended' = Ended
        BY <2>1 DEF ToTell, Ended
    <2>7. Promise!Settle(event)
        BY <2>1, <2>3, <2>4, <2>5, <2>6 DEF Promise!Settle
    <2>8. Inherited'
        BY <1>1, <2>1, <2>2 DEF Inherited
    <2> QED BY <1>1, <2>7, <2>8 DEF Promise!Next
<1>7. CASE QueueNote
    <2>1. /\ step = "tell" /\ step' = "idle" /\ UNCHANGED <<owed, known, link, remedy, cascaded>>
          /\ notes' = Append(notes, <<event, "true_positive">>) \/ notes' = notes
        BY <1>7 DEF QueueNote, Rest, Tell
    <2>2. /\ UNCHANGED <<Stages, owed, known, Ended>> /\ Inherited'
          /\ event \in ToTell /\ ToTell' = ToTell \ {event}
        BY <2>1, SameStages DEF ToTell, Ended, Inherited
    <2>3. Promise!Tell(event) \/ Promise!Forget(event)
        BY <2>1, <2>2 DEF Promise!Tell, Promise!Forget
    <2> QED BY <1>1, <2>2, <2>3 DEF Promise!Next
<1>8. CASE ExecuteRaises
    <2>1. /\ step \in {"list", "cascade", "finish", "mark"} /\ step' = "idle"
          /\ remedy' \in {remedy, [remedy EXCEPT ![event] = "failed"]}
          /\ UNCHANGED <<owed, known, link, cascaded, notes>>
        BY <1>8 DEF ExecuteRaises, Rest
    <2>2. event \notin cascaded
        BY <2>1 DEF RemedyInv, InHand, Working, Inherited
    <2>3. ToTell' = ToTell \ {event} /\ Ended' = Ended
        BY <2>1 DEF ToTell, Ended
    <2>4. Inherited'
        <3>1. \A e \in cascaded : e \in Events /\ e # event /\ remedy[e] = "completed"
            BY <2>2 DEF RemedyInv, RemedyTypeOK, Inherited
        <3>2. \A e \in cascaded' : remedy'[e] = "completed"
            BY <1>1, <2>1, <3>1
        <3> QED BY <2>1, <3>2 DEF Inherited
    <2>5. CASE remedy' = [remedy EXCEPT ![event] = "failed"]
        <3>1. Stages' = [Stages EXCEPT ![event] = "failed"]
            BY <1>1, <2>1, <2>5 DEF Stages, Stage
        <3>2. Stages[event] = "asked" \/ event \in ToTell
            BY <1>1, <2>1 DEF RemedyInv, InHand, Working, Stages, Stage, ToTell
        <3>3. Promise!Fail(event)
            BY <2>1, <2>3, <3>1, <3>2 DEF Promise!Fail
        <3> QED BY <1>1, <2>4, <3>3 DEF Promise!Next
    <2>6. CASE remedy' = remedy
        <3>1. Stages' = Stages
            BY <2>1, <2>6, SameStages
        <3>2. CASE step = "mark"
            <4>1. event \in ToTell
                BY <3>2 DEF ToTell
            <4>2. Promise!Forget(event)
                BY <2>1, <2>3, <3>1, <4>1 DEF Promise!Forget
            <4> QED BY <1>1, <2>4, <4>2 DEF Promise!Next
        <3>3. CASE step # "mark"
            <4>1. ToTell' = ToTell
                BY <2>1, <3>3 DEF ToTell
            <4> QED BY <2>1, <2>4, <2>6, <4>1, Unseen
        <3> QED BY <3>2, <3>3
    <2> QED BY <2>1, <2>5, <2>6
<1> QED BY <1>2, <1>3, <1>4, <1>5, <1>6, <1>7, <1>8 DEF ExecutorStep

\* Every step is one of the promise, or out of its sight.
LEMMA PromiseStep ==
    ASSUME PromiseInv, [Next]_vars
    PROVE  [Promise!Next]_(Promise!vars) /\ PromiseInv'
<1>1. RemedyInv' /\ Onward
    BY RemedyStep, OnwardStep DEF PromiseInv
<1>2. CASE LinksOnly \/ UNCHANGED vars
    <2>1. UNCHANGED <<remedy, cascaded, owed, known, notes, step, event>>
        BY <1>2 DEF LinksOnly, vars
    <2>2. UNCHANGED <<Stages, owed, known, ToTell, notes>> /\ Inherited'
        BY <2>1, SameStages DEF ToTell, Inherited, PromiseInv
    <2>3. Ended \subseteq Ended' /\ Ended' \subseteq Links
        BY <1>1 DEF Onward, Ended
    <2> QED BY <1>1, <2>2, <2>3 DEF Promise!Vanish, Promise!Next, PromiseInv
<1>3. CASE DashboardStep
    BY <1>1, <1>3, DashboardPromise DEF PromiseInv
<1>4. CASE ExecutorStep
    BY <1>1, <1>4, ExecutorPromise DEF PromiseInv
<1>5. CASE TellUser
    <2>1. /\ notes # <<>> /\ notes' = Tail(notes)
          /\ UNCHANGED <<remedy, cascaded, owed, known, link, step, event>>
        BY <1>5 DEF TellUser
    <2>2. UNCHANGED <<Stages, owed, known, Ended, ToTell>> /\ Inherited'
        BY <2>1, SameStages DEF ToTell, Ended, Inherited, PromiseInv
    <2> QED BY <1>1, <2>1, <2>2 DEF Promise!Read, Promise!Next, PromiseInv
<1>6. CASE WorkerRestart
    <2>1. /\ remedy' = Reclaimed /\ step' = "idle"
          /\ UNCHANGED <<cascaded, owed, known, link, notes>>
        BY <1>6 DEF WorkerRestart, Rest
    <2>2. event \in Events /\ remedy \in [Events -> RemedyStatus]
        BY DEF PromiseInv, RemedyInv, RemedyTypeOK
    <2>3. UNCHANGED <<Stages, owed, known, Ended, notes>> /\ ToTell' = {} /\ Inherited'
        <3>1. UNCHANGED <<owed, known, Ended, notes>> /\ ToTell' = {}
            BY <2>1 DEF Ended, ToTell
        <3>2. Stages' = Stages
            BY <2>1, <2>2 DEF Stages, Stage, Reclaimed
        <3>3. \A e \in cascaded : e \in Events /\ remedy[e] = "completed"
            BY DEF PromiseInv, RemedyInv, RemedyTypeOK, Inherited
        <3>4. \A e \in cascaded' : remedy'[e] = "completed"
            BY <2>1, <2>2, <3>3 DEF Reclaimed
        <3> QED BY <2>1, <3>1, <3>2, <3>4 DEF Inherited
    <2>4. CASE step \in {"mark", "tell"}
        <3>1. event \in ToTell /\ ToTell' = ToTell \ {event}
            BY <2>3, <2>4 DEF ToTell
        <3> QED BY <1>1, <2>2, <2>3, <3>1 DEF Promise!Forget, Promise!Next, PromiseInv
    <2>5. CASE step \notin {"mark", "tell"}
        BY <1>1, <2>3, <2>5 DEF ToTell, Promise!vars, PromiseInv
    <2> QED BY <2>4, <2>5
<1> QED BY <1>2, <1>3, <1>4, <1>5, <1>6 DEF Next

\* Dashboard, worker and cron implement RemedyPromise, whatever is reviewed, shared,
\* refused, lost or restarted: a remediation settles once, as done only when its item was
\* known and its links are gone, as unchecked when it was not, and its user is told at
\* most once for it.
THEOREM RemedyPromiseKept == Spec => KeepsRemedyPromise
<1>1. Init => Promise!Init /\ PromiseInv
    <2> SUFFICES ASSUME Init PROVE Promise!Init /\ PromiseInv
        OBVIOUS
    <2>1. PromiseInv
        BY RemedyInitInv DEF PromiseInv, Inherited, Init
    <2>2. Stages = [e \in Events |-> "none"] /\ owed = [e \in Events |-> {}]
          /\ known = {} /\ Ended = {} /\ ToTell = {} /\ notes = <<>>
        BY DEF Init, LinksInit, Stages, Stage, Ended, ToTell
    <2> QED BY <2>1, <2>2 DEF Promise!Init
<1>2. PromiseInv /\ [Next]_vars => [Promise!Next]_(Promise!vars) /\ PromiseInv'
    BY PromiseStep
<1> QED BY <1>1, <1>2, PTL DEF Spec, KeepsRemedyPromise, Promise!Spec

=============================================================================
