------------------------- MODULE AuditPollerProofs -------------------------
(***************************************************************************)
(* What the audit poller promises, for all records, windows and limits.    *)
(***************************************************************************)
EXTENDS AuditPoller, TLAPS

Running  == cycle.pc \in {"query", "wait", "records", "mark"}
Poll     == Running /\ ~cycle.recon
Recon    == Running /\ cycle.recon
Fetched  == cycle.pc \in {"records", "mark"}

-----------------------------------------------------------------------------
(* The invariant *)

Clock ==
    /\ cycle.to <= cycle.end /\ cycle.end \in 0 .. now
    /\ \A r \in Records : visible[r] # Never => created[r] # Never

\* An incremental window starts at the checkpoint; one that ends before the cycle's
\* clock has the length by which a later cycle meets it again.
Windows ==
    Poll => /\ cycle.from = checkpoint /\ cycle.to >= 0
            /\ cycle.to < cycle.end => cycle.to = cycle.from + ChunkSize

\* A record waiting to be marked was handed over, and so was a marked one.
Marks ==
    /\ At("mark") => /\ cycle.cur \in Records
                     /\ cycle.cur \notin Provisioning => handed[cycle.cur] > 0
    /\ \A r \in Records \ Provisioning : seen[r] > 0 => handed[r] > 0

\* r may still be, or become, a prompt record that nobody handed over
Hope(r) ==
    /\ r \notin Provisioning /\ created[r] # Never /\ handed[r] = 0
    /\ IF visible[r] = Never THEN now <= created[r] + Overlap
       ELSE visible[r] <= created[r] + Overlap

\* Such a record is ahead of the checkpoint less the overlap, ...
Ahead == \A r \in Records : Hope(r) => checkpoint <= created[r] + Overlap

\* ... and what a window is about to leave behind is among its records, in the answer
\* of the running query, ...
InHand ==
    Poll =>
        \A r \in Records :
            Hope(r) /\ created[r] + Overlap < cycle.to
            => /\ At("wait") => r \in cycle.query.base
               /\ Fetched    => r \in cycle.rest

\* ... and in that of a query kept for the next cycle.
Kept ==
    inflight.at # Never =>
        /\ inflight.at + ChunkSize <= now
        /\ \A r \in Records :
              Hope(r) /\ created[r] + Overlap < inflight.at + ChunkSize
              => r \in inflight.query.base

PollInv == TypeOK /\ Clock /\ Windows /\ Marks /\ Ahead /\ InHand /\ Kept

-----------------------------------------------------------------------------
(* Types *)

USE RecordsAssumption, TimesAssumption DEF At, tenant, stored, bounds

\* The types and the clock hold at the start.
LEMMA InitTypes == Init => TypeOK /\ Clock
BY DEF Init, TypeOK, Clock, Cycle, Asleep, Query, None, Inflight, NoKey, Times

\* A chunk ends no later than the cycle's clock.
LEMMA ChunkEnds ==
    ASSUME NEW start \in Int, NEW end \in Int
    PROVE  /\ ChunkEnd(start, end) \in Int /\ ChunkEnd(start, end) <= end
           /\ ChunkEnd(start, end) < end => ChunkEnd(start, end) = start + ChunkSize
           /\ start >= 0 /\ end >= 0 => ChunkEnd(start, end) >= 0
BY DEF ChunkEnd, Smaller

\* The rest state, no query and no key have their types.
LEMMA Sleeping == Asleep \in Cycle /\ None \in Query /\ NoKey \in Inflight
BY DEF Asleep, Cycle, None, Query, NoKey, Inflight, Times

\* The updates of a cycle record keep its type: when the next chunk begins, ...
LEMMA ToWindow ==
    ASSUME NEW c \in Cycle, NEW from \in Int, NEW to \in Int
    PROVE  [c EXCEPT !.pc = "query", !.from = from, !.to = to] \in Cycle
BY DEF Cycle

\* ... when a poll begins, ...
LEMMA ToPoll ==
    ASSUME NEW c \in Cycle, NEW from \in Int, NEW to \in Int, NEW end \in Int
    PROVE  [c EXCEPT !.pc = "query", !.from = from, !.to = to, !.end = end] \in Cycle
BY DEF Cycle

\* ... when a pass begins, ...
LEMMA ToRecon ==
    ASSUME NEW c \in Cycle, NEW from \in Int, NEW to \in Int
    PROVE  [c EXCEPT !.pc = "query", !.recon = TRUE, !.from = from, !.to = to] \in Cycle
BY DEF Cycle

\* ... when a query is waited for, ...
LEMMA ToWait ==
    ASSUME NEW c \in Cycle, NEW query \in Query, NEW since \in Int
    PROVE  [c EXCEPT !.pc = "wait", !.query = query, !.since = since] \in Cycle
BY DEF Cycle

\* ... when it has answered, ...
LEMMA ToRecords ==
    ASSUME NEW c \in Cycle, NEW query \in Query, NEW since \in Int, NEW rest \in SUBSET Records
    PROVE  [c EXCEPT !.pc = "records", !.query = query, !.since = since, !.rest = rest] \in Cycle
BY DEF Cycle

\* ... and when a poll is done.
LEMMA ToReconcile ==
    ASSUME NEW c \in Cycle, NEW end \in Int
    PROVE  [c EXCEPT !.pc = "reconcile", !.end = end] \in Cycle
BY DEF Cycle

\* Every step leaves a cycle record whose window ends by the cycle's clock.
LEMMA NextCycle ==
    ASSUME TypeOK, Clock, Next
    PROVE  cycle' \in Cycle /\ cycle'.to <= cycle'.end /\ cycle'.end \in 0 .. now'
<1> DEFINE Goal == cycle' \in Cycle /\ cycle'.to <= cycle'.end /\ cycle'.end \in 0 .. now'
<1>0. now \in Nat /\ checkpoint \in 0 .. now /\ inflight \in Inflight
      /\ cycle \in Cycle /\ cycle.to <= cycle.end /\ cycle.end \in 0 .. now
      /\ now \in Int /\ checkpoint \in Int /\ cycle.to \in Int /\ cycle.end \in Int
    BY DEF TypeOK, Clock, Cycle
<1>1. ASSUME NEW r \in Records, Occur(r) PROVE Goal
    BY <1>0, <1>1 DEF Occur, Cycle
<1>2. ASSUME NEW r \in Records, Surface(r) PROVE Goal
    BY <1>0, <1>2 DEF Surface, Cycle
<1>3. ASSUME Tick PROVE Goal
    BY <1>0, <1>3 DEF Tick, Cycle
<1>4. ASSUME StartPoll PROVE Goal
  <2>1. FirstEnd(checkpoint) \in Int /\ FirstEnd(checkpoint) <= now
    BY <1>0, ChunkEnds DEF FirstEnd
  <2>2. cycle' \in Cycle
    BY <1>0, <1>4, <2>1, Sleeping, ToPoll DEF StartPoll
  <2>3. cycle'.to = FirstEnd(checkpoint) /\ cycle'.end = now /\ now' = now
    BY <1>4 DEF StartPoll, Asleep
  <2>. QED
    BY <1>0, <2>1, <2>2, <2>3
<1>5. ASSUME Resume PROVE Goal
  <2>1. inflight.query \in Query
    BY <1>0 DEF Inflight
  <2>2. cycle' \in Cycle
    BY <1>0, <1>5, <2>1, ToWait DEF Resume
  <2>3. cycle'.to = cycle.to /\ cycle'.end = cycle.end /\ now' = now
    BY <1>0, <1>5 DEF Resume, Cycle
  <2>. QED
    BY <1>0, <2>1, <2>2, <2>3
<1>6. ASSUME Create PROVE Goal
  <2>1. PICK query \in Query : cycle' = [cycle EXCEPT !.pc = "wait", !.query = query, !.since = now]
    BY <1>6 DEF Create, Query, Visible
  <2>2. cycle' \in Cycle
    BY <1>0, <2>1, ToWait
  <2>3. cycle'.to = cycle.to /\ cycle'.end = cycle.end /\ now' = now
    BY <1>0, <1>6, <2>1 DEF Create, Cycle
  <2>. QED
    BY <1>0, <2>1, <2>2, <2>3
<1>7. ASSUME Fetch PROVE Goal
  <2>1. PICK since \in Int, rest \in SUBSET Records :
          cycle' = [cycle EXCEPT !.pc = "records", !.query = None, !.since = since, !.rest = rest]
    <3>1. PICK answer \in SUBSET Visible :
            cycle' = [cycle EXCEPT !.pc = "records", !.query = None, !.since = 0,
                                   !.rest = {r \in answer : InWindow(r)}]
        BY <1>7 DEF Fetch
    <3>2. {r \in answer : InWindow(r)} \in SUBSET Records /\ 0 \in Int
        BY DEF Visible
    <3>. QED
        BY <3>1, <3>2
  <2>2. cycle' \in Cycle
    BY <1>0, <2>1, Sleeping, ToRecords
  <2>3. cycle'.to = cycle.to /\ cycle'.end = cycle.end /\ now' = now
    BY <1>0, <1>7, <2>1 DEF Fetch, Cycle
  <2>. QED
    BY <1>0, <2>1, <2>2, <2>3
<1>8. ASSUME TimedOut PROVE Goal
    BY <1>0, <1>8 DEF TimedOut, Cycle, Asleep, None, Query
<1>9. ASSUME NEW r \in Records, Skip(r) PROVE Goal
    BY <1>0, <1>9 DEF Skip, Cycle
<1>10. ASSUME NEW r \in Records, HandOver(r) PROVE Goal
    BY <1>0, <1>10 DEF HandOver, Cycle
<1>11. ASSUME Mark PROVE Goal
    BY <1>0, <1>11 DEF Mark, Cycle
<1>12. ASSUME WindowDone PROVE Goal
  <2>1. /\ ChunkEnd(cycle.to, cycle.end) \in Int /\ ChunkEnd(cycle.to, cycle.end) <= cycle.end
        /\ now' = now
    BY <1>0, <1>12, ChunkEnds DEF WindowDone
  <2>2. CASE cycle.to < cycle.end
    <3>1. cycle' = [cycle EXCEPT !.pc = "query", !.from = cycle.to, !.to = ChunkEnd(cycle.to, cycle.end)]
        BY <1>12, <2>2 DEF WindowDone, NextChunk
    <3>2. cycle' \in Cycle
        BY <1>0, <2>1, <3>1, ToWindow
    <3>3. cycle'.to = ChunkEnd(cycle.to, cycle.end) /\ cycle'.end = cycle.end
        BY <1>0, <3>1 DEF Cycle
    <3>. QED
        BY <1>0, <2>1, <3>2, <3>3
  <2>3. CASE ~(cycle.to < cycle.end)
    <3>1. cycle' = [Asleep EXCEPT !.pc = "reconcile", !.end = cycle.end]
        BY <1>12, <2>3 DEF WindowDone
    <3>2. cycle' \in Cycle
        BY <1>0, <3>1, Sleeping, ToReconcile
    <3>3. cycle'.to = 0 /\ cycle'.end = cycle.end
        BY <3>1 DEF Asleep
    <3>. QED
        BY <1>0, <2>1, <3>2, <3>3
  <2>. QED
    BY <2>2, <2>3
<1>13. ASSUME Reconcile PROVE Goal
  <2>1. cycle.end - ReconSpan \in Int
    BY <1>0 DEF ReconSpan, Smaller
  <2>2. /\ ChunkEnd(cycle.end - ReconSpan, cycle.end) \in Int
        /\ ChunkEnd(cycle.end - ReconSpan, cycle.end) <= cycle.end
    BY <1>0, <2>1, ChunkEnds
  <2>3. cycle' \in Cycle
    BY <1>0, <1>13, <2>1, <2>2, ToRecon DEF Reconcile
  <2>4. /\ cycle'.to = ChunkEnd(cycle.end - ReconSpan, cycle.end)
        /\ cycle'.end = cycle.end /\ now' = now
    BY <1>0, <1>13 DEF Reconcile, Cycle
  <2>. QED
    BY <1>0, <2>2, <2>3, <2>4
<1>14. ASSUME NoReconcile PROVE Goal
    BY <1>0, <1>14 DEF NoReconcile, Cycle, Asleep, None, Query
<1>15. ASSUME ReconChunk PROVE Goal
  <2>1. /\ ChunkEnd(cycle.to, cycle.end) \in Int /\ ChunkEnd(cycle.to, cycle.end) <= cycle.end
        /\ now' = now
    BY <1>0, <1>15, ChunkEnds DEF ReconChunk
  <2>2. cycle' \in Cycle
    BY <1>0, <1>15, <2>1, ToWindow DEF ReconChunk, NextChunk
  <2>3. cycle'.to = ChunkEnd(cycle.to, cycle.end) /\ cycle'.end = cycle.end
    BY <1>0, <1>15 DEF ReconChunk, NextChunk, Cycle
  <2>. QED
    BY <1>0, <2>1, <2>2, <2>3
<1>16. ASSUME ReconDone PROVE Goal
    BY <1>0, <1>16 DEF ReconDone, Cycle, Asleep, None, Query
<1>17. ASSUME Cut PROVE Goal
    BY <1>0, <1>17 DEF Cut, Cycle, Asleep, None, Query
<1>. QED
    BY <1>1, <1>2, <1>3, <1>4, <1>5, <1>6, <1>7, <1>8, <1>9, <1>10, <1>11, <1>12, <1>13,
       <1>14, <1>15, <1>16, <1>17 DEF Next, PollStep

\* The types and the clock survive every step.
LEMMA NextTypes ==
    ASSUME TypeOK, Clock, Windows, [Next]_vars
    PROVE  TypeOK' /\ Clock'
<1> DEFINE Goal == TypeOK' /\ Clock'
<1>0. CASE Next
  <2>0. cycle' \in Cycle /\ cycle'.to <= cycle'.end /\ cycle'.end \in 0 .. now'
    BY <1>0, NextCycle
  <2>1. ASSUME NEW r \in Records, Occur(r) PROVE Goal
    <3>1. UNCHANGED <<now, visible, checkpoint, reconLast, seen, inflight, handed, faults, slow>>
        BY <2>1 DEF Occur
    <3>2. created' = [created EXCEPT ![r] = now] /\ created[r] = Never
        BY <2>1 DEF Occur, TypeOK, Clock
    <3>. QED
        BY <2>0, <3>1, <3>2 DEF TypeOK, Clock, Cycle
  <2>2. ASSUME NEW r \in Records, Surface(r) PROVE Goal
    <3>1. UNCHANGED <<now, created, checkpoint, reconLast, seen, inflight, handed, faults, slow>>
        BY <2>2 DEF Surface
    <3>2. visible' = [visible EXCEPT ![r] = now] /\ created[r] # Never
        BY <2>2 DEF Surface, TypeOK, Clock
    <3>. QED
        BY <2>0, <3>1, <3>2 DEF TypeOK, Clock, Cycle
  <2>3. ASSUME Tick PROVE Goal
    <3>1. UNCHANGED <<created, visible, checkpoint, reconLast, seen, inflight, handed, faults, slow>>
        BY <2>3 DEF Tick
    <3>2. now' = now + 1 /\ UNCHANGED cycle
        BY <2>3 DEF Tick, TypeOK, Clock
    <3>. QED
        BY <2>0, <3>1, <3>2 DEF TypeOK, Clock, Cycle
  <2>4. ASSUME StartPoll \/ Resume \/ Reconcile \/ NoReconcile \/ ReconChunk PROVE Goal
    <3>1. UNCHANGED <<now, created, visible, checkpoint, reconLast, seen, inflight, handed, slow>>
        BY <2>4 DEF StartPoll, Resume, Reconcile, NoReconcile, ReconChunk
    <3>2. faults' \in Nat
        BY <2>4 DEF StartPoll, Resume, Reconcile, NoReconcile, ReconChunk, Fault, TypeOK
    <3>. QED
        BY <2>0, <3>1, <3>2 DEF TypeOK, Clock, Cycle
  <2>5. ASSUME Create PROVE Goal
    <3>1. UNCHANGED <<now, created, visible, checkpoint, reconLast, seen, handed>>
        BY <2>5 DEF Create
    <3>2. inflight' \in Inflight /\ faults' \in Nat /\ slow' \in Nat
        BY <2>5 DEF Create, Cycle, Inflight, Query, Visible, Fault, Recurring, Times, TypeOK
    <3>. QED
        BY <2>0, <3>1, <3>2 DEF TypeOK, Clock, Cycle
  <2>6. ASSUME Fetch PROVE Goal
    <3>1. UNCHANGED <<now, created, visible, checkpoint, reconLast, seen, handed, slow>>
        BY <2>6 DEF Fetch
    <3>2. inflight' \in Inflight /\ faults' \in Nat
        BY <2>6, Sleeping DEF Fetch, Fault, TypeOK
    <3>. QED
        BY <2>0, <3>1, <3>2 DEF TypeOK, Clock, Cycle
  <2>7. ASSUME TimedOut PROVE Goal
    <3>1. UNCHANGED <<now, created, visible, checkpoint, reconLast, seen, handed>>
        BY <2>7 DEF TimedOut
    <3>2. inflight' \in Inflight /\ faults' \in Nat /\ slow' \in Nat
        BY <2>7 DEF TimedOut, Cycle, Inflight, Smaller, Times, HasKey, Fault, TypeOK, Clock
    <3>. QED
        BY <2>0, <3>1, <3>2 DEF TypeOK, Clock, Cycle
  <2>8. ASSUME NEW r \in Records, Skip(r) PROVE Goal
    <3>1. UNCHANGED <<now, created, visible, checkpoint, reconLast, seen, inflight, handed, faults, slow>>
        BY <2>8 DEF Skip
    <3>. QED
        BY <2>0, <3>1 DEF TypeOK, Clock, Cycle
  <2>9. ASSUME NEW r \in Records, HandOver(r) PROVE Goal
    <3>1. UNCHANGED <<now, created, visible, checkpoint, reconLast, seen, inflight, faults, slow>>
        BY <2>9 DEF HandOver
    <3>2. handed' \in [Records -> Nat]
        BY <2>9 DEF HandOver, TypeOK, Clock
    <3>. QED
        BY <2>0, <3>1, <3>2 DEF TypeOK, Clock, Cycle
  <2>10. ASSUME Mark PROVE Goal
    <3>1. UNCHANGED <<now, created, visible, checkpoint, reconLast, inflight, handed, faults, slow>>
        BY <2>10 DEF Mark
    <3>2. seen' \in [Records -> Nat]
      <4>1. Expiry \in Nat
          BY DEF Expiry, Smaller, TypeOK
      <4>. QED
          BY <2>10, <4>1 DEF Mark, Marked, TypeOK
    <3>. QED
        BY <2>0, <3>1, <3>2 DEF TypeOK, Clock, Cycle
  <2>11. ASSUME WindowDone PROVE Goal
    <3>1. UNCHANGED <<now, created, visible, reconLast, seen, inflight, handed, faults, slow>>
        BY <2>11 DEF WindowDone
    <3>2. checkpoint' = cycle.to /\ cycle.to >= 0
        BY <2>11 DEF WindowDone, SavedTime, Windows, Poll, Running, TypeOK, Clock
    <3>. QED
        BY <2>0, <3>1, <3>2 DEF TypeOK, Clock, Cycle
  <2>12. ASSUME ReconDone PROVE Goal
    <3>1. UNCHANGED <<now, created, visible, checkpoint, seen, inflight, handed, slow>>
        BY <2>12 DEF ReconDone
    <3>2. reconLast' \in {reconLast, cycle.end} /\ faults' \in Nat
        BY <2>12 DEF ReconDone, ReconTime, Fault, TypeOK, Clock
    <3>. QED
        BY <2>0, <3>1, <3>2 DEF TypeOK, Clock, Cycle
  <2>13. ASSUME Cut PROVE Goal
    <3>1. UNCHANGED <<now, created, visible, checkpoint, reconLast, seen, inflight, handed, slow>>
        BY <2>13 DEF Cut
    <3>2. faults' \in Nat
        BY <2>13 DEF Cut, Fault, TypeOK, Clock
    <3>. QED
        BY <2>0, <3>1, <3>2 DEF TypeOK, Clock, Cycle
  <2>. QED
    BY <1>0, <2>1, <2>2, <2>3, <2>4, <2>5, <2>6, <2>7, <2>8, <2>9, <2>10, <2>11, <2>12, <2>13 DEF Next, PollStep
<1>1. CASE UNCHANGED vars
    BY <1>1 DEF vars, TypeOK, Clock
<1>. QED
    BY <1>0, <1>1

-----------------------------------------------------------------------------
(* What each action does to the cycle, field by field *)

Sleeps == NoReconcile \/ Cut

\* A new cycle begins at the checkpoint.
LEMMA StartPollMoves ==
    ASSUME TypeOK, StartPoll
    PROVE  /\ UNCHANGED <<now, created, visible, checkpoint, reconLast, seen, inflight, handed, faults>>
           /\ At("idle")
           /\ cycle'.pc = "query" /\ cycle'.recon = FALSE
           /\ cycle'.from = checkpoint /\ cycle'.to = FirstEnd(checkpoint) /\ cycle'.end = now
<1>0. cycle \in Cycle /\ now \in Nat /\ faults \in Nat /\ seen \in [Records -> Nat]
    BY DEF TypeOK
<1>. QED
    BY <1>0 DEF StartPoll, Cycle, Asleep

\* A kept query is waited for again, for the window it was kept for.
LEMMA ResumeMoves ==
    ASSUME TypeOK, Resume
    PROVE  /\ UNCHANGED <<now, created, visible, checkpoint, reconLast, seen, inflight, handed, faults>>
           /\ At("query") /\ cycle.recon = FALSE /\ cycle.to < cycle.end /\ inflight.at = cycle.from
           /\ cycle'.pc = "wait" /\ cycle'.query = inflight.query
           /\ cycle'.recon = cycle.recon /\ cycle'.from = cycle.from
           /\ cycle'.to = cycle.to /\ cycle'.end = cycle.end
<1>0. cycle \in Cycle /\ now \in Nat /\ faults \in Nat /\ seen \in [Records -> Nat]
    BY DEF TypeOK
<1>. QED
    BY <1>0 DEF Resume, Cycle, Viable, HasKey, Recurring

\* A new query answers with every sharing record that is queryable, and may be kept.
LEMMA CreateMoves ==
    ASSUME TypeOK, Create
    PROVE  /\ UNCHANGED <<now, created, visible, checkpoint, reconLast, seen, handed>>
           /\ At("query") /\ cycle'.pc = "wait"
           /\ cycle'.recon = cycle.recon /\ cycle'.from = cycle.from
           /\ cycle'.to = cycle.to /\ cycle'.end = cycle.end
           /\ Visible \ Provisioning \subseteq cycle'.query.base
           /\ \/ inflight' = inflight
              \/ /\ cycle.recon = FALSE /\ cycle.to < cycle.end
                 /\ inflight'.at = cycle.from /\ inflight'.query = cycle'.query
           /\ faults' >= faults
<1>0. cycle \in Cycle /\ now \in Nat /\ faults \in Nat /\ seen \in [Records -> Nat]
    BY DEF TypeOK
<1>. QED
    BY <1>0 DEF Create, Cycle, Recurring, Fault, Viable, HasKey

\* The records of the window are fetched, and a kept query is dropped.
LEMMA FetchMoves ==
    ASSUME TypeOK, Fetch
    PROVE  /\ UNCHANGED <<now, created, visible, checkpoint, reconLast, seen, handed>>
           /\ At("wait") /\ cycle'.pc = "records"
           /\ cycle'.recon = cycle.recon /\ cycle'.from = cycle.from
           /\ cycle'.to = cycle.to /\ cycle'.end = cycle.end
           /\ \A r \in cycle.query.base : InWindow(r) => r \in cycle'.rest
           /\ \A r \in cycle'.rest : visible[r] # Never /\ InWindow(r)
           /\ inflight' \in {inflight, NoKey}
           /\ faults' >= faults
<1>0. cycle \in Cycle /\ now \in Nat /\ faults \in Nat /\ seen \in [Records -> Nat]
    BY DEF TypeOK
<1>. QED
    BY <1>0 DEF Fetch, Cycle, Fault, Visible

\* The cycle ends, and the query of a recurring window is kept.
LEMMA TimedOutMoves ==
    ASSUME TypeOK, TimedOut
    PROVE  /\ UNCHANGED <<now, created, visible, checkpoint, reconLast, seen, handed>>
           /\ faults' >= faults
           /\ At("wait") /\ cycle'.pc = "idle"
           /\ \/ inflight' = inflight
              \/ /\ cycle.recon = FALSE /\ cycle.to < cycle.end
                 /\ inflight'.at = cycle.from /\ inflight'.query = cycle.query
<1>0. cycle \in Cycle /\ now \in Nat /\ faults \in Nat /\ seen \in [Records -> Nat]
    BY DEF TypeOK
<1>. QED
    BY <1>0 DEF TimedOut, Cycle, Recurring, Asleep, Fault

\* A record with a dedup key is passed over.
LEMMA SkipMoves ==
    ASSUME TypeOK, NEW r \in Records, Skip(r)
    PROVE  /\ UNCHANGED <<now, created, visible, checkpoint, reconLast, seen, inflight, handed, faults>>
           /\ At("records") /\ cycle'.pc = "records"
           /\ cycle'.recon = cycle.recon /\ cycle'.from = cycle.from
           /\ cycle'.to = cycle.to /\ cycle'.end = cycle.end
           /\ r \in cycle.rest /\ cycle'.rest = cycle.rest \ {r}
           /\ seen[r] > 0
<1>0. cycle \in Cycle /\ now \in Nat /\ faults \in Nat /\ seen \in [Records -> Nat]
    BY DEF TypeOK
<1>. QED
    BY <1>0 DEF Skip, Cycle, IsSeen

\* A record without one is handed over.
LEMMA HandOverMoves ==
    ASSUME TypeOK, NEW r \in Records, HandOver(r)
    PROVE  /\ UNCHANGED <<now, created, visible, checkpoint, reconLast, seen, inflight, faults>>
           /\ At("records") /\ cycle'.pc = "mark"
           /\ cycle'.recon = cycle.recon /\ cycle'.from = cycle.from
           /\ cycle'.to = cycle.to /\ cycle'.end = cycle.end
           /\ r \in cycle.rest /\ cycle'.rest = cycle.rest /\ cycle'.cur = r
           /\ ~IsSeen(r)
           /\ \/ handed' = [handed EXCEPT ![r] = @ + 1]
              \/ r \in Provisioning /\ handed' = handed
<1>0. cycle \in Cycle /\ now \in Nat /\ faults \in Nat /\ seen \in [Records -> Nat]
    BY DEF TypeOK
<1>. QED
    BY <1>0 DEF HandOver, Cycle

\* It gets its dedup key.
LEMMA MarkMoves ==
    ASSUME TypeOK, Mark
    PROVE  /\ UNCHANGED <<now, created, visible, checkpoint, reconLast, inflight, handed, faults>>
           /\ At("mark") /\ cycle'.pc = "records"
           /\ cycle'.recon = cycle.recon /\ cycle'.from = cycle.from
           /\ cycle'.to = cycle.to /\ cycle'.end = cycle.end
           /\ cycle'.rest = cycle.rest \ {cycle.cur}
           /\ seen' = [seen EXCEPT ![cycle.cur] = Expiry]
<1>0. cycle \in Cycle /\ now \in Nat /\ faults \in Nat /\ seen \in [Records -> Nat]
    BY DEF TypeOK
<1>. QED
    BY <1>0 DEF Mark, Cycle, Marked

\* The window's end becomes the checkpoint.
LEMMA WindowDoneMoves ==
    ASSUME TypeOK, WindowDone
    PROVE  /\ UNCHANGED <<now, created, visible, reconLast, seen, inflight, handed, faults>>
           /\ At("records") /\ cycle.rest = {} /\ cycle.recon = FALSE
           /\ checkpoint' = cycle.to /\ cycle'.recon = FALSE /\ cycle'.end = cycle.end
           /\ \/ /\ cycle'.pc = "query"
                 /\ cycle'.from = cycle.to /\ cycle'.to = ChunkEnd(cycle.to, cycle.end)
              \/ cycle'.pc = "reconcile"
<1>0. cycle \in Cycle /\ now \in Nat /\ faults \in Nat /\ seen \in [Records -> Nat]
    BY DEF TypeOK
<1>. QED
    BY <1>0 DEF WindowDone, Cycle, SavedTime, NextChunk, Asleep

\* A pass begins a look-back before the cycle's clock.
LEMMA ReconcileMoves ==
    ASSUME TypeOK, Reconcile
    PROVE  /\ UNCHANGED <<now, created, visible, checkpoint, reconLast, seen, inflight, handed>>
           /\ faults' >= faults
           /\ At("reconcile") /\ cycle'.pc = "query" /\ cycle'.recon = TRUE
           /\ cycle'.from = cycle.end - ReconSpan /\ cycle'.end = cycle.end
           /\ cycle'.to = ChunkEnd(cycle'.from, cycle.end) /\ ReconSpan > 0
<1>0. cycle \in Cycle /\ now \in Nat /\ faults \in Nat /\ seen \in [Records -> Nat]
    BY DEF TypeOK
<1>. QED
    BY <1>0 DEF Reconcile, ReconOn, ReconDue, Cycle, Fault

\* It goes on with the next chunk.
LEMMA ReconChunkMoves ==
    ASSUME TypeOK, ReconChunk
    PROVE  /\ UNCHANGED <<now, created, visible, checkpoint, reconLast, seen, inflight, handed, faults>>
           /\ At("records") /\ cycle.rest = {} /\ cycle.recon /\ cycle'.pc = "query"
           /\ cycle'.recon = cycle.recon /\ cycle'.from = cycle.to /\ cycle'.end = cycle.end
           /\ cycle'.to = ChunkEnd(cycle.to, cycle.end) /\ cycle.to < cycle.end
<1>0. cycle \in Cycle /\ now \in Nat /\ faults \in Nat /\ seen \in [Records -> Nat]
    BY DEF TypeOK
<1>. QED
    BY <1>0 DEF ReconChunk, Cycle, NextChunk

\* It ends, and its clock may be saved.
LEMMA ReconDoneMoves ==
    ASSUME TypeOK, ReconDone
    PROVE  /\ UNCHANGED <<now, created, visible, checkpoint, seen, inflight, handed>>
           /\ At("records") /\ cycle.rest = {} /\ cycle.recon /\ cycle'.pc = "idle"
           /\ cycle.to >= cycle.end /\ reconLast' \in {reconLast, cycle.end}
           /\ faults' >= faults
<1>0. cycle \in Cycle /\ now \in Nat /\ faults \in Nat /\ seen \in [Records -> Nat]
    BY DEF TypeOK
<1>. QED
    BY <1>0 DEF ReconDone, Cycle, ReconTime, Asleep, Fault

\* The cycle ends, with a fault when a mark was due.
LEMMA SleepsMoves ==
    ASSUME TypeOK, Sleeps
    PROVE  /\ UNCHANGED <<now, created, visible, checkpoint, reconLast, seen, inflight, handed>>
           /\ cycle'.pc = "idle"
           /\ \/ faults' = faults /\ ~At("mark")
              \/ faults' = faults + 1
<1>0. cycle \in Cycle /\ now \in Nat /\ faults \in Nat /\ seen \in [Records -> Nat]
    BY DEF TypeOK
<1>. QED
    BY <1>0 DEF Sleeps, Cycle, NoReconcile, Cut, Fault, Asleep

-----------------------------------------------------------------------------
(* The checkpoint *)

\* The invariant holds at the start.
LEMMA InitPoll == Init => PollInv
<1>1. Init => TypeOK /\ Clock
    BY InitTypes
<1>2. Init => Windows /\ Marks /\ Ahead /\ InHand /\ Kept
    BY DEF Init, Windows, Marks, Ahead, InHand, Kept, Poll, Running, Fetched, Hope, Asleep, NoKey
<1>. QED
    BY <1>1, <1>2 DEF PollInv

\* The steps of the tenant and the clock leave everything else alone.
World == Tick \/ \E r \in Records : Occur(r) \/ Surface(r)

\* They leave the poller alone, and hopes do not grow.
LEMMA WorldMoves ==
    ASSUME TypeOK, Clock, World
    PROVE  /\ UNCHANGED <<checkpoint, reconLast, seen, inflight, cycle, handed, faults>>
           /\ now' >= now
           /\ \A r \in Records : created[r] # Never => created'[r] = created[r]
           /\ \A r \in Records : Hope(r)' => Hope(r) \/ created'[r] = now
<1> DEFINE Still == UNCHANGED <<checkpoint, reconLast, seen, inflight, cycle, handed, faults>>
           Fixed == now' >= now /\ \A q \in Records : created[q] # Never => created'[q] = created[q]
           Hopes == \A q \in Records : Hope(q)' => Hope(q) \/ created'[q] = now
<1>0. /\ now \in Nat /\ visible \in [Records -> Nat \cup {Never}]
      /\ created \in [Records -> Nat \cup {Never}]
      /\ \A r \in Records : visible[r] # Never => created[r] # Never
    BY DEF TypeOK, Clock
<1>1. ASSUME Tick PROVE Still /\ Fixed /\ Hopes
  <2>1. Still /\ Fixed
    BY <1>0, <1>1 DEF Tick
  <2>2. Hopes
    BY <1>0, <1>1 DEF Tick, Hope
  <2>. QED
    BY <2>1, <2>2
<1>2. ASSUME NEW r \in Records, Occur(r) PROVE Still /\ Fixed /\ Hopes
  <2>1. Still /\ Fixed
    BY <1>0, <1>2 DEF Occur
  <2>2. Hopes
    BY <1>0, <1>2 DEF Occur, Hope
  <2>. QED
    BY <2>1, <2>2
<1>3. ASSUME NEW r \in Records, Surface(r) PROVE Still /\ Fixed /\ Hopes
  <2>1. Still /\ Fixed
    BY <1>0, <1>3 DEF Surface
  <2>2. Hopes
    BY <1>0, <1>3 DEF Surface, Hope
  <2>. QED
    BY <2>1, <2>2
<1>. HIDE DEF Still, Fixed, Hopes
<1>4. Still /\ Fixed /\ Hopes
    BY <1>1, <1>2, <1>3 DEF World
<1>. QED
    BY <1>4 DEF Still, Fixed, Hopes

\* Every step is one of the world, or one of the actions the lemmas above describe.
LEMMA Steps ==
    ASSUME Next
    PROVE  \/ World \/ StartPoll \/ Resume \/ Create \/ Fetch \/ TimedOut \/ Mark \/ WindowDone
           \/ Reconcile \/ ReconChunk \/ ReconDone \/ Sleeps
           \/ \E r \in Records : Skip(r) \/ HandOver(r)
BY DEF Next, PollStep, World, Sleeps

\* The window of a poll stays tied to the checkpoint.
LEMMA NextWindows ==
    ASSUME PollInv, Next
    PROVE  Windows'
<1> USE DEF Windows, Poll, Running
<1>0. TypeOK /\ Clock /\ Windows /\ cycle \in Cycle /\ checkpoint \in Nat /\ now \in Nat
      /\ cycle.to \in Int /\ cycle.end \in Nat
    BY DEF PollInv, TypeOK, Clock, Cycle
<1>1. CASE World
    BY <1>0, <1>1, WorldMoves
<1>2. CASE StartPoll
  <2>1. FirstEnd(checkpoint) < now => FirstEnd(checkpoint) = checkpoint + ChunkSize
    BY <1>0, ChunkEnds DEF FirstEnd
  <2>2. FirstEnd(checkpoint) >= 0
    BY <1>0, ChunkEnds DEF FirstEnd
  <2>. QED
    BY <1>0, <1>2, <2>1, <2>2, StartPollMoves
<1>3. CASE Resume
    BY <1>0, <1>3, ResumeMoves
<1>4. CASE Create
    BY <1>0, <1>4, CreateMoves
<1>5. CASE Fetch
    BY <1>0, <1>5, FetchMoves
<1>6. CASE TimedOut
    BY <1>0, <1>6, TimedOutMoves
<1>7. ASSUME NEW r \in Records, Skip(r) PROVE Windows'
    BY <1>0, <1>7, SkipMoves
<1>8. ASSUME NEW r \in Records, HandOver(r) PROVE Windows'
    BY <1>0, <1>8, HandOverMoves
<1>9. CASE Mark
    BY <1>0, <1>9, MarkMoves
<1>10. CASE WindowDone
  <2>1. cycle.to >= 0
    BY <1>0, <1>10, WindowDoneMoves
  <2>2. cycle.end \in Int
    BY <1>0
  <2>3. ChunkEnd(cycle.to, cycle.end) < cycle.end
        => ChunkEnd(cycle.to, cycle.end) = cycle.to + ChunkSize
    BY ONLY <1>0, <2>2, ChunkEnds
  <2>4. ChunkEnd(cycle.to, cycle.end) >= 0
    BY <1>0, <2>1 DEF ChunkEnd, Smaller
  <2>. QED
    BY <1>0, <1>10, <2>3, <2>4, WindowDoneMoves
<1>11. CASE Reconcile
    BY <1>0, <1>11, ReconcileMoves
<1>12. CASE ReconChunk
    BY <1>0, <1>12, ReconChunkMoves
<1>13. CASE ReconDone
    BY <1>0, <1>13, ReconDoneMoves
<1>14. CASE Sleeps
    BY <1>0, <1>14, SleepsMoves
<1>. QED
    BY <1>1, <1>2, <1>3, <1>4, <1>5, <1>6, <1>7, <1>8, <1>9, <1>10, <1>11, <1>12, <1>13, <1>14, Steps

\* What is marked was handed over.
LEMMA NextMarks ==
    ASSUME PollInv, Next
    PROVE  Marks'
<1> USE DEF Marks
<1>0. TypeOK /\ Clock /\ Marks /\ cycle \in Cycle /\ handed \in [Records -> Nat]
      /\ seen \in [Records -> Nat] /\ now \in Nat /\ cycle.rest \subseteq Records
    BY DEF PollInv, TypeOK, Clock, Cycle
<1>1. CASE World
    BY <1>0, <1>1, WorldMoves
<1>2. CASE StartPoll
    BY <1>0, <1>2, StartPollMoves
<1>3. CASE Resume
    BY <1>0, <1>3, ResumeMoves
<1>4. CASE Create
    BY <1>0, <1>4, CreateMoves
<1>5. CASE Fetch
    BY <1>0, <1>5, FetchMoves
<1>6. CASE TimedOut
    BY <1>0, <1>6, TimedOutMoves
<1>7. ASSUME NEW r \in Records, Skip(r) PROVE Marks'
    BY <1>0, <1>7, SkipMoves
<1>8. ASSUME NEW r \in Records, HandOver(r) PROVE Marks'
    BY <1>0, <1>8, HandOverMoves
<1>9. CASE Mark
  <2>1. cycle.cur \in Records /\ (cycle.cur \notin Provisioning => handed[cycle.cur] > 0)
    BY <1>0, <1>9, MarkMoves
  <2>2. Expiry \in Nat
    BY <1>0 DEF Expiry, Smaller
  <2>. QED
    BY <1>0, <1>9, <2>1, <2>2, MarkMoves
<1>10. CASE WindowDone
    BY <1>0, <1>10, WindowDoneMoves
<1>11. CASE Reconcile
    BY <1>0, <1>11, ReconcileMoves
<1>12. CASE ReconChunk
    BY <1>0, <1>12, ReconChunkMoves
<1>13. CASE ReconDone
    BY <1>0, <1>13, ReconDoneMoves
<1>14. CASE Sleeps
    BY <1>0, <1>14, SleepsMoves
<1>. QED
    BY <1>1, <1>2, <1>3, <1>4, <1>5, <1>6, <1>7, <1>8, <1>9, <1>10, <1>11, <1>12, <1>13, <1>14, Steps

\* Nobody hopes for more than before, except for a record that occurs just now.
LEMMA HopeKept ==
    ASSUME PollInv, Next, NEW r \in Records, Hope(r)'
    PROVE  Hope(r) \/ created'[r] = now
<1>0. TypeOK /\ Clock /\ handed \in [Records -> Nat]
    BY DEF PollInv, TypeOK
<1>1. CASE World
    BY <1>0, <1>1, WorldMoves
<1>2. CASE \E q \in Records : HandOver(q)
    BY <1>0, <1>2, HandOverMoves DEF Hope
<1>3. CASE ~World /\ ~\E q \in Records : HandOver(q)
    BY <1>0, <1>3, Steps, StartPollMoves, ResumeMoves, CreateMoves, FetchMoves, TimedOutMoves,
       SkipMoves, MarkMoves, WindowDoneMoves, ReconcileMoves, ReconChunkMoves, ReconDoneMoves,
       SleepsMoves DEF Hope
<1>. QED
    BY <1>1, <1>2, <1>3

\* The clock only advances, a record keeps its time, and only a finished window of a
\* poll moves the checkpoint.
LEMMA StepKeeps ==
    ASSUME PollInv, Next
    PROVE  /\ now' >= now
           /\ \A r \in Records : created[r] # Never => created'[r] = created[r]
           /\ checkpoint' = checkpoint \/ WindowDone
           /\ cycle'.to <= now
<1> DEFINE Goal == /\ now' >= now
                   /\ \A r \in Records : created[r] # Never => created'[r] = created[r]
                   /\ checkpoint' = checkpoint \/ WindowDone
                   /\ cycle'.to <= now
           /\ cycle'.to <= now
<1>0. /\ TypeOK /\ Clock /\ now \in Nat /\ cycle.to <= now
      /\ cycle'.to \in Int /\ cycle'.end \in 0 .. now' /\ cycle'.to <= cycle'.end
    BY NextCycle DEF PollInv, TypeOK, Cycle
<1>1. ASSUME World PROVE Goal
    BY <1>0, <1>1, WorldMoves
<1>2. ASSUME StartPoll PROVE Goal
    BY <1>0, <1>2, StartPollMoves
<1>3. ASSUME Resume PROVE Goal
    BY <1>0, <1>3, ResumeMoves
<1>4. ASSUME Create PROVE Goal
    BY <1>0, <1>4, CreateMoves
<1>5. ASSUME Fetch PROVE Goal
    BY <1>0, <1>5, FetchMoves
<1>6. ASSUME TimedOut PROVE Goal
    BY <1>0, <1>6, TimedOutMoves
<1>7. ASSUME NEW r \in Records, Skip(r) PROVE Goal
    BY <1>0, <1>7, SkipMoves
<1>8. ASSUME NEW r \in Records, HandOver(r) PROVE Goal
    BY <1>0, <1>8, HandOverMoves
<1>9. ASSUME Mark PROVE Goal
    BY <1>0, <1>9, MarkMoves
<1>10. ASSUME WindowDone PROVE Goal
    BY <1>0, <1>10, WindowDoneMoves
<1>11. ASSUME Reconcile PROVE Goal
    BY <1>0, <1>11, ReconcileMoves
<1>12. ASSUME ReconChunk PROVE Goal
    BY <1>0, <1>12, ReconChunkMoves
<1>13. ASSUME ReconDone PROVE Goal
    BY <1>0, <1>13, ReconDoneMoves
<1>14. ASSUME Sleeps PROVE Goal
    BY <1>0, <1>14, SleepsMoves
<1>. HIDE DEF Goal
<1>15. Goal
    BY <1>1, <1>2, <1>3, <1>4, <1>5, <1>6, <1>7, <1>8, <1>9, <1>10, <1>11, <1>12, <1>13, <1>14, Steps
<1>. QED
    BY <1>15 DEF Goal

\* The checkpoint stays behind what may still become prompt.
LEMMA NextAhead ==
    ASSUME PollInv, Next
    PROVE  Ahead'
<1> SUFFICES ASSUME NEW q \in Records, Hope(q)' PROVE checkpoint' <= created'[q] + Overlap
    BY DEF Ahead
<1>0. /\ TypeOK /\ Clock /\ now \in Nat /\ checkpoint \in 0 .. now /\ cycle.to \in Int /\ cycle.to <= now
      /\ created'[q] # Never /\ created' \in [Records -> Nat \cup {Never}]
      /\ now' >= now
    <2>1. TypeOK /\ Clock /\ TypeOK'
        BY NextTypes DEF PollInv
    <2>2. now' >= now
        BY StepKeeps
    <2>. QED
        BY <2>1, <2>2 DEF TypeOK, Clock, Cycle, Hope
<1>1. CASE created'[q] = now
  <2>1. checkpoint' \in {checkpoint, cycle.to}
    BY <1>0, StepKeeps, WindowDoneMoves
  <2>. QED
    BY <1>0, <1>1, <2>1
<1>2. CASE Hope(q) /\ created'[q] # now
  <2>1. created'[q] = created[q]
    BY <1>2, StepKeeps DEF Hope
  <2>2. checkpoint <= created[q] + Overlap
    BY <1>2 DEF PollInv, Ahead
  <2>3. CASE WindowDone
    <3>1. cycle.rest = {} /\ cycle.pc = "records" /\ cycle.recon = FALSE /\ checkpoint' = cycle.to
        BY <1>0, <2>3, WindowDoneMoves
    <3>2. ~(created[q] + Overlap < cycle.to)
        BY <1>2, <3>1 DEF PollInv, InHand, Poll, Running, Fetched
    <3>. QED
        BY <1>0, <2>1, <3>1, <3>2
  <2>4. CASE ~WindowDone
    <3>1. checkpoint' = checkpoint
        BY <2>4, StepKeeps
    <3>. QED
        BY <2>1, <2>2, <3>1
  <2>. QED
    BY <2>3, <2>4
<1>. QED
    BY <1>1, <1>2, HopeKept

\* A record that may still become prompt and lies before a time that has come is
\* queryable already.
LEMMA HopeVisible ==
    ASSUME PollInv, NEW q \in Records, Hope(q), NEW t \in Int, created[q] + Overlap < t, t <= now
    PROVE  q \in Visible \ Provisioning
BY DEF PollInv, TypeOK, Hope, Visible

\* Nothing a window is about to leave behind slips out of its records.
LEMMA NextInHand ==
    ASSUME PollInv, Next
    PROVE  InHand'
<1> SUFFICES ASSUME NEW q \in Records, Poll', Hope(q)', created'[q] + Overlap < cycle'.to
             PROVE  /\ At("wait")' => q \in cycle'.query.base
                    /\ Fetched' => q \in cycle'.rest
    BY DEF InHand
<1> DEFINE Goal == /\ At("wait")' => q \in cycle'.query.base
                   /\ Fetched' => q \in cycle'.rest
<1> USE DEF Poll, Running, Fetched
<1>0. /\ TypeOK /\ Clock /\ Windows /\ now \in Nat /\ checkpoint \in Nat /\ cycle \in Cycle
      /\ cycle.to \in Int /\ cycle.from \in Int /\ cycle.to <= now /\ cycle'.to <= now
      /\ Hope(q) /\ created[q] \in Nat /\ created'[q] = created[q]
    <2>1. TypeOK /\ Clock /\ Windows /\ cycle'.to <= now /\ TypeOK' /\ now \in Nat
        BY NextTypes, StepKeeps DEF PollInv, TypeOK
    <2>2. cycle' \in Cycle /\ created' \in [Records -> Nat \cup {Never}] /\ created'[q] # Never
        BY <2>1 DEF TypeOK, Hope
    <2>3. cycle'.to \in Int /\ created'[q] \in Nat
        BY <2>2 DEF Cycle
    <2>4. created'[q] # now
        BY <2>1, <2>3
    <2>5. Hope(q)
        BY <2>4, HopeKept
    <2>6. created'[q] = created[q]
        BY <2>5, StepKeeps DEF Hope
    <2>. QED
        BY <2>1, <2>3, <2>5, <2>6 DEF TypeOK, Cycle
<1>0a. cycle.recon = FALSE /\ Running /\ created[q] + Overlap < cycle.to
       => /\ At("wait") => q \in cycle.query.base
          /\ Fetched => q \in cycle.rest
    BY <1>0 DEF PollInv, InHand
<1>1. ASSUME World PROVE Goal
    BY <1>0, <1>0a, <1>1, WorldMoves DEF Cycle
<1>2. ASSUME StartPoll PROVE Goal
    BY <1>0, <1>2, StartPollMoves
<1>3. ASSUME Resume PROVE Goal
  <2>1. /\ inflight.at = cycle.from /\ cycle.to = cycle.from + ChunkSize /\ cycle'.to = cycle.to
        /\ cycle'.pc = "wait" /\ cycle'.query = inflight.query
    BY <1>0, <1>3, ResumeMoves DEF Windows
  <2>2. inflight.at # Never
    BY <1>0, <2>1
  <2>3. q \in inflight.query.base
    BY <1>0, <2>1, <2>2 DEF PollInv, Kept
  <2>. QED
    BY <2>1, <2>3
<1>4. ASSUME Create PROVE Goal
  <2>1. q \in Visible \ Provisioning
    BY <1>0, HopeVisible, <1>4, CreateMoves
  <2>. QED
    BY <1>0, <1>4, <2>1, CreateMoves
<1>5. ASSUME Fetch PROVE Goal
  <2>1. q \in cycle.query.base
    BY <1>0, <1>0a, <1>5, FetchMoves
  <2>2. InWindow(q)
    <3>1. cycle.from = checkpoint /\ checkpoint <= created[q] + Overlap
        BY <1>0, <1>5, FetchMoves DEF PollInv, Windows, Ahead
    <3>2. cycle'.to = cycle.to
        BY <1>0, <1>5, FetchMoves
    <3>. QED
        BY <1>0, <3>1, <3>2 DEF InWindow
  <2>. QED
    BY <1>0, <1>5, <2>1, <2>2, FetchMoves
<1>6. ASSUME TimedOut PROVE Goal
    BY <1>0, <1>6, TimedOutMoves
<1>7. ASSUME NEW r \in Records, Skip(r) PROVE Goal
  <2>1. q # r
    BY <1>0, <1>7, SkipMoves DEF PollInv, Marks, Hope
  <2>. QED
    BY <1>0, <1>0a, <1>7, <2>1, SkipMoves
<1>8. ASSUME NEW r \in Records, HandOver(r) PROVE Goal
    BY <1>0, <1>0a, <1>8, HandOverMoves
<1>9. ASSUME Mark PROVE Goal
  <2>1. q # cycle.cur
    BY <1>0, <1>9, MarkMoves DEF PollInv, Marks, Hope
  <2>. QED
    BY <1>0, <1>0a, <1>9, <2>1, MarkMoves
<1>10. ASSUME WindowDone PROVE Goal
    BY <1>0, <1>10, WindowDoneMoves
<1>11. ASSUME Reconcile PROVE Goal
    BY <1>0, <1>11, ReconcileMoves
<1>12. ASSUME ReconChunk PROVE Goal
    BY <1>0, <1>12, ReconChunkMoves
<1>13. ASSUME ReconDone PROVE Goal
    BY <1>0, <1>13, ReconDoneMoves
<1>14. ASSUME Sleeps PROVE Goal
    BY <1>0, <1>14, SleepsMoves
<1>. HIDE DEF Goal
<1>15. Goal
    BY <1>1, <1>2, <1>3, <1>4, <1>5, <1>6, <1>7, <1>8, <1>9, <1>10, <1>11, <1>12, <1>13, <1>14, Steps
<1>. QED
    BY <1>15 DEF Goal

\* A query kept for the next cycle answers with what its window owes.
LEMMA NextKept ==
    ASSUME PollInv, Next
    PROVE  Kept'
<1> DEFINE Old == inflight' = inflight \/ inflight' = NoKey
           New == /\ inflight'.at = cycle.from /\ cycle.to = cycle.from + ChunkSize
                  /\ \A q \in Records :
                        Hope(q) /\ created[q] + Overlap < cycle.to => q \in inflight'.query.base
           Goal == Old \/ New
<1>0. /\ TypeOK /\ Clock /\ Windows /\ now \in Nat /\ cycle \in Cycle
      /\ cycle.to \in Int /\ cycle.from \in Int /\ cycle.to <= now
    BY DEF PollInv, TypeOK, Cycle
<1>1. ASSUME World PROVE Goal
    BY <1>0, <1>1, WorldMoves
<1>2. ASSUME StartPoll PROVE Goal
    BY <1>0, <1>2, StartPollMoves
<1>3. ASSUME Resume PROVE Goal
    BY <1>0, <1>3, ResumeMoves
<1>4. ASSUME Create PROVE Goal
  <2>1. CASE inflight' # inflight
    <3>1. /\ cycle.recon = FALSE /\ cycle.to < cycle.end /\ At("query")
          /\ inflight'.at = cycle.from /\ inflight'.query = cycle'.query
          /\ Visible \ Provisioning \subseteq cycle'.query.base
        BY <1>0, <1>4, <2>1, CreateMoves
    <3>2. cycle.to = cycle.from + ChunkSize
        BY <1>0, <3>1 DEF Windows, Poll, Running
    <3>3. ASSUME NEW q \in Records, Hope(q), created[q] + Overlap < cycle.to
          PROVE  q \in inflight'.query.base
        BY <1>0, <3>1, <3>3, HopeVisible
    <3>. QED
        BY <3>1, <3>2, <3>3
  <2>. QED
    BY <2>1
<1>5. ASSUME Fetch PROVE Goal
    BY <1>0, <1>5, FetchMoves
<1>6. ASSUME TimedOut PROVE Goal
  <2>1. CASE inflight' # inflight
    <3>1. /\ cycle.recon = FALSE /\ cycle.to < cycle.end /\ At("wait")
          /\ inflight'.at = cycle.from /\ inflight'.query = cycle.query
        BY <1>0, <1>6, <2>1, TimedOutMoves
    <3>2. cycle.to = cycle.from + ChunkSize
        BY <1>0, <3>1 DEF Windows, Poll, Running
    <3>3. ASSUME NEW q \in Records, Hope(q), created[q] + Overlap < cycle.to
          PROVE  q \in inflight'.query.base
        BY <3>1, <3>3 DEF PollInv, InHand, Poll, Running
    <3>. QED
        BY <3>1, <3>2, <3>3
  <2>. QED
    BY <2>1
<1>7. ASSUME NEW r \in Records, Skip(r) PROVE Goal
    BY <1>0, <1>7, SkipMoves
<1>8. ASSUME NEW r \in Records, HandOver(r) PROVE Goal
    BY <1>0, <1>8, HandOverMoves
<1>9. ASSUME Mark PROVE Goal
    BY <1>0, <1>9, MarkMoves
<1>10. ASSUME WindowDone PROVE Goal
    BY <1>0, <1>10, WindowDoneMoves
<1>11. ASSUME Reconcile PROVE Goal
    BY <1>0, <1>11, ReconcileMoves
<1>12. ASSUME ReconChunk PROVE Goal
    BY <1>0, <1>12, ReconChunkMoves
<1>13. ASSUME ReconDone PROVE Goal
    BY <1>0, <1>13, ReconDoneMoves
<1>14. ASSUME Sleeps PROVE Goal
    BY <1>0, <1>14, SleepsMoves
<1>. HIDE DEF Goal
<1>15. Goal
    BY <1>1, <1>2, <1>3, <1>4, <1>5, <1>6, <1>7, <1>8, <1>9, <1>10, <1>11, <1>12, <1>13, <1>14, Steps
<1>16. now' >= now /\ now' \in Nat
    BY StepKeeps, NextTypes DEF PollInv, TypeOK
<1>17. ASSUME NEW q \in Records, Hope(q)', NEW t \in Int, t <= now, created'[q] + Overlap < t
       PROVE  Hope(q) /\ created[q] + Overlap < t
    <2>1. created'[q] \in Nat
        BY <1>17, NextTypes DEF PollInv, TypeOK, Hope
    <2>2. Hope(q)
        BY <1>0, <1>17, <2>1, HopeKept
    <2>3. created'[q] = created[q]
        BY <2>2, StepKeeps DEF Hope
    <2>. QED
        BY <1>17, <2>2, <2>3
<1>18. CASE Old
    <2>1. CASE inflight'.at # Never
        <3>1. inflight' = inflight
            BY <1>18, <2>1 DEF NoKey
        <3>2. inflight.at \in Int /\ inflight.at + ChunkSize <= now
            BY <1>0, <2>1, <3>1 DEF PollInv, Kept, TypeOK, Inflight, Times
        <3>3. ASSUME NEW q \in Records, Hope(q)', created'[q] + Overlap < inflight.at + ChunkSize
              PROVE  q \in inflight.query.base
            <4>1. inflight.at + ChunkSize \in Int
                BY <3>2
            <4>2. Hope(q) /\ created[q] + Overlap < inflight.at + ChunkSize
                BY <1>17, <3>2, <3>3, <4>1
            <4>. QED
                BY <2>1, <3>1, <4>2 DEF PollInv, Kept
        <3>. QED
            BY <1>0, <1>16, <3>1, <3>2, <3>3 DEF Kept
    <2>. QED
        BY <2>1 DEF Kept
<1>19. CASE New
    <2>1. ASSUME NEW q \in Records, Hope(q)', created'[q] + Overlap < cycle.to
          PROVE  q \in inflight'.query.base
        BY <1>0, <1>17, <1>19, <2>1
    <2>. QED
        BY <1>0, <1>16, <1>19, <2>1 DEF Kept
<1>. QED
    BY <1>15, <1>18, <1>19 DEF Goal

\* The invariant holds throughout.
LEMMA PollInvariant == Spec => []PollInv
<1>1. Init => PollInv
    BY InitPoll
<1>2. PollInv /\ [Next]_vars => PollInv'
  <2> SUFFICES ASSUME PollInv, [Next]_vars PROVE PollInv'
    OBVIOUS
  <2>1. TypeOK' /\ Clock'
    BY NextTypes DEF PollInv
  <2>2. CASE Next
    BY <2>1, <2>2, NextWindows, NextMarks, NextAhead, NextInHand, NextKept DEF PollInv
  <2>3. CASE UNCHANGED vars
    BY <2>3 DEF vars, PollInv, TypeOK, Clock, Windows, Marks, Ahead, InHand, Kept, Hope, Poll,
       Running, Fetched
  <2>. QED
    BY <2>2, <2>3
<1>. QED
    BY <1>1, <1>2, PTL DEF Spec

\* Every variable of the audit poller keeps its type, and no window ends in the future.
THEOREM PollerTypeCorrect == Spec => []TypeOK
<1>1. PollInv => TypeOK
    BY DEF PollInv
<1>. QED
    BY <1>1, PollInvariant, PTL

\* The checkpoint never leaves behind a prompt record that was not handed over.
THEOREM CheckpointSafe == Spec => []CheckpointCovers
<1>1. PollInv => CheckpointCovers
    BY DEF PollInv, TypeOK, Clock, Ahead, CheckpointCovers, Hope, Prompt
<1>. QED
    BY <1>1, PollInvariant, PTL

-----------------------------------------------------------------------------
(* Reconciliation *)

\* A record that a reconciliation begun at e has to hand over, and that nobody did
Want(r, e) ==
    /\ r \notin Provisioning /\ visible[r] # Never /\ visible[r] < e
    /\ e - ReconSpan <= created[r] /\ handed[r] = 0

\* A running pass has nothing such behind its chunk, and what lies in the chunk is in
\* the answer of its query or among its records.
Combed ==
    Recon =>
        \A r \in Records :
            Want(r, cycle.end)
            => /\ cycle.from <= created[r]
               /\ created[r] <= cycle.to => /\ At("wait") => r \in cycle.query.base
                                            /\ Fetched    => r \in cycle.rest

\* Nothing becomes such a record that was none before.
LEMMA WantKept ==
    ASSUME PollInv, Next, NEW r \in Records, NEW CONSTANT e \in Int, e <= now, Want(r, e)'
    PROVE  Want(r, e) /\ created'[r] = created[r]
<1>0. TypeOK /\ Clock /\ handed \in [Records -> Nat] /\ now \in Nat
      /\ visible \in [Records -> Nat \cup {Never}] /\ created \in [Records -> Nat \cup {Never}]
      /\ (visible[r] # Never => created[r] # Never)
    BY DEF PollInv, TypeOK, Clock
<1>1. CASE World
    BY <1>0, <1>1 DEF World, Tick, Occur, Surface, Want, ReconSpan
<1>2. CASE \E q \in Records : HandOver(q)
    BY <1>0, <1>2, HandOverMoves DEF Want, ReconSpan
<1>3. CASE ~World /\ ~\E q \in Records : HandOver(q)
    BY <1>0, <1>3, Steps, StartPollMoves, ResumeMoves, CreateMoves, FetchMoves, TimedOutMoves,
       SkipMoves, MarkMoves, WindowDoneMoves, ReconcileMoves, ReconChunkMoves, ReconDoneMoves,
       SleepsMoves DEF Want, ReconSpan
<1>. QED
    BY <1>1, <1>2, <1>3

\* A pass leaves no such record behind its chunk.
LEMMA NextCombed ==
    ASSUME PollInv, Combed, Next
    PROVE  Combed'
<1> DEFINE Owed(q) == /\ cycle.from <= created[q]
                      /\ created[q] <= cycle.to => /\ At("wait") => q \in cycle.query.base
                                                   /\ Fetched    => q \in cycle.rest
           OwedNext(q) == /\ cycle'.from <= created[q]
                          /\ created[q] <= cycle'.to
                             => /\ cycle'.pc = "wait" => q \in cycle'.query.base
                                /\ cycle'.pc \in {"records", "mark"} => q \in cycle'.rest
           Goal == cycle'.pc \in {"query", "wait", "records", "mark"} /\ cycle'.recon
                   => /\ cycle'.end = cycle.end
                      /\ \A q \in Records : Want(q, cycle.end) => OwedNext(q)
<1> USE DEF Running, Fetched
<1>0. /\ TypeOK /\ Clock /\ now \in Nat /\ cycle \in Cycle /\ cycle.end \in 0 .. now
      /\ cycle.to \in Int /\ cycle.from \in Int /\ cycle.recon \in BOOLEAN
      /\ \A q \in Records : Recon /\ Want(q, cycle.end) => Owed(q) /\ created[q] \in Nat
    <2>1. TypeOK /\ Clock /\ cycle \in Cycle /\ created \in [Records -> Nat \cup {Never}]
        BY DEF PollInv, TypeOK
    <2>2. ASSUME NEW q \in Records, Recon, Want(q, cycle.end) PROVE Owed(q) /\ created[q] \in Nat
        BY <2>1, <2>2 DEF Combed, Clock, Want
    <2>. QED
        BY <2>1, <2>2 DEF TypeOK, Clock, Cycle
<1>1. ASSUME World PROVE Goal
    BY <1>0, <1>1, WorldMoves DEF Recon
<1>2. ASSUME StartPoll PROVE Goal
    BY <1>0, <1>2, StartPollMoves DEF Recon
<1>3. ASSUME Resume PROVE Goal
    BY <1>0, <1>3, ResumeMoves DEF Recon
<1>4. ASSUME Create PROVE Goal
  <2>1. ASSUME NEW q \in Records, Want(q, cycle.end) PROVE q \in Visible \ Provisioning
    BY <2>1 DEF Want, Visible
  <2>. QED
    BY <1>0, <1>4, <2>1, CreateMoves DEF Recon
<1>5. ASSUME Fetch PROVE Goal
  <2>1. ASSUME NEW q \in Records, Recon, Want(q, cycle.end), created[q] <= cycle.to
        PROVE  q \in cycle'.rest
    <3>1. q \in cycle.query.base /\ cycle.from <= created[q] /\ created[q] \in Nat
        BY <1>0, <1>5, <2>1, FetchMoves
    <3>2. InWindow(q)
        BY <1>0, <2>1, <3>1 DEF InWindow
    <3>. QED
        BY <1>0, <1>5, <3>1, <3>2, FetchMoves
  <2>. QED
    BY <1>0, <1>5, <2>1, FetchMoves DEF Recon
<1>6. ASSUME TimedOut PROVE Goal
    BY <1>0, <1>6, TimedOutMoves DEF Recon
<1>7. ASSUME NEW r \in Records, Skip(r) PROVE Goal
  <2>1. ~Want(r, cycle.end)
    BY <1>0, <1>7, SkipMoves DEF PollInv, Marks, Want
  <2>. QED
    BY <1>0, <1>7, <2>1, SkipMoves DEF Recon
<1>8. ASSUME NEW r \in Records, HandOver(r) PROVE Goal
    BY <1>0, <1>8, HandOverMoves DEF Recon
<1>9. ASSUME Mark PROVE Goal
  <2>1. ~Want(cycle.cur, cycle.end)
    BY <1>0, <1>9, MarkMoves DEF PollInv, Marks, Want
  <2>. QED
    BY <1>0, <1>9, <2>1, MarkMoves DEF Recon
<1>10. ASSUME WindowDone PROVE Goal
    BY <1>0, <1>10, WindowDoneMoves DEF Recon
<1>11. ASSUME Reconcile PROVE Goal
    BY <1>0, <1>11, ReconcileMoves DEF Want
<1>12. ASSUME ReconChunk PROVE Goal
  <2>1. ASSUME NEW q \in Records, Want(q, cycle.end) PROVE cycle.to <= created[q]
    BY <1>0, <1>12, <2>1, ReconChunkMoves DEF Recon
  <2>. QED
    BY <1>0, <1>12, <2>1, ReconChunkMoves
<1>13. ASSUME ReconDone PROVE Goal
    BY <1>0, <1>13, ReconDoneMoves DEF Recon
<1>14. ASSUME Sleeps PROVE Goal
    BY <1>0, <1>14, SleepsMoves DEF Recon
<1>. HIDE DEF Goal
<1>15. Goal
    BY <1>1, <1>2, <1>3, <1>4, <1>5, <1>6, <1>7, <1>8, <1>9, <1>10, <1>11, <1>12, <1>13, <1>14, Steps
<1>16. ASSUME Recon', NEW q \in Records, Want(q, cycle.end)'
       PROVE  /\ cycle'.from <= created'[q]
              /\ created'[q] <= cycle'.to => /\ cycle'.pc = "wait" => q \in cycle'.query.base
                                             /\ Fetched'           => q \in cycle'.rest
  <2>1. cycle'.end = cycle.end
    BY <1>15, <1>16 DEF Goal, Recon
  <2>2. Want(q, cycle.end) /\ created'[q] = created[q]
    BY <1>0, <1>16, <2>1, WantKept DEF Want
  <2>. QED
    BY <1>15, <1>16, <2>1, <2>2 DEF Goal, Recon
<1>. QED
    BY <1>16 DEF Combed

\* A finished pass left none behind.
Finished ==
    reconLast # Never =>
        \A r \in Records : Want(r, reconLast) => created[r] > reconLast

\* Only the end of a pass moves the time of the last one.
LEMMA ReconLastKept ==
    ASSUME PollInv, Next
    PROVE  reconLast' = reconLast \/ ReconDone
<1> DEFINE Goal == reconLast' = reconLast \/ ReconDone
<1>0. TypeOK /\ Clock
    BY DEF PollInv
<1>1. ASSUME World PROVE Goal
    BY <1>0, <1>1, WorldMoves
<1>2. ASSUME StartPoll PROVE Goal
    BY <1>0, <1>2, StartPollMoves
<1>3. ASSUME Resume PROVE Goal
    BY <1>0, <1>3, ResumeMoves
<1>4. ASSUME Create PROVE Goal
    BY <1>0, <1>4, CreateMoves
<1>5. ASSUME Fetch PROVE Goal
    BY <1>0, <1>5, FetchMoves
<1>6. ASSUME TimedOut PROVE Goal
    BY <1>0, <1>6, TimedOutMoves
<1>7. ASSUME NEW r \in Records, Skip(r) PROVE Goal
    BY <1>0, <1>7, SkipMoves
<1>8. ASSUME NEW r \in Records, HandOver(r) PROVE Goal
    BY <1>0, <1>8, HandOverMoves
<1>9. ASSUME Mark PROVE Goal
    BY <1>0, <1>9, MarkMoves
<1>10. ASSUME WindowDone PROVE Goal
    BY <1>0, <1>10, WindowDoneMoves
<1>11. ASSUME Reconcile PROVE Goal
    BY <1>0, <1>11, ReconcileMoves
<1>12. ASSUME ReconChunk PROVE Goal
    BY <1>0, <1>12, ReconChunkMoves
<1>13. ASSUME ReconDone PROVE Goal
    BY <1>0, <1>13, ReconDoneMoves
<1>14. ASSUME Sleeps PROVE Goal
    BY <1>0, <1>14, SleepsMoves
<1>. HIDE DEF Goal
<1>15. Goal
    BY <1>1, <1>2, <1>3, <1>4, <1>5, <1>6, <1>7, <1>8, <1>9, <1>10, <1>11, <1>12, <1>13, <1>14, Steps
<1>. QED
    BY <1>15 DEF Goal

\* The next finished pass leaves none behind either.
LEMMA NextFinished ==
    ASSUME PollInv, Combed, Finished, Next
    PROVE  Finished'
<1>0. /\ TypeOK /\ Clock /\ now \in Nat /\ cycle \in Cycle /\ cycle.end \in 0 .. now
      /\ cycle.to \in Int /\ reconLast \in 0 .. now \cup {Never}
      /\ created \in [Records -> Nat \cup {Never}]
    BY DEF PollInv, TypeOK, Clock, Cycle
<1>1. CASE reconLast' = reconLast
  <2>1. ASSUME NEW q \in Records, reconLast # Never, Want(q, reconLast)'
        PROVE  created'[q] > reconLast'
    <3>1. Want(q, reconLast) /\ created'[q] = created[q]
        BY <1>0, <1>1, <2>1, WantKept DEF Want
    <3>. QED
        BY <1>1, <2>1, <3>1 DEF Finished
  <2>. QED
    BY <1>1, <2>1 DEF Finished
<1>2. CASE reconLast' # reconLast
  <2>1. /\ ReconDone /\ reconLast' = cycle.end /\ cycle.rest = {} /\ cycle.recon
        /\ cycle.pc = "records" /\ cycle.to >= cycle.end
    BY <1>0, <1>2, ReconLastKept, ReconDoneMoves
  <2>2. ASSUME NEW q \in Records, Want(q, reconLast)'
        PROVE  created'[q] > reconLast'
    <3>1. Want(q, cycle.end) /\ created'[q] = created[q]
        BY <1>0, <2>1, <2>2, WantKept DEF Want
    <3>2. ~(created[q] <= cycle.to)
        BY <2>1, <3>1 DEF Combed, Recon, Running, Fetched
    <3>3. created[q] \in Nat
        BY <1>0, <3>1 DEF Clock, Want
    <3>. QED
        BY <1>0, <2>1, <3>1, <3>2, <3>3
  <2>. QED
    BY <2>2 DEF Finished
<1>. QED
    BY <1>1, <1>2

\* A finished reconciliation has handed over everything of its span that had surfaced
\* before it began.
THEOREM ReconSafe == Spec => []ReconCovers
<1>1. Init => Combed /\ Finished
    BY DEF Init, Combed, Finished, Recon, Running, Asleep
<1>2. PollInv /\ Combed /\ Finished /\ [Next]_vars => Combed' /\ Finished'
  <2>1. CASE Next
    BY <2>1, NextCombed, NextFinished
  <2>2. CASE UNCHANGED vars
    BY <2>2 DEF vars, Combed, Finished, Recon, Running, Fetched, Want
  <2>. QED
    BY <2>1, <2>2
<1>3. PollInv /\ Finished => ReconCovers
  <2> SUFFICES ASSUME PollInv, Finished, reconLast # Never, NEW r \in Records \ Provisioning,
                      visible[r] # Never, visible[r] < reconLast,
                      reconLast - ReconSpan <= created[r], created[r] <= reconLast
               PROVE  handed[r] > 0
    BY DEF ReconCovers
  <2>1. handed[r] \in Nat /\ created[r] \in Nat /\ reconLast \in Nat
    BY DEF PollInv, TypeOK, Clock
  <2>2. ~Want(r, reconLast)
    BY <2>1 DEF Finished
  <2>. QED
    BY <2>1, <2>2 DEF Want
<1>. QED
    BY <1>1, <1>2, <1>3, PollInvariant, PTL DEF Spec

-----------------------------------------------------------------------------
(* What a window reaches *)

\* A pass stays within its span, the records at hand have happened and lie in the
\* window, and the one to be marked is among them.
Reach ==
    /\ \A r \in Records : created[r] # Never => created[r] <= now
    /\ Recon => cycle.end - ReconSpan <= cycle.from /\ cycle.end - ReconSpan <= cycle.to
    /\ Fetched => \A r \in cycle.rest : created[r] # Never /\ cycle.from - Overlap <= created[r]
    /\ At("mark") => cycle.cur \in cycle.rest

\* Every step keeps the reach.
LEMMA NextReach ==
    ASSUME PollInv, Reach, Next
    PROVE  Reach'
<1> DEFINE Goal == Reach'
<1> USE DEF Recon, Running, Fetched
<1>0. /\ TypeOK /\ Clock /\ now \in Nat /\ cycle \in Cycle /\ cycle.end \in 0 .. now
      /\ cycle.to \in Int /\ cycle.from \in Int /\ cycle.recon \in BOOLEAN
      /\ created \in [Records -> Nat \cup {Never}] /\ cycle.rest \subseteq Records
      /\ ReconSpan \in Int
    BY DEF PollInv, TypeOK, Clock, Cycle, ReconSpan, Smaller
<1>1. ASSUME World PROVE Goal
  <2>1. now' \in {now, now + 1} /\ UNCHANGED cycle
    BY <1>0, <1>1, WorldMoves DEF World, Tick, Occur, Surface
  <2>2. \A r \in Records : created'[r] = created[r] \/ (created[r] = Never /\ created'[r] = now)
    BY <1>0, <1>1 DEF World, Tick, Occur, Surface
  <2>3. ReconSpan' = ReconSpan
    BY DEF ReconSpan
  <2>. QED
    BY <1>0, <2>1, <2>2, <2>3 DEF Reach
<1>2. ASSUME StartPoll PROVE Goal
    BY <1>0, <1>2, StartPollMoves DEF Reach
<1>3. ASSUME Resume PROVE Goal
    BY <1>0, <1>3, ResumeMoves DEF Reach, ReconSpan
<1>4. ASSUME Create PROVE Goal
    BY <1>0, <1>4, CreateMoves DEF Reach, ReconSpan
<1>5. ASSUME Fetch PROVE Goal
  <2>1. \A r \in cycle'.rest : r \in Records /\ created[r] # Never /\ cycle.from - Overlap <= created[r]
    <3>1. cycle'.rest \subseteq Records
        BY <1>0, <1>5, NextCycle DEF Cycle, PollInv
    <3>. QED
        BY <1>0, <1>5, <3>1, FetchMoves DEF Clock, InWindow
  <2>. QED
    BY <1>0, <1>5, <2>1, FetchMoves DEF Reach, ReconSpan
<1>6. ASSUME TimedOut PROVE Goal
    BY <1>0, <1>6, TimedOutMoves DEF Reach
<1>7. ASSUME NEW r \in Records, Skip(r) PROVE Goal
    BY <1>0, <1>7, SkipMoves DEF Reach, ReconSpan
<1>8. ASSUME NEW r \in Records, HandOver(r) PROVE Goal
    BY <1>0, <1>8, HandOverMoves DEF Reach, ReconSpan
<1>9. ASSUME Mark PROVE Goal
    BY <1>0, <1>9, MarkMoves DEF Reach, ReconSpan
<1>10. ASSUME WindowDone PROVE Goal
    BY <1>0, <1>10, WindowDoneMoves DEF Reach
<1>11. ASSUME Reconcile PROVE Goal
  <2>1. /\ cycle.end - ReconSpan <= cycle'.from
        /\ cycle.end - ReconSpan <= cycle'.to
    BY <1>0, <1>11, ReconcileMoves DEF ChunkEnd, Smaller
  <2>. QED
    BY <1>0, <1>11, <2>1, ReconcileMoves DEF Reach, ReconSpan
<1>12. ASSUME ReconChunk PROVE Goal
  <2>1. cycle.end - ReconSpan <= cycle.to
    BY <1>0, <1>12, ReconChunkMoves DEF Reach
  <2>2. /\ cycle.end - ReconSpan <= cycle'.from
        /\ cycle.end - ReconSpan <= cycle'.to
    BY <1>0, <1>12, <2>1, ReconChunkMoves DEF ChunkEnd, Smaller
  <2>. QED
    BY <1>0, <1>12, <2>2, ReconChunkMoves DEF Reach, ReconSpan
<1>13. ASSUME ReconDone PROVE Goal
    BY <1>0, <1>13, ReconDoneMoves DEF Reach
<1>14. ASSUME Sleeps PROVE Goal
    BY <1>0, <1>14, SleepsMoves DEF Reach
<1>. HIDE DEF Goal
<1>15. Goal
    BY <1>1, <1>2, <1>3, <1>4, <1>5, <1>6, <1>7, <1>8, <1>9, <1>10, <1>11, <1>12, <1>13, <1>14, Steps
<1>. QED
    BY <1>15 DEF Goal

-----------------------------------------------------------------------------
(* Once, but for faults *)

\* A dedup key that was set for r now cannot have expired yet
Fresh(r) == created[r] # Never => now < created[r] + DedupTTL

\* A key is kept for DedupTTL, or beyond the clock's bound.  A record handed over is
\* marked or about to be, or a fault came in between.
Once ==
    /\ now <= MaxTime
    /\ \A r \in Records :
          /\ seen[r] > 0 => /\ created[r] # Never
                            /\ seen[r] > MaxTime \/ created[r] + DedupTTL <= seen[r]
          /\ Fresh(r) =>
                handed[r] <= faults + IF seen[r] > 0 \/ (At("mark") /\ cycle.cur = r) THEN 1 ELSE 0

\* A record handed over while its key cannot have expired has none.
LEMMA Unmarked ==
    ASSUME TypeOK, Once, NEW r \in Records, Fresh(r), ~IsSeen(r)
    PROVE  seen[r] = 0
<1>1. now \in Nat /\ seen[r] \in Nat /\ (created[r] # Never => created[r] \in Nat)
    BY DEF TypeOK
<1>. QED
    BY <1>1 DEF Once, Fresh, IsSeen

\* Every step keeps the count.
LEMMA NextOnce ==
    ASSUME PollInv, Reach, Once, Next
    PROVE  Once'
<1> DEFINE Goal == Once'
<1>0. /\ TypeOK /\ Clock /\ now \in Nat /\ faults \in Nat /\ now <= MaxTime
      /\ seen \in [Records -> Nat] /\ handed \in [Records -> Nat]
      /\ created \in [Records -> Nat \cup {Never}]
      /\ cycle.rest \subseteq Records
    BY DEF PollInv, TypeOK, Cycle, Once
<1>1. ASSUME World PROVE Goal
  <2>1. now' \in {now, now + 1} /\ now' <= MaxTime
    BY <1>0, <1>1 DEF World, Tick, Occur, Surface
  <2>2. UNCHANGED <<seen, cycle, handed, faults>>
    BY <1>0, <1>1, WorldMoves
  <2>3. ASSUME NEW r \in Records, Fresh(r)' PROVE Fresh(r)
    BY <1>0, <1>1, <2>1, <2>3 DEF World, Tick, Occur, Surface, Fresh
  <2>4. \A r \in Records : created[r] # Never => created'[r] = created[r]
    BY <1>0, <1>1 DEF World, Tick, Occur, Surface
  <2>. QED
    BY <1>0, <2>1, <2>2, <2>3, <2>4 DEF Once
<1>2. ASSUME StartPoll PROVE Goal
    BY <1>0, <1>2, StartPollMoves DEF Once, Fresh
<1>3. ASSUME Resume PROVE Goal
    BY <1>0, <1>3, ResumeMoves DEF Once, Fresh
<1>4. ASSUME Create PROVE Goal
  <2>1. faults' \in Nat
    BY <1>4, NextTypes DEF PollInv, TypeOK
  <2>. QED
    BY <1>0, <1>4, <2>1, CreateMoves DEF Once, Fresh
<1>5. ASSUME Fetch PROVE Goal
  <2>1. faults' \in Nat
    BY <1>5, NextTypes DEF PollInv, TypeOK
  <2>. QED
    BY <1>0, <1>5, <2>1, FetchMoves DEF Once, Fresh
<1>6. ASSUME TimedOut PROVE Goal
  <2>1. faults' \in Nat
    BY <1>6, NextTypes DEF PollInv, TypeOK
  <2>. QED
    BY <1>0, <1>6, <2>1, TimedOutMoves DEF Once, Fresh
<1>7. ASSUME NEW r \in Records, Skip(r) PROVE Goal
    BY <1>0, <1>7, SkipMoves DEF Once, Fresh
<1>8. ASSUME NEW r \in Records, HandOver(r) PROVE Goal
  <2>1. Fresh(r) => seen[r] = 0
    BY <1>0, <1>8, HandOverMoves, Unmarked
  <2>2. \A q \in Records : Fresh(q)' <=> Fresh(q)
    BY <1>0, <1>8, HandOverMoves DEF Fresh
  <2>. QED
    BY <1>0, <1>8, <2>1, <2>2, HandOverMoves DEF Once
<1>9. ASSUME Mark PROVE Goal
  <2>1. cycle.cur \in Records /\ created[cycle.cur] # Never /\ created[cycle.cur] <= now
    BY <1>0, <1>9, MarkMoves DEF Reach, Fetched
  <2>2. Expiry \in Nat /\ (Expiry > MaxTime \/ created[cycle.cur] + DedupTTL <= Expiry)
    BY <1>0, <2>1 DEF Expiry, Smaller
  <2>3. \A q \in Records : Fresh(q)' <=> Fresh(q)
    BY <1>0, <1>9, MarkMoves DEF Fresh
  <2>4. Expiry > 0
    BY <1>0 DEF Expiry, Smaller
  <2>. QED
    BY <1>0, <1>9, <2>1, <2>2, <2>3, <2>4, MarkMoves DEF Once
<1>10. ASSUME WindowDone PROVE Goal
    BY <1>0, <1>10, WindowDoneMoves DEF Once, Fresh
<1>11. ASSUME Reconcile PROVE Goal
  <2>1. faults' \in Nat
    BY <1>11, NextTypes DEF PollInv, TypeOK
  <2>. QED
    BY <1>0, <1>11, <2>1, ReconcileMoves DEF Once, Fresh
<1>12. ASSUME ReconChunk PROVE Goal
    BY <1>0, <1>12, ReconChunkMoves DEF Once, Fresh
<1>13. ASSUME ReconDone PROVE Goal
  <2>1. faults' \in Nat
    BY <1>13, NextTypes DEF PollInv, TypeOK
  <2>. QED
    BY <1>0, <1>13, <2>1, ReconDoneMoves DEF Once, Fresh
<1>14. ASSUME Sleeps PROVE Goal
    BY <1>0, <1>14, SleepsMoves DEF Once, Fresh
<1>. HIDE DEF Goal
<1>15. Goal
    BY <1>1, <1>2, <1>3, <1>4, <1>5, <1>6, <1>7, <1>8, <1>9, <1>10, <1>11, <1>12, <1>13, <1>14, Steps
<1>. QED
    BY <1>15 DEF Goal

\* The count and the reach are invariants.
LEMMA OnceInvariant == Spec => [](PollInv /\ Reach /\ Once)
<1>1. Init => Reach /\ Once
    BY DEF Init, Reach, Once, Recon, Running, Fetched, Asleep
<1>2. PollInv /\ Reach /\ Once /\ [Next]_vars => Reach' /\ Once'
  <2>1. ASSUME PollInv, Reach, Once, Next PROVE Reach' /\ Once'
    BY <2>1, NextReach, NextOnce
  <2>2. ASSUME Reach, Once, UNCHANGED vars PROVE Reach' /\ Once'
    BY <2>2 DEF vars, Reach, Once, Fresh, Recon, Running, Fetched, ReconSpan
  <2>. QED
    BY <2>1, <2>2
<1>. QED
    BY <1>1, <1>2, PollInvariant, PTL DEF Spec

\* As long as its dedup key lives, a record is handed over once, and once more for
\* each fault.
THEOREM OnceSafe == Spec => []OncePlusFaults
<1>1. PollInv /\ Reach /\ Once => OncePlusFaults
  <2> SUFFICES ASSUME PollInv, Once, NEW r \in Records, created[r] # Never,
                      now < created[r] + DedupTTL
               PROVE  handed[r] <= 1 + faults
    BY DEF OncePlusFaults
  <2>1. handed[r] \in Nat /\ faults \in Nat
    BY DEF PollInv, TypeOK
  <2>2. handed[r] <= faults + 0 \/ handed[r] <= faults + 1
    BY DEF Once, Fresh
  <2>. QED
    BY <2>1, <2>2
<1>. QED
    BY <1>1, OnceInvariant, PTL

\* A reconciliation within its margin repeats nothing without a fault.
THEOREM RepeatSafe == Spec => ReconRepeatsNothing
<1> DEFINE Repeats(r) == handed[r] > faults /\ handed'[r] # handed[r]
           Quick == cycle.recon /\ now < cycle.end + Margin - Overlap
<1>1. ASSUME PollInv, Reach, Once, Next, Quick, NEW r \in Records, Repeats(r) PROVE FALSE
  <2>0. /\ TypeOK /\ Clock /\ now \in Nat /\ faults \in Nat /\ handed \in [Records -> Nat]
        /\ cycle.from \in Int /\ cycle.end \in Int /\ cycle.recon \in BOOLEAN
        /\ created \in [Records -> Nat \cup {Never}]
    BY <1>1 DEF PollInv, TypeOK, Clock, Cycle
  <2>1. HandOver(r)
    <3>1. CASE World
        BY <1>1, <2>0, <3>1, WorldMoves
    <3>2. CASE \E q \in Records : HandOver(q)
        BY <1>1, <2>0, <3>2, HandOverMoves
    <3>3. CASE ~World /\ ~\E q \in Records : HandOver(q)
        BY <1>1, <2>0, <3>3, Steps, StartPollMoves, ResumeMoves, CreateMoves, FetchMoves,
           TimedOutMoves, SkipMoves, MarkMoves, WindowDoneMoves, ReconcileMoves,
           ReconChunkMoves, ReconDoneMoves, SleepsMoves
    <3>. QED
        BY <3>1, <3>2, <3>3
  <2>2. /\ r \in cycle.rest /\ At("records") /\ ~IsSeen(r)
        /\ created[r] \in Nat /\ cycle.from - Overlap <= created[r]
        /\ cycle.end - ReconSpan <= cycle.from
    BY <1>1, <2>0, <2>1, HandOverMoves DEF Reach, Recon, Running, Fetched
  <2>3. ReconSpan \in Int /\ ReconSpan <= DedupTTL - Margin
    BY DEF ReconSpan, Smaller
  <2>4. Fresh(r)
    BY <1>1, <2>0, <2>2, <2>3 DEF Fresh
  <2>5. seen[r] = 0
    BY <1>1, <2>0, <2>2, <2>4, Unmarked
  <2>. QED
    BY <1>1, <2>0, <2>2, <2>4, <2>5 DEF Once
<1>2. ASSUME PollInv, Reach, Once, [Next]_vars
      PROVE  Quick => \A r \in Records : handed[r] > faults => handed'[r] = handed[r]
  <2>1. CASE Next
    BY <1>1, <1>2, <2>1
  <2>2. CASE UNCHANGED vars
    BY <2>2 DEF vars
  <2>. QED
    BY <1>2, <2>1, <2>2
<1>3. PollInv /\ Reach /\ Once /\ [Next]_vars
        => [Quick => \A r \in Records : handed[r] > faults => handed'[r] = handed[r]]_vars
    BY <1>2
<1>. QED
    BY <1>3, OnceInvariant, PTL DEF Spec, ReconRepeatsNothing

-----------------------------------------------------------------------------
(* The promise *)

\* The two times that are saved go forward: a poll's window does not end before the
\* checkpoint, and a cycle began after the last reconciliation did.
Forward ==
    /\ Poll => checkpoint <= cycle.to
    /\ ~At("idle") /\ reconLast # Never => reconLast <= cycle.end

\* What was fetched is in the log.
Shown == Fetched => \A r \in cycle.rest : visible[r] # Never

\* Every step keeps both.
LEMMA NextForward ==
    ASSUME PollInv, Forward, Shown, Next
    PROVE  Forward' /\ Shown'
<1> DEFINE Goal == Forward' /\ Shown'
<1> USE DEF Forward, Shown, Poll, Running, Fetched
<1>0. /\ TypeOK /\ now \in Nat /\ checkpoint \in 0 .. now /\ reconLast \in 0 .. now \cup {Never}
      /\ cycle \in Cycle /\ cycle.to \in Int /\ cycle.end \in 0 .. now /\ cycle.to <= cycle.end
      /\ cycle.rest \subseteq Records /\ visible \in [Records -> Nat \cup {Never}]
    BY DEF PollInv, TypeOK, Clock, Cycle
<1>1. ASSUME World PROVE Goal
  <2>1. UNCHANGED <<checkpoint, reconLast, cycle>>
    BY <1>1, WorldMoves DEF PollInv
  <2>2. \A r \in Records : visible[r] # Never => visible'[r] # Never
    BY <1>0, <1>1 DEF World, Tick, Occur, Surface
  <2>. QED
    BY <1>0, <2>1, <2>2
<1>2. ASSUME StartPoll PROVE Goal
    BY <1>0, <1>2, StartPollMoves DEF FirstEnd, ChunkEnd, Smaller
<1>3. ASSUME Resume PROVE Goal
    BY <1>0, <1>3, ResumeMoves
<1>4. ASSUME Create PROVE Goal
    BY <1>0, <1>4, CreateMoves
<1>5. ASSUME Fetch PROVE Goal
    BY <1>0, <1>5, FetchMoves
<1>6. ASSUME TimedOut PROVE Goal
    BY <1>0, <1>6, TimedOutMoves
<1>7. ASSUME NEW r \in Records, Skip(r) PROVE Goal
    BY <1>0, <1>7, SkipMoves
<1>8. ASSUME NEW r \in Records, HandOver(r) PROVE Goal
    BY <1>0, <1>8, HandOverMoves
<1>9. ASSUME Mark PROVE Goal
    BY <1>0, <1>9, MarkMoves
<1>10. ASSUME WindowDone PROVE Goal
    BY <1>0, <1>10, WindowDoneMoves DEF ChunkEnd, Smaller
<1>11. ASSUME Reconcile PROVE Goal
    BY <1>0, <1>11, ReconcileMoves
<1>12. ASSUME ReconChunk PROVE Goal
    BY <1>0, <1>12, ReconChunkMoves
<1>13. ASSUME ReconDone PROVE Goal
    BY <1>0, <1>13, ReconDoneMoves
<1>14. ASSUME Sleeps PROVE Goal
    BY <1>0, <1>14, SleepsMoves
<1>. HIDE DEF Goal
<1>15. Goal
    BY <1>1, <1>2, <1>3, <1>4, <1>5, <1>6, <1>7, <1>8, <1>9, <1>10, <1>11, <1>12, <1>13, <1>14, Steps
<1>. QED
    BY <1>15 DEF Goal

\* A record is handed over only if the log shows it, and again only after a mishap or
\* when its key may have expired.
LEMMA HandsOver ==
    ASSUME PollInv, Once, Shown, NEW r \in Records, HandOver(r)
    PROVE  [Promise!HandOver(r)]_(Promise!vars)
<1>0. /\ TypeOK /\ now \in Nat /\ faults \in Nat /\ handed \in [Records -> Nat]
      /\ created \in [Records -> Nat \cup {Never}]
      /\ \A q \in Records : visible[q] # Never => created[q] # Never
    BY DEF PollInv, TypeOK, Clock
<1>1. visible[r] # Never /\ created[r] \in Nat
    BY <1>0, HandOverMoves DEF Shown, Fetched
<1>2. CASE Fresh(r)
  <2>1. seen[r] = 0 /\ ~(At("mark") /\ cycle.cur = r)
    BY <1>0, <1>2, HandOverMoves, Unmarked
  <2>2. handed[r] <= faults
    BY <1>0, <1>2, <2>1 DEF Once
  <2>. QED
    BY <1>0, <1>1, <2>2, HandOverMoves DEF Promise!HandOver, Promise!vars, Promise!log
<1>3. CASE ~Fresh(r)
    BY <1>0, <1>1, <1>3, HandOverMoves DEF Fresh, Promise!HandOver, Promise!vars, Promise!log
<1>. QED
    BY <1>2, <1>3

\* A window that is done advances the checkpoint.
LEMMA Advances ==
    ASSUME PollInv, Forward, CheckpointCovers', WindowDone
    PROVE  Promise!Advance
<1>1. /\ UNCHANGED <<now, created, visible, reconLast, handed, faults>>
      /\ checkpoint' = cycle.to /\ At("records") /\ cycle.recon = FALSE
    BY WindowDoneMoves DEF PollInv
<1>2. checkpoint <= cycle.to /\ cycle.to <= now
    BY <1>1 DEF Forward, Poll, Running, PollInv, TypeOK
<1>3. \A r \in Promise!Prompt(checkpoint') \ Provisioning : handed[r] > 0
    BY <1>1 DEF CheckpointCovers, Prompt, Promise!Prompt
<1>. QED
    BY <1>1, <1>2, <1>3 DEF Promise!Advance, Promise!Complete, Promise!log

\* A reconciliation that is done saves the time it began, or cannot.
LEMMA Sweeps ==
    ASSUME PollInv, Forward, ReconCovers', ReconDone
    PROVE  Promise!Sweep \/ UNCHANGED <<now, created, visible, checkpoint, reconLast, handed>>
<1>1. /\ UNCHANGED <<now, created, visible, checkpoint, handed>>
      /\ reconLast' \in {reconLast, cycle.end} /\ At("records")
    BY ReconDoneMoves DEF PollInv
<1>2. CASE reconLast' = reconLast
    BY <1>1, <1>2
<1>3. CASE reconLast' # reconLast
  <2>1. reconLast' = cycle.end /\ faults' = faults /\ cycle.end \in 0 .. now /\ reconLast' # Never
    BY <1>1, <1>3 DEF ReconDone, PollInv, Clock
  <2>2. reconLast # Never => reconLast <= reconLast'
    BY <1>1, <2>1 DEF Forward
  <2>3. \A r \in Promise!Recent(reconLast') \ Provisioning : handed[r] > 0
    BY <1>1, <2>1 DEF ReconCovers, Promise!Recent, ReconSpan
  <2>. QED
    BY <1>1, <2>1, <2>2, <2>3 DEF Promise!Sweep, Promise!Complete, Promise!log
<1>. QED
    BY <1>2, <1>3

\* Steps that the promise sees at most as a mishap
LEMMA Mishaps ==
    ASSUME PollInv, PollInv', faults' >= faults,
           UNCHANGED <<now, created, visible, checkpoint, reconLast, handed>>
    PROVE  [Promise!Mishap]_(Promise!vars)
<1>1. faults \in Nat /\ faults' \in Nat
    BY DEF PollInv, TypeOK
<1>2. faults' = faults \/ faults < faults'
    BY <1>1
<1>. QED
    BY <1>2 DEF Promise!Mishap, Promise!vars, Promise!log

\* The tenant and the clock are those of the promise.
LEMMA Worlds ==
    ASSUME PollInv, World
    PROVE  Promise!Next
<1>1. UNCHANGED <<checkpoint, reconLast, handed, faults>>
    BY WorldMoves DEF PollInv
<1>2. CASE Tick
    BY <1>1, <1>2 DEF Tick, Promise!Next, Promise!Tick
<1>3. ASSUME NEW r \in Records, Occur(r) PROVE Promise!Next
    BY <1>1, <1>3 DEF Occur, Promise!Next, Promise!Occur
<1>4. ASSUME NEW r \in Records, Surface(r) PROVE Promise!Next
    BY <1>1, <1>4 DEF Surface, Promise!Next, Promise!Surface
<1>. QED
    BY <1>2, <1>3, <1>4 DEF World

\* Every step is one of the promise, or out of its sight.
LEMMA PollerStep ==
    ASSUME PollInv, PollInv', Once, Forward, Shown, CheckpointCovers', ReconCovers', Next
    PROVE  [Promise!Next]_(Promise!vars)
<1>0. TypeOK
    BY DEF PollInv
<1>1. CASE World
    BY <1>1, Worlds
<1>2. ASSUME NEW r \in Records, HandOver(r) PROVE [Promise!Next]_(Promise!vars)
    BY <1>2, HandsOver DEF Promise!Next
<1>3. CASE WindowDone
    BY <1>3, Advances DEF Promise!Next
<1>4. faults \in Nat
    BY <1>0 DEF TypeOK
<1>5. CASE ReconDone
  <2>1. faults' >= faults
    BY <1>0, <1>5, ReconDoneMoves
  <2>. QED
    BY <1>5, <2>1, Sweeps, Mishaps DEF Promise!Next
<1>6. CASE ~World /\ ~WindowDone /\ ~ReconDone /\ ~\E r \in Records : HandOver(r)
  <2> DEFINE Aside == /\ UNCHANGED <<now, created, visible, checkpoint, reconLast, handed>>
                      /\ faults' >= faults
  <2>1. Aside
    <3>1. StartPoll => Aside
      BY <1>0, <1>4, StartPollMoves
    <3>2. Resume => Aside
      BY <1>0, <1>4, ResumeMoves
    <3>3. Mark => Aside
      BY <1>0, <1>4, MarkMoves
    <3>4. ReconChunk => Aside
      BY <1>0, <1>4, ReconChunkMoves
    <3>5. Create \/ Fetch \/ TimedOut \/ Reconcile => Aside
      BY <1>0, CreateMoves, FetchMoves, TimedOutMoves, ReconcileMoves
    <3>6. Sleeps => Aside
      BY <1>0, <1>4, SleepsMoves
    <3>7. ASSUME NEW r \in Records, Skip(r) PROVE Aside
      BY <1>0, <1>4, <3>7, SkipMoves
    <3> HIDE DEF Aside
    <3>. QED
      BY <1>6, <3>1, <3>2, <3>3, <3>4, <3>5, <3>6, <3>7, Steps
  <2>. QED
    BY <2>1, Mishaps DEF Promise!Next
<1>. QED
    BY <1>1, <1>2, <1>3, <1>5, <1>6

\* The poller implements PollerPromise, for any records, windows, limits and mishaps: it
\* hands over only what the log shows, again only after a mishap or with an expired key,
\* and the times it saves go forward and never ahead of what was handed over.
THEOREM PollerPromiseKept == Spec => KeepsPollerPromise
<1>1. Init => Promise!Init /\ Forward /\ Shown
    BY DEF Init, Promise!Init, Forward, Shown, Poll, Running, Fetched, Asleep
<1>2. PollInv /\ Forward /\ Shown /\ [Next]_vars => Forward' /\ Shown'
  <2>1. CASE Next
    BY <2>1, NextForward
  <2>2. CASE UNCHANGED vars
    BY <2>2 DEF vars, Forward, Shown, Poll, Running, Fetched
  <2>. QED
    BY <2>1, <2>2
<1>3. /\ PollInv /\ Once /\ Forward /\ Shown /\ [Next]_vars
      /\ PollInv' /\ CheckpointCovers' /\ ReconCovers'
      => [Promise!Next]_(Promise!vars)
  <2>1. CASE Next
    BY <2>1, PollerStep
  <2>2. CASE UNCHANGED vars
    BY <2>2 DEF vars, Promise!vars, Promise!log
  <2>. QED
    BY <2>1, <2>2
<1>. QED
    BY <1>1, <1>2, <1>3, PollInvariant, OnceInvariant, CheckpointSafe, ReconSafe, PTL
       DEF Spec, KeepsPollerPromise, Promise!Spec

=============================================================================
