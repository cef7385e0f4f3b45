----------------------------- MODULE WorkProofs -----------------------------
(***************************************************************************)
(* Theorems about the background work: the leases of a local worker's job  *)
(* (LocalJobs), the worker's round robin (WorkerLoop), the runs of the AI  *)
(* gateway with their budget (AiRuns), what agents accept of each other    *)
(* (TaskLog) and how they create a Run (AgentRuns), for any number of      *)
(* workers, leases, queues, requests, months, processes and Runs.          *)
(***************************************************************************)
EXTENDS LocalJobs, WorkerLoop, AiRuns, TaskLog, AgentRuns, FiniteSetTheorems, WellFoundedInduction, TLAPS

\* A sequence mapped element by element keeps its length.
LEMMA MappedSeq ==
  ASSUME NEW S, NEW T, NEW s \in Seq(S), NEW f \in [DOMAIN s -> T]
  PROVE  f \in Seq(T) /\ Len(f) = Len(s) /\ DOMAIN f = DOMAIN s
  OBVIOUS

\* A set without two elements has at most one.
LEMMA AtMostOne ==
  ASSUME NEW S, \A x, y \in S : x = y
  PROVE  IsFiniteSet(S) /\ Cardinality(S) <= 1
<1>1. CASE S = {}
  BY <1>1, FS_EmptySet
<1>2. CASE S # {}
  <2>1. PICK x : S = {x}
    BY <1>2
  <2>2. IsFiniteSet({x}) /\ Cardinality({x}) = 1
    BY FS_Singleton
  <2> QED
    BY <2>1, <2>2
<1> QED
  BY <1>1, <1>2

-----------------------------------------------------------------------------
(* LocalJobs.                                                              *)

LeaseRow == [state : {"active", "expired", "revoked", "completed"}, over : BOOLEAN]

\* An active lease is the only one, and none is left when the job has its
\* result, which came through a lease that was completed by it.
JobInv ==
  /\ JobTypeOK
  /\ \A k, l \in DOMAIN leases :
       leases[k].state = "active" /\ leases[l].state = "active" => k = l
  /\ job = "completed" => \A l \in DOMAIN leases : leases[l].state # "active"
  /\ \A r, s \in receipts : r = s
  /\ \A r \in receipts : leases[r.lease].state = "completed"

\* A job starts without leases.
LEMMA JobInvInit == JobInit => JobInv
  BY DEF JobInit, JobInv, JobTypeOK

\* The lease of a worker whose job has nothing of the kind yet.
LEMMA IssueLeaseKeeps == ASSUME JobInv, NEW w \in JobWorker, IssueLease(w) PROVE JobInv'
<1> DEFINE new == [state |-> "active", over |-> FALSE]
<1>1. leases \in Seq(LeaseRow) /\ new \in LeaseRow
  BY DEF JobInv, JobTypeOK, LeaseRow
<1>2. /\ Expired \in [DOMAIN leases -> LeaseRow]
      /\ \A l \in DOMAIN leases :
           /\ Expired[l].state # "active"
           /\ leases[l].state # "active" => Expired[l] = leases[l]
  <2> DEFINE ended(l) == IF leases[l].state = "active"
                         THEN [leases[l] EXCEPT !.state = "expired"] ELSE leases[l]
  <2>1. \A l \in DOMAIN leases : leases[l] \in LeaseRow
    BY <1>1
  <2>2. \A l \in DOMAIN leases : ended(l) \in LeaseRow /\ ended(l).state # "active"
    BY <2>1 DEF LeaseRow
  <2>3. Expired = [l \in DOMAIN leases |-> ended(l)]
    BY DEF Expired
  <2>4. \A l \in DOMAIN leases : leases[l].state # "active" => ended(l) = leases[l]
    OBVIOUS
  <2> HIDE DEF ended
  <2> QED
    BY <2>2, <2>3, <2>4
<1>3. Expired \in Seq(LeaseRow) /\ Len(Expired) = Len(leases) /\ DOMAIN Expired = DOMAIN leases
  BY <1>1, <1>2, MappedSeq
<1>4. /\ leases' = Append(Expired, new) /\ new.state = "active"
      /\ checkpoint' = checkpoint /\ receipts' = receipts
      /\ job # "completed" /\ receipts = {} /\ job' # "completed"
      /\ job' \in {"none", "queued", "running", "uploaded", "failed", "completed"}
  BY DEF IssueLease, JobInv, JobTypeOK
<1> HIDE DEF new
<1>5. /\ leases' \in Seq(LeaseRow) /\ Len(leases') = Len(leases) + 1
      /\ DOMAIN leases' = DOMAIN leases \cup {Len(leases) + 1} /\ Len(leases) \in Nat
      /\ \A l \in DOMAIN leases : leases'[l] = Expired[l]
  BY <1>1, <1>3, <1>4
<1>6. checkpoint' \in {NoCheckpoint} \cup [stage : Stage, output : Nat, lease : DOMAIN leases']
  BY <1>4, <1>5 DEF JobInv, JobTypeOK
<1>7. holds' \in [JobWorker -> 0..Len(leases')]
  BY <1>5 DEF IssueLease, JobInv, JobTypeOK
<1>8. JobTypeOK'
  BY <1>4, <1>5, <1>6, <1>7 DEF JobTypeOK, LeaseRow
<1> QED
  BY <1>2, <1>4, <1>5, <1>8 DEF JobInv

\* A lease ends; what it wrote stays.
LEMMA LeaseEnds ==
  ASSUME JobInv, NEW l \in DOMAIN leases, NEW row \in LeaseRow, leases[l].state = "active",
         leases' = [leases EXCEPT ![l] = row]
  PROVE  /\ leases' \in Seq(LeaseRow) /\ Len(leases') = Len(leases) /\ DOMAIN leases' = DOMAIN leases
         /\ leases'[l] = row /\ \A k \in DOMAIN leases \ {l} : leases'[k] = leases[k]
         /\ \A r \in receipts : leases'[r.lease].state = "completed"
<1>1. leases \in Seq(LeaseRow)
  BY DEF JobInv, JobTypeOK, LeaseRow
<1>2. leases \in [DOMAIN leases -> LeaseRow]
  BY <1>1
<1>6. leases' \in [DOMAIN leases -> LeaseRow]
  BY <1>2
<1>3. leases' \in Seq(LeaseRow) /\ Len(leases') = Len(leases) /\ DOMAIN leases' = DOMAIN leases
  BY <1>1, <1>6, MappedSeq
<1>4. leases'[l] = row /\ \A k \in DOMAIN leases \ {l} : leases'[k] = leases[k]
  OBVIOUS
<1>5. \A r \in receipts : r.lease \in DOMAIN leases /\ leases[r.lease].state = "completed"
  BY DEF JobInv, JobTypeOK
<1> QED
  BY <1>3, <1>4, <1>5

\* Every step keeps the invariant.
LEMMA JobInvStep == JobInv /\ [JobNext]_jobVars => JobInv'
<1> SUFFICES ASSUME JobInv, [JobNext]_jobVars PROVE JobInv'
  OBVIOUS
<1>0. leases \in Seq(LeaseRow) /\ holds \in [JobWorker -> 0..Len(leases)]
  BY DEF JobInv, JobTypeOK, LeaseRow
<1>t. /\ leases \in Seq(LeaseRow) /\ Len(leases) \in Nat
      /\ holds \in [JobWorker -> 0..Len(leases)]
      /\ \A l \in DOMAIN leases : leases[l] \in LeaseRow
  BY <1>0
<1>1. ASSUME NEW w \in JobWorker, IssueLease(w) PROVE JobInv'
  BY <1>1, IssueLeaseKeeps
<1>2. ASSUME NEW l \in DOMAIN leases, RevokeLease(l) PROVE JobInv'
  <2> DEFINE row == [leases[l] EXCEPT !.state = "revoked"]
  <2>1. row \in LeaseRow /\ row.state = "revoked" /\ leases' = [leases EXCEPT ![l] = row]
    BY <1>2, <1>t DEF RevokeLease, LeaseRow
  <2> HIDE DEF row
  <2>2. /\ leases[l].state = "active" /\ UNCHANGED <<checkpoint, receipts, holds>>
        /\ job' \in {"failed", job} /\ (job' = "completed" <=> job = "completed")
    BY <1>2 DEF RevokeLease
  <2>3. JobTypeOK'
    BY <2>1, <2>2, LeaseEnds DEF JobInv, JobTypeOK, LeaseRow
  <2> QED
    BY <2>1, <2>2, <2>3, LeaseEnds DEF JobInv
<1>3. ASSUME NEW w \in JobWorker, NEW step \in Stage, Checkpoint(w, step) PROVE JobInv'
  <2>1. /\ holds[w] \in DOMAIN leases /\ leases[holds[w]].state = "active"
        /\ UNCHANGED <<leases, receipts, holds>>
    BY <1>3, <1>t DEF Checkpoint, MayCheckpoint, Running
  <2>2. job # "completed"
    BY <2>1 DEF JobInv
  <2>3. checkpoint' \in {NoCheckpoint} \cup [stage : Stage, output : Nat, lease : DOMAIN leases]
    BY <1>3, <2>1, JobConstants DEF Checkpoint, JobInv, JobTypeOK
  <2>4. /\ job' \in {"none", "queued", "running", "uploaded", "failed", "completed"}
        /\ job' # "completed"
    BY <1>3, <2>2 DEF Checkpoint, Stage, JobInv, JobTypeOK
  <2> QED
    BY <2>1, <2>2, <2>3, <2>4 DEF JobInv, JobTypeOK
<1>4. ASSUME NEW w \in JobWorker, SubmitResult(w) PROVE JobInv'
  <2> DEFINE h == holds[w]
             row == [leases[h] EXCEPT !.state = "completed"]
             new == [key |-> w, lease |-> h, output |-> OutputOf[w]]
  <2>1. h \in DOMAIN leases /\ leases[h].state = "active"
    BY <1>4, <1>t DEF SubmitResult, Running
  <2>2. job # "completed" /\ receipts = {}
    BY <2>1 DEF JobInv, JobTypeOK
  <2>3. row \in LeaseRow /\ row.state = "completed" /\ leases' = [leases EXCEPT ![h] = row]
    BY <1>4, <1>t, <2>1 DEF SubmitResult, LeaseRow
  <2>4. /\ receipts' = {new} /\ checkpoint' = NoCheckpoint /\ job' = "completed"
        /\ holds' = holds
    BY <1>4, <2>2 DEF SubmitResult
  <2>5. new \in [key : JobWorker, lease : DOMAIN leases, output : Nat] /\ new.lease = h
    BY <2>1, JobConstants
  <2> HIDE DEF row, new
  <2>6. /\ leases' \in Seq(LeaseRow) /\ Len(leases') = Len(leases) /\ DOMAIN leases' = DOMAIN leases
        /\ leases'[h] = row /\ \A k \in DOMAIN leases \ {h} : leases'[k] = leases[k]
    BY <2>1, <2>3, LeaseEnds
  <2>7. JobTypeOK'
    BY <1>t, <2>4, <2>5, <2>6 DEF JobTypeOK, LeaseRow
  <2> QED
    BY <2>1, <2>3, <2>4, <2>5, <2>6, <2>7 DEF JobInv
<1>5. ASSUME NEW l \in DOMAIN leases, TimeIsOver(l) PROVE JobInv'
  <2> DEFINE row == [leases[l] EXCEPT !.over = TRUE]
  <2>1. row \in LeaseRow /\ row.state = leases[l].state /\ leases' = [leases EXCEPT ![l] = row]
    BY <1>5, <1>t DEF TimeIsOver, LeaseRow
  <2> HIDE DEF row
  <2>2. leases[l].state = "active" /\ UNCHANGED <<job, checkpoint, receipts, holds>>
    BY <1>5 DEF TimeIsOver, Running
  <2>3. JobTypeOK'
    BY <2>1, <2>2, LeaseEnds DEF JobInv, JobTypeOK, LeaseRow
  <2> QED
    BY <2>1, <2>2, <2>3, LeaseEnds DEF JobInv
<1>6. CASE UNCHANGED jobVars
  BY <1>6 DEF jobVars, JobInv, JobTypeOK
<1> QED
  BY <1>1, <1>2, <1>3, <1>4, <1>5, <1>6 DEF JobNext

\* However many workers, leases, lapses, revocations and repeated requests
\* there are, one lease is active at a time, and one result is accepted.
THEOREM OneWorkerAtATime == JobSpec => []OneWorkerOneResult
<1>1. JobInv => OneWorkerOneResult
  BY AtMostOne DEF JobInv, OneWorkerOneResult, OneRunningLease, OneResult
<1> QED
  BY <1>1, JobInvInit, JobInvStep, PTL DEF JobSpec

\* The checkpoint only advances, through the lease that runs, until the
\* result takes it away.
THEOREM CheckpointsAdvance == JobSpec => [][CheckpointAdvances]_jobVars
<1>1. JobInv /\ [JobNext]_jobVars => [CheckpointAdvances]_jobVars
  <2> SUFFICES ASSUME JobInv, JobNext, checkpoint' # checkpoint
               PROVE  CheckpointAdvances
    BY DEF CheckpointAdvances
  <2>1. ASSUME NEW w \in JobWorker, SubmitResult(w) PROVE CheckpointAdvances
    <3>1. holds[w] \in DOMAIN leases /\ leases[holds[w]].state = "active"
      BY <2>1 DEF SubmitResult, Running, JobInv, JobTypeOK
    <3>2. receipts = {}
      BY <3>1 DEF JobInv, JobTypeOK
    <3> QED
      BY <2>1, <3>2 DEF SubmitResult, CheckpointAdvances
  <2>2. ASSUME NEW w \in JobWorker, NEW step \in Stage, Checkpoint(w, step)
        PROVE  CheckpointAdvances
    <3>1. /\ Running(holds[w]) /\ checkpoint.stage # step
          /\ checkpoint'.stage = step /\ checkpoint'.lease = holds[w]
          /\ checkpoint.stage # "none" => StageOrder[step] >= StageOrder[checkpoint.stage]
      BY <2>2 DEF Checkpoint, MayCheckpoint
    <3>2. checkpoint.stage \in Stage \cup {"none"}
      BY DEF JobInv, JobTypeOK, NoCheckpoint
    <3>3. ASSUME checkpoint.stage # "none"
          PROVE  StageOrder[checkpoint.stage] < StageOrder[step]
      BY <3>1, <3>2, <3>3 DEF StageOrder, Stage
    <3> QED
      BY <3>1, <3>3 DEF CheckpointAdvances
  <2> QED
    BY <2>1, <2>2 DEF JobNext, IssueLease, RevokeLease, TimeIsOver
<1> QED
  BY <1>1, JobInvInit, JobInvStep, PTL DEF JobSpec

-----------------------------------------------------------------------------
(* WorkerLoop.                                                             *)

\* The place of a queue that is counted on past the last one.
LEMMA Around ==
  ASSUME NEW i \in Nat, i < 2 * Queues
  PROVE  i % Queues = IF i < Queues THEN i ELSE i - Queues
<1>1. Queues \in Nat /\ Queues > 0
  BY LoopConstants
<1>2. CASE i < Queues
  BY <1>1, <1>2
<1>3. CASE i >= Queues
  <2>1. i - Queues \in Nat /\ i - Queues < Queues
    BY <1>1, <1>3
  <2> QED
    BY <1>1, <1>3, <2>1
<1> QED
  BY <1>1, <1>2, <1>3

\* Going on to the next place, counting round or not.
LEMMA NextPlace ==
  ASSUME NEW i \in Nat, i + 1 < 2 * Queues
  PROVE  ((i % Queues) + 1) % Queues = (i + 1) % Queues
<1>1. Queues \in Nat /\ Queues > 0
  BY LoopConstants
<1>2. /\ i % Queues = IF i < Queues THEN i ELSE i - Queues
      /\ (i + 1) % Queues = IF i + 1 < Queues THEN i + 1 ELSE i + 1 - Queues
  BY <1>1, Around
<1>3. CASE i < Queues
  BY <1>2, <1>3
<1>4. CASE i >= Queues
  <2>1. i - Queues + 1 \in Nat /\ i - Queues + 1 < Queues
    BY <1>1, <1>4
  <2>2. (i - Queues + 1) % Queues = i - Queues + 1
    BY <1>1, <2>1, Around
  <2> QED
    BY <1>1, <1>2, <1>4, <2>2
<1> QED
  BY <1>1, <1>3, <1>4

\* The queues are numbered below Queues.
LEMMA QueueIs == \A q : q \in Queue <=> q \in Nat /\ q < Queues
  BY LoopConstants DEF Queue

\* How many polls from the cursor on it takes to come to q.
Ahead(q) == IF q >= cursor THEN q - cursor ELSE q + Queues - cursor

\* Each queue has waited only for those the cursor has passed since its own
\* poll, and until a call ends the counts lack only the resets of the queues
\* that have returned in it.
LoopInv ==
  /\ LoopTypeOK
  /\ polling => cursor = CursorAfter(Current)
  /\ \A q \in Queue : waited[q] + Ahead(q) < Queues
  /\ running => \A q \in Queue :
       streak[q] = IF polling /\ q \in Successful(offset) THEN 0 ELSE failures[q]

\* A new process has neither waited nor failed.
LEMMA LoopInvInit == LoopInit => LoopInv
<1> SUFFICES ASSUME LoopInit PROVE LoopInv
  OBVIOUS
<1>1. Queues \in Nat /\ Queues > 0 /\ Threshold \in Nat
  BY LoopConstants
<1>2. LoopTypeOK
  <2>1. 0 \in Queue /\ 0 \in 0..Threshold /\ 0 \in 0..Queues
    BY <1>1 DEF Queue
  <2> QED
    BY <2>1 DEF LoopInit, LoopTypeOK, Zero
<1>3. \A q \in Queue : waited[q] + Ahead(q) < Queues
  BY <1>1 DEF LoopInit, Ahead, Zero, Queue
<1> QED
  BY <1>2, <1>3 DEF LoopInit, LoopInv, Zero

\* The handler polled next is the one at the cursor: it has waited long
\* enough, and the others one poll longer.
LEMMA PollKeepsTurns ==
  ASSUME LoopInv, NEW from \in Queue, NEW n \in Queue, Poll(from, n), cursor = (from + n) % Queues
  PROVE  /\ cursor' \in Queue /\ start' \in Queue /\ offset' \in Queue /\ polling'
         /\ waited' \in [Queue -> 0..Queues]
         /\ cursor' = CursorAfter(Current')
         /\ \A q \in Queue : waited'[q] + Ahead(q)' < Queues
<1>1. /\ Queues \in Nat /\ Queues > 0 /\ cursor \in Nat /\ cursor < Queues
      /\ waited \in [Queue -> 0..Queues]
  BY LoopConstants, QueueIs DEF LoopInv, LoopTypeOK
<1>2. /\ start' = from /\ offset' = n /\ polling' /\ cursor' = (cursor + 1) % Queues
      /\ waited' = [q \in Queue |-> IF q = cursor THEN 0 ELSE Bounded(waited[q])]
  BY DEF Poll, CursorAfter
<1>3. cursor' = IF cursor + 1 < Queues THEN cursor + 1 ELSE 0
  BY <1>1, <1>2, Around
<1>4. ASSUME NEW q \in Queue
      PROVE  waited'[q] \in 0..Queues /\ waited'[q] + Ahead(q)' < Queues
  <2>1. /\ waited[q] \in Nat /\ waited[q] + Ahead(q) < Queues /\ q \in Nat /\ q < Queues
        /\ waited'[q] = IF q = cursor THEN 0 ELSE Bounded(waited[q])
    BY <1>1, <1>2, QueueIs DEF LoopInv
  <2>2. CASE q = cursor
    BY <1>1, <1>3, <2>1, <2>2 DEF Ahead
  <2>3. CASE q # cursor
    <3>1. Ahead(q)' = Ahead(q) - 1 /\ Ahead(q) \in Nat /\ Ahead(q) > 0
      BY <1>1, <1>3, <2>1, <2>3 DEF Ahead
    <3>2. waited'[q] = waited[q] + 1
      BY <2>1, <2>3, <3>1, <1>1 DEF Bounded
    <3> QED
      BY <1>1, <2>1, <3>1, <3>2
  <2> QED
    BY <2>2, <2>3
<1>5. cursor' \in Queue /\ waited' \in [Queue -> 0..Queues]
  BY <1>1, <1>2, <1>3, <1>4, QueueIs
<1> QED
  BY <1>2, <1>4, <1>5 DEF Current, CursorAfter

\* A new process has neither waited nor failed.
LEMMA StartKeeps == ASSUME LoopInv, Start PROVE LoopInv'
<1>1. Queues \in Nat /\ Queues > 0 /\ Threshold \in Nat
  BY LoopConstants
<1>2. LoopTypeOK'
  <2>1. 0 \in Queue /\ 0 \in 0..Threshold /\ 0 \in 0..Queues
    BY <1>1 DEF Queue
  <2> QED
    BY <2>1 DEF Start, LoopTypeOK, Zero
<1>3. \A q \in Queue : waited'[q] + Ahead(q)' < Queues
  BY <1>1 DEF Start, Ahead, Zero, Queue
<1> QED
  BY <1>2, <1>3 DEF Start, LoopInv, Zero

\* Every step keeps the invariant.
LEMMA LoopInvStep == LoopInv /\ [LoopNext]_loopVars => LoopInv'
<1> SUFFICES ASSUME LoopInv, [LoopNext]_loopVars PROVE LoopInv'
  OBVIOUS
<1>c. Queues \in Nat /\ Queues > 0 /\ Threshold \in Nat /\ Threshold > 0 /\ 0 \in Queue
  BY LoopConstants DEF Queue
<1>t. LoopTypeOK
  BY DEF LoopInv
<1>u. Current \in Queue
  BY <1>c, <1>t DEF LoopTypeOK, Current, Queue
\* The counts after a call whose first n handlers have returned.
<1>r. ASSUME NEW n \in Nat
      PROVE  /\ Reset(failures, n) \in [Queue -> 0..Threshold]
             /\ \A q \in Queue : Reset(failures, n)[q] =
                  IF q \in Successful(n) THEN 0 ELSE failures[q]
  BY <1>c, <1>t DEF LoopTypeOK, Reset
\* One count of a queue is changed.
<1>v. ASSUME NEW f \in [Queue -> 0..Threshold], NEW k \in 0..Threshold
      PROVE  [f EXCEPT ![Current] = k] \in [Queue -> 0..Threshold]
  BY <1>u
<1>z. 0 \in 0..Threshold
  BY <1>c
<1>s. Successful(offset + 1) = Successful(offset) \cup {Current}
  <2>1. offset \in Nat /\ 0 .. (offset + 1 - 1) = (0 .. (offset - 1)) \cup {offset}
    BY <1>t DEF LoopTypeOK, Queue
  <2> QED
    BY <2>1 DEF Successful, Current
<1>1. ASSUME BeginCall PROVE LoopInv'
  <2>1. /\ running /\ ~polling /\ Poll(cursor, 0) /\ UNCHANGED <<running, failures, streak>>
        /\ cursor \in 0..(Queues - 1)
    BY <1>1, <1>t DEF BeginCall, LoopTypeOK, Queue
  <2>2. cursor = (cursor + 0) % Queues
    BY <1>c, <2>1, Around
  <2>3. Successful(offset)' = {}
    BY <2>1 DEF Poll, Successful
  <2> QED
    BY <1>c, <1>t, <2>1, <2>2, <2>3, PollKeepsTurns DEF LoopInv, LoopTypeOK
<1>2. ASSUME Handled PROVE LoopInv'
  <2>1. /\ polling /\ polling' = FALSE /\ UNCHANGED <<running, cursor, start, offset, waited>>
        /\ failures' = Reset(failures, offset + 1) /\ streak' = [streak EXCEPT ![Current] = 0]
    BY <1>2 DEF Handled, Returned
  <2>2. offset + 1 \in Nat
    BY <1>t DEF LoopTypeOK, Queue
  <2>3. failures' \in [Queue -> 0..Threshold] /\ streak' \in [Queue -> 0..Threshold]
    BY <1>t, <1>v, <1>z, <1>r, <2>1, <2>2 DEF LoopTypeOK
  <2>4. LoopTypeOK'
    BY <1>t, <2>1, <2>3 DEF LoopTypeOK
  <2>5. ASSUME running, NEW q \in Queue PROVE streak'[q] = failures'[q]
    BY <1>t, <1>r, <1>s, <2>1, <2>2, <2>5 DEF LoopInv, LoopTypeOK
  <2> QED
    BY <2>1, <2>4, <2>5 DEF LoopInv, Ahead
<1>3. ASSUME NothingThere, offset + 1 < Queues PROVE LoopInv'
  <2>1. /\ polling /\ Poll(start, offset + 1) /\ UNCHANGED <<running, failures>>
        /\ streak' = [streak EXCEPT ![Current] = 0] /\ offset + 1 \in Queue /\ start \in Queue
    BY <1>3, <1>c, <1>t DEF NothingThere, Returned, LoopTypeOK, Queue
  <2>2. cursor = (start + (offset + 1)) % Queues
    <3>1. cursor = (((start + offset) % Queues) + 1) % Queues
      BY <2>1 DEF LoopInv, CursorAfter, Current
    <3>2. start + offset \in Nat /\ start + offset < 2 * Queues /\ start + offset + 1 < 2 * Queues
      BY <1>3, <1>c, <1>t DEF LoopTypeOK, Queue
    <3> DEFINE i == start + offset
    <3>3. ((i % Queues) + 1) % Queues = (i + 1) % Queues
      <4> HIDE DEF i
      <4> QED
        BY <3>2, NextPlace DEF i
    <3>4. start + (offset + 1) = i + 1
      BY <1>t DEF LoopTypeOK, Queue
    <3> QED
      BY <3>1, <3>3, <3>4
  <2>3. Successful(offset)' = Successful(offset) \cup {Current}
    BY <1>s, <2>1 DEF Poll, Successful
  <2>4. streak' \in [Queue -> 0..Threshold]
    BY <1>t, <1>v, <1>z, <2>1 DEF LoopTypeOK
  <2>5. ASSUME running, NEW q \in Queue
        PROVE  streak'[q] = IF q \in Successful(offset)' THEN 0 ELSE failures[q]
    BY <1>t, <2>1, <2>3, <2>5 DEF LoopInv, LoopTypeOK
  <2>6. /\ cursor' \in Queue /\ start' \in Queue /\ offset' \in Queue /\ polling'
        /\ waited' \in [Queue -> 0..Queues] /\ cursor' = CursorAfter(Current')
        /\ \A q \in Queue : waited'[q] + Ahead(q)' < Queues
    BY <2>1, <2>2, PollKeepsTurns
  <2> QED
    BY <1>t, <2>1, <2>4, <2>5, <2>6 DEF LoopInv, LoopTypeOK
<1>4. ASSUME NothingThere, ~(offset + 1 < Queues) PROVE LoopInv'
  <2>1. /\ polling /\ polling' = FALSE /\ UNCHANGED <<running, cursor, start, offset, waited>>
        /\ failures' = Reset(failures, offset + 1) /\ streak' = [streak EXCEPT ![Current] = 0]
    BY <1>4 DEF NothingThere, Returned
  <2>2. Handled
    BY <2>1 DEF Handled, Returned
  <2> QED
    BY <1>2, <2>2
<1>5. ASSUME Raises PROVE LoopInv'
  <2> DEFINE before == Reset(failures, offset)
  <2>1. /\ polling /\ polling' = FALSE /\ UNCHANGED <<running, cursor, start, offset, waited>>
        /\ failures' = [before EXCEPT ![Current] = Capped(before[Current] + 1)]
        /\ streak' = [streak EXCEPT ![Current] = Capped(streak[Current] + 1)]
    BY <1>5 DEF Raises
  <2>2. /\ before \in [Queue -> 0..Threshold]
        /\ \A q \in Queue : before[q] = IF q \in Successful(offset) THEN 0 ELSE failures[q]
    BY <1>t, <1>r DEF LoopTypeOK, Queue
  <2> HIDE DEF before
  <2>3. \A k \in 0..Threshold : Capped(k + 1) \in 0..Threshold
    BY <1>c DEF Capped
  <2>4. /\ failures' \in [Queue -> 0..Threshold] /\ streak' \in [Queue -> 0..Threshold]
    <3>1. before[Current] \in 0..Threshold /\ streak[Current] \in 0..Threshold
      BY <1>t, <1>u, <2>2 DEF LoopTypeOK
    <3> QED
      BY <1>t, <1>v, <2>1, <2>2, <2>3, <3>1 DEF LoopTypeOK
  <2>5. LoopTypeOK'
    BY <1>t, <2>1, <2>4 DEF LoopTypeOK
  <2>6. running => \A q \in Queue : streak[q] = before[q]
    BY <2>1, <2>2 DEF LoopInv
  <2>7. ASSUME running, NEW q \in Queue PROVE streak'[q] = failures'[q]
    BY <1>t, <1>u, <2>1, <2>2, <2>6, <2>7 DEF LoopTypeOK
  <2> QED
    BY <2>1, <2>5, <2>7 DEF LoopInv, Ahead
<1>6. ASSUME Start PROVE LoopInv'
  BY <1>6, StartKeeps
<1>7. ASSUME Stop PROVE LoopInv'
  BY <1>7 DEF Stop, LoopInv, LoopTypeOK, Ahead
<1>8. CASE UNCHANGED loopVars
  BY <1>8 DEF loopVars, LoopInv, LoopTypeOK, Ahead, Current, Successful
<1> QED
  BY <1>1, <1>2, <1>3, <1>4, <1>5, <1>6, <1>7, <1>8 DEF LoopNext, LoopStep

\* Whichever queues always have work or always raise, no queue waits for more
\* polls than there are other queues, and between calls each queue's count of
\* failures is what it has raised in a row, for any number of queues.
THEOREM SchedulerIsFair == LoopSpec => []LoopIsFair
<1>1. LoopInv => LoopIsFair
  <2> SUFFICES ASSUME LoopInv PROVE LoopIsFair
    OBVIOUS
  <2>1. EveryQueueInTurn
    <3> SUFFICES ASSUME NEW q \in Queue PROVE waited[q] < Queues
      BY DEF EveryQueueInTurn
    <3>1. waited[q] + Ahead(q) < Queues /\ waited[q] \in Nat /\ Ahead(q) \in Nat
      BY LoopConstants DEF LoopInv, LoopTypeOK, Ahead, Queue
    <3> QED
      BY <3>1, LoopConstants
  <2>2. FailuresAreTrue
    BY DEF LoopInv, LoopTypeOK, FailuresAreTrue
  <2> QED
    BY <2>1, <2>2 DEF LoopIsFair
<1> QED
  BY <1>1, LoopInvInit, LoopInvStep, PTL DEF LoopSpec

-----------------------------------------------------------------------------
(* AiRuns.                                                                 *)

\* A set of numbers has a least one.
LEMMA LeastNumber == ASSUME NEW T \in SUBSET Nat, T # {} PROVE \E x \in T : \A y \in T : x <= y
<1> DEFINE R == OpToRel(<, Nat)
<1>1. IsWellFoundedOn(R, Nat)
  BY NatLessThanWellFounded
<1>2. \A a, b \in Nat : a < b => <<a, b>> \in R
  BY DEF OpToRel
<1> HIDE DEF R
<1>3. \E x \in T : \A y \in T : ~(<<y, x>> \in R)
  BY <1>1, WFMin
<1>4. PICK x \in T : \A y \in T : ~(<<y, x>> \in R)
  BY <1>3
<1>5. \A y \in T : ~(y < x)
  BY <1>2, <1>4
<1> QED
  BY <1>5

RunRow ==
  [status : {"none", "queued", "running"} \cup Ends, created : 0..MaxMonth,
   period : 0..MaxMonth, order : Nat, cancel : BOOLEAN,
   draft : {"none", "pending", "accepted", "rejected"}, consumed : Nat]
UsageRow == [reserved : Nat, consumed : Nat, over : Nat]
ExecutorRow ==
  [at : {"load", "try", "call", "save", "fail", "cancel"}, run : AiRun,
   candidate : 1..Candidates, try : 1..Tries]

\* A run with a draft has succeeded, and was not cancelled; one that has not
\* ended knows the month it was created in.
RunIsSound(row) ==
  /\ row \in RunRow
  /\ row.draft # "none" => row.status = "succeeded"
  /\ row.cancel => row.status # "succeeded" /\ row.draft = "none"
  /\ row.status \in {"queued", "running"} => row.created \in 1..MaxMonth
UsageIsSound(row) == row \in UsageRow /\ row.reserved + row.consumed <= Budget + row.over

\* Each worker is at a run of its own, which runs.
AiInv ==
  /\ AiTypeOK
  /\ \A r \in AiRun : RunIsSound(aiRun[r])
  /\ \A m \in 1..MaxMonth : UsageIsSound(usage[m])
  /\ \A w \in AiWorker : executor[w] # Resting => aiRun[executor[w].run].status = "running"
  /\ \A v, w \in AiWorker :
       executor[v] # Resting /\ executor[w] # Resting /\ executor[v].run = executor[w].run => v = w

\* Nothing was asked for yet.
LEMMA AiInvInit == AiInit => AiInv
<1> SUFFICES ASSUME AiInit PROVE AiInv
  OBVIOUS
<1>1. NoAiRun \in RunRow /\ RunIsSound(NoAiRun)
  BY AiConstants DEF NoAiRun, RunRow, RunIsSound
<1>2. UsageIsSound([reserved |-> 0, consumed |-> 0, over |-> 0])
  BY AiConstants DEF UsageIsSound, UsageRow
<1>3. AiTypeOK
  BY <1>1, <1>2, AiConstants DEF AiInit, AiTypeOK, RunRow, UsageIsSound, UsageRow
<1> QED
  BY <1>1, <1>2, <1>3 DEF AiInit, AiInv

\* What leaves one side of a sum for the other.
LEMMA Moved ==
  ASSUME NEW r \in Nat, NEW c \in Nat, NEW o \in Nat, NEW b \in Nat, NEW e \in Nat,
         NEW a \in Nat, NEW x \in Nat, r >= e, a <= e + x, r + c <= b + o
  PROVE  /\ r - e \in Nat /\ c + a \in Nat /\ o + x \in Nat
         /\ (r - e) + (c + a) <= b + (o + x)
  OBVIOUS

\* A run is taken back from the month it was created in, at what it cost.
LEMMA ReleaseKeepsBudget ==
  ASSUME AiInv, NEW r \in AiRun, aiRun[r].created \in 1..MaxMonth, Releasable(r),
         NEW actual \in Nat, Release(r, actual)
  PROVE  /\ usage' \in [1..MaxMonth -> UsageRow]
         /\ \A m \in 1..MaxMonth : UsageIsSound(usage'[m])
<1> DEFINE m == aiRun[r].created
           extra == IF actual > Estimate[r] THEN actual - Estimate[r] ELSE 0
           row == [reserved |-> usage[m].reserved - Estimate[r],
                   consumed |-> usage[m].consumed + actual, over |-> usage[m].over + extra]
<1>1. usage' = [usage EXCEPT ![m] = row]
  BY DEF Release
<1>2. /\ Estimate[r] \in Nat /\ usage[m] \in UsageRow /\ usage \in [1..MaxMonth -> UsageRow]
      /\ usage[m].reserved + usage[m].consumed <= Budget + usage[m].over
      /\ usage[m].reserved >= Estimate[r] /\ Budget \in Nat
  BY AiConstants DEF AiInv, UsageIsSound, Releasable, AiTypeOK, UsageRow
<1>3. /\ usage[m].reserved \in Nat /\ usage[m].consumed \in Nat /\ usage[m].over \in Nat
  BY <1>2 DEF UsageRow
<1>4. extra \in Nat /\ actual <= Estimate[r] + extra
  BY <1>2
<1> HIDE DEF extra, m
<1>5. row \in UsageRow /\ row.reserved + row.consumed <= Budget + row.over
  <2> DEFINE a == usage[m].reserved - Estimate[r]
             b == usage[m].consumed + actual
             c == usage[m].over + extra
  <2>1. a \in Nat /\ b \in Nat /\ c \in Nat /\ a + b <= Budget + c
    BY <1>2, <1>3, <1>4, Moved
  <2>2. row = [reserved |-> a, consumed |-> b, over |-> c]
    OBVIOUS
  <2> HIDE DEF a, b, c, row
  <2> QED
    BY <2>1, <2>2 DEF UsageRow
<1>6. UsageIsSound(row)
  BY <1>5 DEF UsageIsSound
<1> HIDE DEF row
<1> QED
  BY <1>1, <1>2, <1>5, <1>6 DEF AiInv, m

\* A worker that stays at its run.
LEMMA ProceedsKeeps ==
  ASSUME AiInv, NEW w \in AiWorker, executor[w] # Resting, NEW e \in ExecutorRow,
         e.run = executor[w].run, Does(w, e), UNCHANGED <<month, asking, aiRun, usage, aiCrashes>>
  PROVE  AiInv'
<1>1. AiTypeOK'
  BY DEF AiInv, AiTypeOK, Does, ExecutorRow
<1>2. executor \in [AiWorker -> {Resting} \cup ExecutorRow]
  BY DEF AiInv, AiTypeOK, ExecutorRow
<1>3. \A v \in AiWorker : executor'[v] = IF v = w THEN e ELSE executor[v]
  BY <1>2 DEF Does
<1> QED
  BY <1>1, <1>3 DEF AiInv, RunIsSound, UsageIsSound

\* A worker that is done with its run, or dies.
LEMMA RestsKeeps ==
  ASSUME AiInv, NEW w \in AiWorker, executor[w] # Resting, Does(w, Resting),
         UNCHANGED <<month, asking>>,
         aiCrashes' \in 0..MaxAiCrashes,
         aiRun' \in [AiRun -> RunRow], \A r \in AiRun : RunIsSound(aiRun'[r]),
         usage' \in [1..MaxMonth -> UsageRow], \A m \in 1..MaxMonth : UsageIsSound(usage'[m]),
         \A r \in AiRun : aiRun'[r].status = aiRun[r].status \/ r = executor[w].run
  PROVE  AiInv'
<1>1. AiTypeOK'
  BY DEF AiInv, AiTypeOK, Does, ExecutorRow, RunRow, UsageRow
<1>2. executor \in [AiWorker -> {Resting} \cup ExecutorRow]
  BY DEF AiInv, AiTypeOK, ExecutorRow
<1>3. \A v \in AiWorker : executor'[v] = IF v = w THEN Resting ELSE executor[v]
  BY <1>2 DEF Does
<1>4. ASSUME NEW v \in AiWorker, executor'[v] # Resting
      PROVE  aiRun'[executor'[v].run].status = "running"
  <2>1. v # w /\ executor'[v] = executor[v] /\ executor[v] \in ExecutorRow
    BY <1>2, <1>3, <1>4
  <2>2. executor[w] # Resting => executor[v].run # executor[w].run
    BY <1>4, <2>1 DEF AiInv
  <2>3. executor[v].run \in AiRun
    BY <2>1 DEF ExecutorRow
  <2> QED
    BY <1>4, <2>1, <2>2, <2>3 DEF AiInv
<1>5. \A u, v \in AiWorker :
        executor'[u] # Resting /\ executor'[v] # Resting /\ executor'[u].run = executor'[v].run => u = v
  BY <1>3 DEF AiInv
<1> QED
  BY <1>1, <1>4, <1>5 DEF AiInv, RunIsSound, UsageIsSound

\* An end of a run, by the worker at it.
LEMMA TerminalKeeps ==
  ASSUME AiInv, NEW w \in AiWorker, executor[w] # Resting, NEW status \in Ends,
         NEW draft \in {"none", "pending"}, NEW actual \in Nat,
         status = "succeeded" \/ draft = "none",
         status = "succeeded" => ~aiRun[executor[w].run].cancel,
         Terminal(executor[w].run, status, draft, actual), Does(w, Resting),
         UNCHANGED <<month, asking, aiCrashes>>
  PROVE  AiInv'
<1> DEFINE r == executor[w].run
           row == [aiRun[r] EXCEPT !.status = status, !.draft = draft, !.consumed = actual]
<1>1. r \in AiRun /\ aiRun \in [AiRun -> RunRow] /\ aiRun[r].status = "running"
  BY DEF AiInv, AiTypeOK, ExecutorRow, RunRow
<1>2. usage \in [1..MaxMonth -> UsageRow] /\ aiCrashes' \in 0..MaxAiCrashes
  BY DEF AiInv, AiTypeOK, UsageRow
<1>3. CASE Releasable(r)
  <2>1. Release(r, actual) /\ aiRun' = [aiRun EXCEPT ![r] = row]
    BY <1>1, <1>3 DEF Terminal
  <2>2. RunIsSound(aiRun[r]) /\ aiRun[r].created \in 1..MaxMonth
    BY <1>1 DEF AiInv, RunIsSound
  <2>3. RunIsSound(row) /\ row \in RunRow
    BY <1>1, <2>2 DEF RunIsSound, RunRow, Ends
  <2>4. /\ usage' \in [1..MaxMonth -> UsageRow]
        /\ \A m \in 1..MaxMonth : UsageIsSound(usage'[m])
    BY <1>1, <1>3, <2>1, <2>2, ReleaseKeepsBudget
  <2> HIDE DEF row
  <2>5. /\ aiRun' \in [AiRun -> RunRow] /\ \A x \in AiRun : RunIsSound(aiRun'[x])
        /\ \A x \in AiRun : aiRun'[x].status = aiRun[x].status \/ x = r
    BY <1>1, <2>1, <2>3 DEF AiInv
  <2> QED
    BY <1>2, <2>4, <2>5, RestsKeeps
<1>4. CASE ~Releasable(r)
  <2>1. UNCHANGED <<aiRun, usage>>
    BY <1>4 DEF Terminal
  <2> QED
    BY <1>1, <1>2, <2>1, RestsKeeps DEF AiInv
<1> QED
  BY <1>3, <1>4

\* The oldest of the queued runs exists.
LEMMA OldestExists ==
  ASSUME AiTypeOK, In({"queued"}) # {}
  PROVE  \E x \in In({"queued"}) : \A y \in In({"queued"}) : aiRun[x].order <= aiRun[y].order
<1> DEFINE Q == In({"queued"})
           T == {aiRun[x].order : x \in Q}
<1>1. Q \subseteq AiRun /\ \A x \in Q : aiRun[x].order \in Nat
  BY DEF In, AiTypeOK
<1>2. T \in SUBSET Nat /\ T # {}
  BY <1>1
<1>3. \E n \in T : \A k \in T : n <= k
  <2> HIDE DEF T
  <2> QED
    BY <1>2, LeastNumber
<1> QED
  BY <1>3

LEMMA RunsAreFinite == IsFiniteSet(AiRun)
<1>1. PICK n \in Nat : ExistsSurjection(1..n, AiRequest)
  BY AiConstants, FS_NatSurjection
<1>2. PICK f \in [1..n -> AiRequest] : \A q \in AiRequest : \E i \in 1..n : f[i] = q
  BY <1>1 DEF ExistsSurjection, Surjection
<1> DEFINE g == [i \in 1..n |-> RunAsked[f[i]]]
<1>3. g \in [1..n -> AiRun] /\ \A r \in AiRun : \E i \in 1..n : g[i] = r
  BY <1>2 DEF AiRun
<1> HIDE DEF g
<1>4. ExistsSurjection(1..n, AiRun)
  BY <1>3 DEF ExistsSurjection, Surjection
<1> QED
  BY <1>4, FS_NatSurjection

\* A request that comes to the end of its locks.
LEMMA CommitKeeps == ASSUME AiInv, NEW q \in AiRequest, CommitCreate(q) PROVE AiInv'
<1> DEFINE r == RunAsked[q]
           m == asking[q]
           new == [NoAiRun EXCEPT !.status = "queued", !.created = month, !.period = m,
                                  !.order = Cardinality(AiRun \ In({"none"})) + 1]
           row == [usage[m] EXCEPT !.reserved = @ + Estimate[r]]
<1>1. /\ r \in AiRun /\ m \in 1..MaxMonth /\ month \in 1..MaxMonth /\ Estimate[r] \in Nat
      /\ aiRun \in [AiRun -> RunRow] /\ usage \in [1..MaxMonth -> UsageRow]
      /\ asking' \in [AiRequest -> 0..MaxMonth]
  <2>1. r \in AiRun
    BY DEF AiRun
  <2>2. /\ m \in 0..MaxMonth /\ m # 0 /\ month \in 1..MaxMonth /\ Estimate[r] \in Nat
        /\ aiRun \in [AiRun -> RunRow] /\ usage \in [1..MaxMonth -> UsageRow]
    BY <2>1, AiConstants DEF AiInv, AiTypeOK, CommitCreate, RunRow, UsageRow
  <2>3. asking' \in [AiRequest -> 0..MaxMonth]
    BY AiConstants DEF AiInv, AiTypeOK, CommitCreate
  <2> QED
    BY <2>1, <2>2, <2>3, AiConstants
<1>2. /\ asking' = [asking EXCEPT ![q] = 0] /\ UNCHANGED <<month, executor, aiCrashes>>
  BY DEF CommitCreate
<1>3. CASE UNCHANGED <<aiRun, usage>>
  BY <1>1, <1>2, <1>3 DEF AiInv, AiTypeOK, RunIsSound, UsageIsSound
<1>4. CASE ~(UNCHANGED <<aiRun, usage>>)
  <2>1. /\ aiRun' = [aiRun EXCEPT ![r] = new] /\ usage' = [usage EXCEPT ![m] = row]
        /\ aiRun[r].status = "none" /\ usage[m].reserved + usage[m].consumed + Estimate[r] <= Budget
    BY <1>4 DEF CommitCreate, Known, InBudget
  <2>3. Cardinality(AiRun \ In({"none"})) + 1 \in Nat
    BY RunsAreFinite, FS_Subset, FS_CardinalityType DEF In
  <2>4. new \in RunRow /\ RunIsSound(new)
    <3> DEFINE New(c, p, o) ==
          [NoAiRun EXCEPT !.status = "queued", !.created = c, !.period = p, !.order = o]
    <3>1. NoAiRun \in RunRow
      BY AiConstants DEF NoAiRun, RunRow
    <3>2. \A c, p \in 0..MaxMonth, o \in Nat :
            /\ New(c, p, o) \in RunRow
            /\ New(c, p, o).status = "queued" /\ New(c, p, o).created = c
            /\ New(c, p, o).cancel = FALSE /\ New(c, p, o).draft = "none"
      <4>1. NoAiRun.cancel = FALSE /\ NoAiRun.draft = "none"
        BY DEF NoAiRun
      <4> QED
        BY <3>1, <4>1 DEF RunRow
    <3>3. month \in 0..MaxMonth /\ m \in 0..MaxMonth
      BY <1>1, AiConstants
    <3>4. new = New(month, m, Cardinality(AiRun \ In({"none"})) + 1)
      OBVIOUS
    <3> HIDE DEF New, new, m
    <3> QED
      BY <1>1, <2>3, <3>2, <3>3, <3>4 DEF RunIsSound
  <2>5. row \in UsageRow /\ row.reserved + row.consumed <= Budget + row.over
    <3> DEFINE a == usage[m].reserved
               b == usage[m].consumed
               c == usage[m].over
               x == Estimate[r]
    <3>1. a \in Nat /\ b \in Nat /\ c \in Nat /\ x \in Nat /\ usage[m] \in UsageRow
      BY <1>1 DEF UsageRow
    <3>2. row = [reserved |-> a + x, consumed |-> b, over |-> c]
      <4>1. \A u \in UsageRow : [u EXCEPT !.reserved = @ + x] =
              [reserved |-> u.reserved + x, consumed |-> u.consumed, over |-> u.over]
        BY DEF UsageRow
      <4> QED
        BY <3>1, <4>1
    <3>3. a + b + x <= Budget /\ Budget \in Nat
      BY <2>1, AiConstants
    <3> HIDE DEF a, b, c, x, row
    <3>4. a + x \in Nat /\ (a + x) + b <= Budget + c
      BY <3>1, <3>3
    <3> QED
      BY <3>1, <3>2, <3>4 DEF UsageRow
  <2>6. UsageIsSound(row)
    BY <2>5 DEF UsageIsSound
  <2>7. new.status = "queued"
    BY DEF NoAiRun
  <2> HIDE DEF row, new
  <2>8. AiTypeOK'
    BY <1>1, <1>2, <2>1, <2>4, <2>5 DEF AiInv, AiTypeOK, RunRow, UsageRow
  <2>9. /\ \A x \in AiRun : RunIsSound(aiRun'[x])
        /\ \A k \in 1..MaxMonth : UsageIsSound(usage'[k])
    BY <1>1, <2>1, <2>4, <2>6 DEF AiInv
  <2>10. ASSUME NEW w \in AiWorker, executor'[w] # Resting
         PROVE  aiRun'[executor'[w].run].status = "running"
    <3>1. executor[w] \in ExecutorRow /\ aiRun[executor[w].run].status = "running"
      BY <1>2, <2>10 DEF AiInv, AiTypeOK, ExecutorRow
    <3>2. executor[w].run # r /\ executor[w].run \in AiRun
      BY <2>1, <3>1 DEF ExecutorRow
    <3> QED
      BY <1>1, <1>2, <2>1, <3>1, <3>2
  <2> QED
    BY <1>2, <2>8, <2>9, <2>10 DEF AiInv
<1> QED
  BY <1>3, <1>4

\* What the user does to a run that no worker ends.
LEMMA CancelKeeps == ASSUME AiInv, NEW r \in AiRun, CancelRun(r) PROVE AiInv'
<1>1. /\ aiRun \in [AiRun -> RunRow] /\ RunIsSound(aiRun[r]) /\ UNCHANGED <<month, asking, executor, aiCrashes>>
      /\ usage \in [1..MaxMonth -> UsageRow] /\ aiRun[r].status \in {"queued", "running"}
  BY DEF AiInv, AiTypeOK, RunRow, UsageRow, CancelRun
<1>2. ASSUME NEW row, aiRun' = [aiRun EXCEPT ![r] = row], RunIsSound(row),
             row.status = aiRun[r].status \/ aiRun[r].status = "queued",
             usage' \in [1..MaxMonth -> UsageRow], \A m \in 1..MaxMonth : UsageIsSound(usage'[m])
      PROVE  AiInv'
  <2>1. AiTypeOK'
    BY <1>1, <1>2 DEF AiInv, AiTypeOK, RunRow, UsageRow, RunIsSound
  <2>2. \A x \in AiRun : RunIsSound(aiRun'[x])
    BY <1>1, <1>2 DEF AiInv
  <2>3. ASSUME NEW w \in AiWorker, executor'[w] # Resting
        PROVE  aiRun'[executor'[w].run].status = "running"
    <3>1. executor[w] \in ExecutorRow /\ aiRun[executor[w].run].status = "running"
      BY <1>1, <2>3 DEF AiInv, AiTypeOK, ExecutorRow
    <3>2. executor[w].run \in AiRun
      BY <3>1 DEF ExecutorRow
    <3> QED
      BY <1>1, <1>2, <3>1, <3>2
  <2> QED
    BY <1>1, <1>2, <2>1, <2>2, <2>3 DEF AiInv
<1>3. CASE aiRun[r].status = "queued"
  <2> DEFINE row == [aiRun[r] EXCEPT !.cancel = TRUE, !.status = "cancelled"]
  <2>1. /\ Releasable(r) /\ Release(r, 0) /\ aiRun' = [aiRun EXCEPT ![r] = row]
    BY <1>1, <1>3 DEF CancelRun
  <2>2. RunIsSound(row)
    BY <1>1, <1>3 DEF RunIsSound, RunRow, Ends
  <2>3. /\ usage' \in [1..MaxMonth -> UsageRow]
        /\ \A m \in 1..MaxMonth : UsageIsSound(usage'[m])
    BY <1>1, <2>1, ReleaseKeepsBudget DEF RunIsSound
  <2> HIDE DEF row
  <2> QED
    BY <1>2, <1>3, <2>1, <2>2, <2>3
<1>4. CASE aiRun[r].status = "running"
  <2> DEFINE row == [aiRun[r] EXCEPT !.cancel = TRUE]
  <2>1. aiRun' = [aiRun EXCEPT ![r] = row] /\ UNCHANGED usage
    BY <1>1, <1>4 DEF CancelRun
  <2>2. RunIsSound(row) /\ row.status = aiRun[r].status
    BY <1>1, <1>4 DEF RunIsSound, RunRow
  <2> HIDE DEF row
  <2> QED
    BY <1>1, <1>2, <2>1, <2>2 DEF AiInv
<1> QED
  BY <1>1, <1>3, <1>4

LEMMA DecideKeeps ==
  ASSUME AiInv, NEW r \in AiRun, NEW d \in {"accepted", "rejected"}, DecideDraft(r, d) PROVE AiInv'
<1> DEFINE row == [aiRun[r] EXCEPT !.draft = d]
<1>1. /\ aiRun \in [AiRun -> RunRow] /\ aiRun' = [aiRun EXCEPT ![r] = row]
      /\ UNCHANGED <<month, asking, usage, executor, aiCrashes>>
      /\ RunIsSound(aiRun[r]) /\ aiRun[r].draft = "pending"
  BY DEF AiInv, AiTypeOK, RunRow, DecideDraft
<1>2. RunIsSound(row) /\ row \in RunRow /\ row.status = aiRun[r].status
  BY <1>1 DEF RunIsSound, RunRow
<1> HIDE DEF row
<1>3. AiTypeOK'
  BY <1>1, <1>2 DEF AiInv, AiTypeOK, RunRow
<1>4. \A x \in AiRun : RunIsSound(aiRun'[x]) /\ aiRun'[x].status = aiRun[x].status
  BY <1>1, <1>2 DEF AiInv
<1>5. \A w \in AiWorker : executor[w] # Resting => executor[w].run \in AiRun
  BY DEF AiInv, AiTypeOK, ExecutorRow
<1> QED
  BY <1>1, <1>3, <1>4, <1>5 DEF AiInv, UsageIsSound

\* A worker takes the oldest run that waits.
LEMMA ClaimKeeps == ASSUME AiInv, NEW w \in AiWorker, ClaimRun(w) PROVE AiInv'
<1> DEFINE r == CHOOSE x \in In({"queued"}) :
                  \A y \in In({"queued"}) : aiRun[x].order <= aiRun[y].order
           row == [aiRun[r] EXCEPT !.status = "running"]
           e == [at |-> "load", run |-> r, candidate |-> 1, try |-> 1]
<1>1. /\ executor[w] = Resting /\ In({"queued"}) # {}
      /\ aiRun' = [aiRun EXCEPT ![r].status = "running"]
      /\ Does(w, e) /\ UNCHANGED <<month, asking, usage, aiCrashes>>
  BY DEF ClaimRun
<1>2. r \in In({"queued"})
  <2>1. \E x \in In({"queued"}) : \A y \in In({"queued"}) : aiRun[x].order <= aiRun[y].order
    BY <1>1, OldestExists DEF AiInv
  <2> QED
    BY <2>1
<1> HIDE DEF r
<1>3. /\ r \in AiRun /\ aiRun[r].status = "queued" /\ aiRun \in [AiRun -> RunRow]
      /\ executor \in [AiWorker -> {Resting} \cup ExecutorRow]
  BY <1>2 DEF In, AiInv, AiTypeOK, RunRow, ExecutorRow
<1>4. RunIsSound(row) /\ row \in RunRow /\ row.status = "running"
  BY <1>3 DEF AiInv, RunIsSound, RunRow
<1>5. aiRun' = [aiRun EXCEPT ![r] = row]
  BY <1>1, <1>3
<1>6. e \in ExecutorRow /\ e.run = r
  BY <1>3, AiConstants DEF ExecutorRow
<1>7. executor' = [executor EXCEPT ![w] = e]
  BY <1>1 DEF Does
<1> HIDE DEF row, e
<1>8. AiTypeOK'
  <2>1. aiRun' \in [AiRun -> RunRow]
    BY <1>3, <1>4, <1>5
  <2>2. executor' \in [AiWorker -> {Resting} \cup ExecutorRow]
    BY <1>3, <1>6, <1>7
  <2> QED
    BY <1>1, <2>1, <2>2 DEF AiInv, AiTypeOK, RunRow, ExecutorRow
<1>9. \A x \in AiRun : RunIsSound(aiRun'[x])
  BY <1>3, <1>4, <1>5 DEF AiInv
<1>10. \A v \in AiWorker : executor'[v] = IF v = w THEN e ELSE executor[v]
  BY <1>3, <1>7
<1>11. \A v \in AiWorker : executor[v] # Resting =>
         executor[v].run \in AiRun /\ executor[v].run # r /\ aiRun[executor[v].run].status = "running"
  BY <1>3 DEF AiInv, ExecutorRow
<1>12. \A v \in AiWorker : executor'[v] # Resting => aiRun'[executor'[v].run].status = "running"
  BY <1>3, <1>4, <1>5, <1>6, <1>10, <1>11
<1>13. \A u, v \in AiWorker :
         executor'[u] # Resting /\ executor'[v] # Resting /\ executor'[u].run = executor'[v].run => u = v
  BY <1>6, <1>10, <1>11 DEF AiInv
<1> QED
  BY <1>1, <1>8, <1>9, <1>12, <1>13 DEF AiInv, UsageIsSound

LEMMA NextCandidateIsARow ==
  ASSUME NEW e \in ExecutorRow
  PROVE  /\ NextCandidate(e) \in ExecutorRow /\ NextCandidate(e).run = e.run
         /\ Retry(e) \in ExecutorRow /\ Retry(e).run = e.run
         /\ \A place \in {"load", "try", "call", "save", "fail", "cancel"} :
              [e EXCEPT !.at = place] \in ExecutorRow /\ [e EXCEPT !.at = place].run = e.run
<1>1. \A place \in {"load", "try", "call", "save", "fail", "cancel"} :
        [e EXCEPT !.at = place] \in ExecutorRow /\ [e EXCEPT !.at = place].run = e.run
  BY DEF ExecutorRow
<1>4. e.candidate \in 1..Candidates /\ e.try \in 1..Tries /\ 1 \in 1..Tries
  BY AiConstants DEF ExecutorRow
<1>5. NextCandidate(e) \in ExecutorRow /\ NextCandidate(e).run = e.run
  <2>1. e.candidate < Candidates => e.candidate + 1 \in 1..Candidates
    BY <1>4, AiConstants
  <2>2. CASE e.candidate < Candidates
    <3>1. NextCandidate(e) = [e EXCEPT !.at = "load", !.candidate = e.candidate + 1, !.try = 1]
      BY <2>2 DEF NextCandidate
    <3> DEFINE k == e.candidate + 1
    <3>2. k \in 1..Candidates /\ NextCandidate(e) = [e EXCEPT !.at = "load", !.candidate = k, !.try = 1]
      BY <2>1, <2>2, <3>1
    <3> HIDE DEF k
    <3> QED
      BY <1>4, <3>2 DEF ExecutorRow
  <2>3. CASE ~(e.candidate < Candidates)
    BY <1>1, <2>3 DEF NextCandidate
  <2> QED
    BY <2>2, <2>3
<1>6. Retry(e) \in ExecutorRow /\ Retry(e).run = e.run
  <2>1. e.try < Tries => e.try + 1 \in 1..Tries
    BY <1>4, AiConstants
  <2>2. CASE e.try < Tries
    <3>1. Retry(e) = [e EXCEPT !.at = "try", !.try = e.try + 1]
      BY <2>2 DEF Retry
    <3> DEFINE n == e.try + 1
    <3>2. n \in 1..Tries /\ Retry(e) = [e EXCEPT !.at = "try", !.try = n]
      BY <2>1, <2>2, <3>1
    <3> HIDE DEF n
    <3> QED
      BY <1>4, <3>2 DEF ExecutorRow
  <2>3. CASE ~(e.try < Tries)
    BY <1>5, <2>3 DEF Retry
  <2> QED
    BY <2>2, <2>3
<1> QED
  BY <1>1, <1>5, <1>6

\* What a worker does next.
LEMMA ExecuteKeeps == ASSUME AiInv, NEW w \in AiWorker, Execute(w) PROVE AiInv'
<1> DEFINE e == executor[w]
<1>1. CASE ClaimRun(w)
  BY <1>1, ClaimKeeps
<1>2. ASSUME e # Resting PROVE e \in ExecutorRow /\ e.run \in AiRun /\ Estimate[e.run] \in Nat
  BY <1>2, AiConstants DEF AiInv, AiTypeOK, ExecutorRow
<1>3. CASE LoadAttempt(w)
  <2>1. e # Resting /\ UNCHANGED <<month, asking, aiRun, usage, aiCrashes>>
    BY <1>3 DEF LoadAttempt, Resting
  <2>2. \E f \in {NextCandidate(e)} \cup
                 {[e EXCEPT !.at = place] : place \in {"cancel", "try", "fail"}} : Does(w, f)
    BY <1>3 DEF LoadAttempt
  <2> QED
    BY <1>2, <2>1, <2>2, NextCandidateIsARow, ProceedsKeeps
<1>4. CASE RecordAttempt(w)
  <2>1. e # Resting /\ UNCHANGED <<month, asking, aiRun, usage, aiCrashes>>
    BY <1>4 DEF RecordAttempt, Resting
  <2>2. \E f \in {[e EXCEPT !.at = place] : place \in {"cancel", "call"}} : Does(w, f)
    BY <1>4 DEF RecordAttempt
  <2> QED
    BY <1>2, <2>1, <2>2, NextCandidateIsARow, ProceedsKeeps
<1>5. CASE Generate(w)
  <2>1. e # Resting /\ UNCHANGED <<month, asking, aiRun, usage, aiCrashes>>
    BY <1>5 DEF Generate, Resting
  <2>2. \E f \in {Retry(e)} \cup
                 {[e EXCEPT !.at = place] : place \in {"save", "fail", "cancel"}} : Does(w, f)
    BY <1>5 DEF Generate
  <2> QED
    BY <1>2, <2>1, <2>2, NextCandidateIsARow, ProceedsKeeps
<1>6. ASSUME e.at = "save", NEW valid \in BOOLEAN, NEW actual \in Actuals(e.run),
             FinishSucceeded(w, valid, actual)
      PROVE  AiInv'
  <2>1. e # Resting
    BY <1>6 DEF Resting
  <2>2. actual \in Nat /\ aiRun[e.run].cancel \in BOOLEAN
    BY <1>2, <1>6, <2>1 DEF Actuals, AiInv, AiTypeOK
  <2>3. Does(w, Resting) /\ UNCHANGED <<month, asking, aiCrashes>>
    BY <1>6 DEF FinishSucceeded
  <2>4. \/ Terminal(e.run, "cancelled", "none", 0)
        \/ Terminal(e.run, "failed", "none", actual)
        \/ ~aiRun[e.run].cancel /\ Terminal(e.run, "succeeded", "pending", actual)
    BY <1>6, <2>2 DEF FinishSucceeded
  <2> QED
    BY <2>1, <2>2, <2>3, <2>4, TerminalKeeps DEF Ends
<1>7. CASE FinishOtherwise(w)
  <2>1. e # Resting
    BY <1>7 DEF FinishOtherwise, Resting
  <2>2. Does(w, Resting) /\ UNCHANGED <<month, asking, aiCrashes>>
    BY <1>7 DEF FinishOtherwise
  <2>3. Terminal(e.run, "cancelled", "none", 0) \/ Terminal(e.run, "failed", "none", 0)
    BY <1>7 DEF FinishOtherwise
  <2> QED
    BY <2>1, <2>2, <2>3, TerminalKeeps DEF Ends
<1> QED
  BY <1>1, <1>3, <1>4, <1>5, <1>6, <1>7 DEF Execute

\* Every step keeps the invariant.
LEMMA AiInvStep == ASSUME AiInv, [AiNext]_aiVars PROVE AiInv'
<1>1. ASSUME NEW q \in AiRequest, BeginCreate(q) PROVE AiInv'
  BY <1>1 DEF BeginCreate, AiInv, AiTypeOK, RunIsSound, UsageIsSound
<1>2. ASSUME NEW q \in AiRequest, CommitCreate(q) PROVE AiInv'
  BY <1>2, CommitKeeps
<1>3. ASSUME NEW r \in AiRun, CancelRun(r) PROVE AiInv'
  BY <1>3, CancelKeeps
<1>4. ASSUME NEW r \in AiRun, NEW d \in {"accepted", "rejected"}, DecideDraft(r, d) PROVE AiInv'
  BY <1>4, DecideKeeps
<1>5. ASSUME NEW w \in AiWorker, Execute(w) PROVE AiInv'
  BY <1>5, ExecuteKeeps
<1>6. ASSUME NEW w \in AiWorker, ExecutorCrash(w) PROVE AiInv'
  <2>1. /\ executor[w] # Resting /\ Does(w, Resting) /\ UNCHANGED <<month, asking, aiRun, usage>>
        /\ aiCrashes' \in 0..MaxAiCrashes
    BY <1>6, AiConstants DEF ExecutorCrash, AiInv, AiTypeOK
  <2>2. aiRun \in [AiRun -> RunRow] /\ usage \in [1..MaxMonth -> UsageRow]
    BY DEF AiInv, AiTypeOK, RunRow, UsageRow
  <2> QED
    BY <2>1, <2>2, RestsKeeps DEF AiInv
<1>7. CASE MonthTurns
  <2>1. month' \in 1..MaxMonth /\ UNCHANGED <<asking, aiRun, usage, executor, aiCrashes>>
    BY <1>7, AiConstants DEF MonthTurns, AiInv, AiTypeOK
  <2> QED
    BY <2>1 DEF AiInv, AiTypeOK, RunIsSound, UsageIsSound
<1>8. CASE UNCHANGED aiVars
  BY <1>8 DEF aiVars, AiInv, AiTypeOK, RunIsSound, UsageIsSound
<1> QED
  BY <1>1, <1>2, <1>3, <1>4, <1>5, <1>6, <1>7, <1>8 DEF AiNext

\* However requests race, workers die, months turn and cancellations come
\* late, no month is overspent by more than providers exceeded their estimates,
\* and no cancelled run becomes a draft: for any number of requests, workers,
\* providers and tries.
THEOREM BudgetIsNeverOverspent == AiSpec => []BudgetIsKept
<1>1. AiInv => BudgetIsKept
  BY DEF AiInv, UsageIsSound, RunIsSound, BudgetIsKept, BudgetHolds, CancelIsHonoured
<1> QED
  BY <1>1, AiInvInit, AiInvStep, PTL DEF AiSpec

\* An ended run keeps its end, a decided draft its decision.
THEOREM DecisionsAreFinal == AiSpec => [][AiOutcomeIsFinal]_aiVars
<1>1. ASSUME AiInv, [AiNext]_aiVars PROVE [AiOutcomeIsFinal]_aiVars
  <2> SUFFICES ASSUME AiNext, NEW r \in AiRun
               PROVE  /\ aiRun[r].status \in Ends => aiRun'[r].status = aiRun[r].status
                      /\ aiRun[r].draft \in {"accepted", "rejected"} => aiRun'[r].draft = aiRun[r].draft
    BY <1>1 DEF AiOutcomeIsFinal
  <2>1. aiRun \in [AiRun -> RunRow] /\ RunIsSound(aiRun[r])
    BY <1>1 DEF AiInv, AiTypeOK, RunRow
  <2>2. CASE UNCHANGED aiRun
    BY <2>2
  <2>3. ASSUME NEW x \in AiRun, \A y \in AiRun : y # x => aiRun'[y] = aiRun[y],
               aiRun[x].status \notin Ends
        PROVE  /\ aiRun[r].status \in Ends => aiRun'[r].status = aiRun[r].status
               /\ aiRun[r].draft \in {"accepted", "rejected"} => aiRun'[r].draft = aiRun[r].draft
    BY <2>1, <2>3 DEF RunIsSound, Ends
  <2>4. ASSUME NEW q \in AiRequest, CommitCreate(q), ~UNCHANGED aiRun
        PROVE  /\ aiRun[RunAsked[q]].status \notin Ends /\ RunAsked[q] \in AiRun
               /\ \A y \in AiRun : y # RunAsked[q] => aiRun'[y] = aiRun[y]
    BY <2>1, <2>4 DEF CommitCreate, Known, AiRun, Ends
  <2>5. ASSUME NEW x \in AiRun, CancelRun(x)
        PROVE  /\ aiRun[x].status \notin Ends /\ \A y \in AiRun : y # x => aiRun'[y] = aiRun[y]
    <3>1. aiRun[x].status \notin Ends
      BY <2>5 DEF CancelRun, Ends
    <3>2. \A y \in AiRun : y # x => aiRun'[y] = aiRun[y]
      BY <2>1, <2>5 DEF CancelRun
    <3> QED
      BY <3>1, <3>2
  <2>6. ASSUME NEW x \in AiRun, NEW d \in {"accepted", "rejected"}, DecideDraft(x, d)
        PROVE  /\ aiRun[r].status \in Ends => aiRun'[r].status = aiRun[r].status
               /\ aiRun[r].draft \in {"accepted", "rejected"} => aiRun'[r].draft = aiRun[r].draft
    <3>1. aiRun' = [aiRun EXCEPT ![x].draft = d] /\ aiRun[x].draft = "pending"
      BY <2>6 DEF DecideDraft
    <3>2. \A y \in AiRun : /\ aiRun'[y].status = aiRun[y].status
                           /\ y # x => aiRun'[y].draft = aiRun[y].draft
      BY <2>1, <3>1 DEF RunRow
    <3> QED
      BY <3>1, <3>2
  <2>7. ASSUME NEW w \in AiWorker, Execute(w), ~UNCHANGED aiRun
        PROVE  \E x \in AiRun : /\ aiRun[x].status \notin Ends
                               /\ \A y \in AiRun : y # x => aiRun'[y] = aiRun[y]
    <3>1. CASE ClaimRun(w)
      <4> DEFINE x == CHOOSE z \in In({"queued"}) :
                        \A y \in In({"queued"}) : aiRun[z].order <= aiRun[y].order
      <4>1. aiRun' = [aiRun EXCEPT ![x].status = "running"] /\ In({"queued"}) # {}
        BY <3>1 DEF ClaimRun
      <4>2. x \in In({"queued"})
        BY <1>1, <4>1, OldestExists DEF AiInv
      <4> HIDE DEF x
      <4>3. x \in AiRun /\ aiRun[x].status \notin Ends
        BY <4>2 DEF In, Ends
      <4>4. \A y \in AiRun : y # x => aiRun'[y] = aiRun[y]
        BY <2>1, <4>1, <4>3
      <4> QED
        BY <4>3, <4>4
    <3>2. CASE ~ClaimRun(w)
      <4> DEFINE x == executor[w].run
      <4>1. executor[w] # Resting /\ \E s, d, a : Terminal(x, s, d, a) /\ Releasable(x)
        <5>0. ASSUME NEW s, NEW d, NEW a, Terminal(x, s, d, a) PROVE Releasable(x)
          BY <2>7, <5>0 DEF Terminal
        <5>1. CASE FinishOtherwise(w)
          <6>1. \E s : Terminal(x, s, "none", 0)
            BY <5>1 DEF FinishOtherwise
          <6> QED
            BY <5>0, <5>1, <6>1 DEF FinishOtherwise, Resting
        <5>2. CASE /\ executor[w].at = "save"
                   /\ \E valid \in BOOLEAN, actual \in Actuals(x) : FinishSucceeded(w, valid, actual)
          <6>1. PICK valid \in BOOLEAN, actual \in Actuals(x) : FinishSucceeded(w, valid, actual)
            BY <5>2
          <6>2. \/ Terminal(x, "cancelled", "none", 0)
                \/ Terminal(x, "failed", "none", actual)
                \/ Terminal(x, "succeeded", "pending", actual)
            BY <6>1 DEF FinishSucceeded
          <6> QED
            BY <5>0, <5>2, <6>2 DEF Resting
        <5> QED
          BY <2>7, <3>2, <5>1, <5>2 DEF Execute, LoadAttempt, RecordAttempt, Generate
      <4>2. x \in AiRun /\ aiRun[x].status \notin Ends
        BY <1>1, <4>1 DEF AiInv, AiTypeOK, ExecutorRow, Ends
      <4>3. \A y \in AiRun : y # x => aiRun'[y] = aiRun[y]
        BY <2>1, <4>1, <4>2 DEF Terminal
      <4> QED
        BY <4>2, <4>3
    <3> QED
      BY <3>1, <3>2
  <2> QED
    BY <2>2, <2>3, <2>4, <2>5, <2>6, <2>7 DEF AiNext, BeginCreate, ExecutorCrash, MonthTurns
<1> QED
  BY <1>1, AiInvInit, AiInvStep, PTL DEF AiSpec

-----------------------------------------------------------------------------
(* The log of an agent Run (TaskLog).                                      *)

SpanT == [from : 0..MaxTime, to : 0..Never]
ReceiptT == [file : Nat, succeeded : BOOLEAN, at : 0..MaxTime]
ObservationT == [deed : Deed, nth : Nat, when : 0..MaxTime]
Underway == {"assigned", "started", "blocked"}
DeedStates == {"none", "pending", "completed", "failed", "rejected", "accepted"} \cup Underway
DeedT == [state : DeedStates, needs : SUBSET Deed, area : Area \cup {"none"},
          spans : Seq(SpanT), receipts : Seq(ReceiptT), shown : SUBSET ObservationT]
LogTypes ==
  /\ deeds \in [Deed -> DeedT] /\ moment \in 0..MaxTime /\ seen \subseteq ObservationT

\* Only the last window of a task is open, while it is under way; the others
\* closed when they were replayed.
WindowsEnd(d, now) ==
  \A i \in 1..Len(d.spans) :
    /\ d.spans[i].from <= d.spans[i].to /\ d.spans[i].from <= now
    /\ d.spans[i].to <= now \/ (i = Len(d.spans) /\ d.state \in Underway)
\* A task that was taken on has a window, one that is done a receipt that is
\* no older than its last window, and one that is accepted later observations.
WorkIsDated(d, now) ==
  /\ IF d.state \in {"none", "pending"} THEN d.spans = <<>> ELSE d.spans # <<>>
  /\ d.state = "completed" =>
       /\ d.receipts # <<>> /\ Last(d.receipts).at <= now
       /\ \A i \in 1..Len(d.spans) : d.spans[i].to <= Last(d.receipts).at
  /\ d.state = "accepted" => \A i \in 1..Len(d.spans), o \in d.shown : d.spans[i].to <= o.when

\* What a task needs was accepted, and had ended, before the task was taken on.
BuiltOn(c, d) ==
  /\ c.state = "accepted"
  /\ \A i \in 1..Len(c.spans), j \in 1..Len(d.spans) : c.spans[i].to <= d.spans[j].from

LogInv ==
  /\ LogTypes
  /\ \A t \in Deed : WindowsEnd(deeds[t], moment) /\ WorkIsDated(deeds[t], moment)
  /\ \A t \in Deed : deeds[t].spans # <<>> => \A c \in deeds[t].needs : BuiltOn(deeds[c], deeds[t])

LEMMA SpansAreTyped ==
  ASSUME LogTypes, NEW t \in Deed
  PROVE  /\ deeds[t] \in DeedT /\ deeds[t].spans \in Seq(SpanT) /\ deeds[t].receipts \in Seq(ReceiptT)
         /\ Len(deeds[t].spans) \in Nat /\ Len(deeds[t].receipts) \in Nat
         /\ \A i \in 1..Len(deeds[t].spans) :
              /\ deeds[t].spans[i] \in SpanT
              /\ deeds[t].spans[i].from \in Nat /\ deeds[t].spans[i].to \in Nat
<1>1. deeds[t] \in DeedT
  BY DEF LogTypes
<1>2. deeds[t].spans \in Seq(SpanT) /\ deeds[t].receipts \in Seq(ReceiptT)
  BY <1>1 DEF DeedT
<1>3. \A s \in SpanT : s.from \in Nat /\ s.to \in Nat
  BY LogConstants DEF SpanT, Never
<1> QED
  BY <1>1, <1>2, <1>3

\* What holds of a task at one time holds of it later.
LEMMA DatesHold ==
  ASSUME LogTypes, NEW t \in Deed, NEW now \in Nat, moment <= now,
         WindowsEnd(deeds[t], moment), WorkIsDated(deeds[t], moment)
  PROVE  WindowsEnd(deeds[t], now) /\ WorkIsDated(deeds[t], now)
<1> DEFINE d == deeds[t]
<1>1. /\ Len(d.spans) \in Nat /\ moment \in Nat
      /\ \A i \in 1..Len(d.spans) : d.spans[i].from \in Nat /\ d.spans[i].to \in Nat
  BY SpansAreTyped, LogConstants DEF LogTypes
<1>2. d.state = "completed" => Last(d.receipts).at \in Nat
  <2>1. d.receipts \in Seq(ReceiptT)
    BY SpansAreTyped
  <2>2. d.receipts # <<>> => Last(d.receipts) \in ReceiptT
    BY <2>1 DEF Last
  <2> QED
    BY <2>2, LogConstants DEF WorkIsDated, ReceiptT
<1>3. WindowsEnd(d, now)
  BY <1>1 DEF WindowsEnd
<1>4. WorkIsDated(d, now)
  BY <1>1, <1>2 DEF WorkIsDated
<1> QED
  BY <1>3, <1>4

\* An event moves one task that was not accepted.
LEMMA EventKeeps ==
  ASSUME LogInv, NEW t \in Deed, NEW now \in moment..MaxTime, NEW next \in DeedT, Event(t, now, next),
         deeds[t].state # "accepted", WindowsEnd(next, now), WorkIsDated(next, now),
         next.spans # <<>> => \A c \in next.needs : BuiltOn(deeds[c], next)
  PROVE  LogInv'
<1>1. deeds \in [Deed -> DeedT] /\ moment \in 0..MaxTime /\ MaxTime \in Nat
  BY LogConstants DEF LogInv, LogTypes
<1>2. moment' = now /\ deeds' = [deeds EXCEPT ![t] = next] /\ seen' = seen
  BY DEF Event
<1>3. /\ deeds' \in [Deed -> DeedT] /\ deeds'[t] = next
      /\ \A u \in Deed \ {t} : deeds'[u] = deeds[u]
  BY <1>1, <1>2
<1>4. now \in 0..MaxTime /\ moment <= now /\ now \in Nat
  BY <1>1
<1>5. LogTypes'
  BY <1>2, <1>3, <1>4 DEF LogInv, LogTypes
<1>6. ASSUME NEW u \in Deed PROVE WindowsEnd(deeds'[u], now) /\ WorkIsDated(deeds'[u], now)
  <2>1. CASE u = t
    BY <1>3, <2>1
  <2>2. CASE u # t
    BY <1>3, <1>4, <2>2, DatesHold DEF LogInv
  <2> QED
    BY <2>1, <2>2
<1>7. ASSUME NEW u \in Deed, deeds'[u].spans # <<>>, NEW c \in deeds'[u].needs
      PROVE  BuiltOn(deeds'[c], deeds'[u])
  <2>1. c \in Deed
    BY <1>3, <1>7 DEF DeedT
  <2>2. BuiltOn(deeds[c], deeds'[u])
    BY <1>3, <1>7 DEF LogInv
  <2>3. c # t
    BY <2>2 DEF BuiltOn
  <2> QED
    BY <1>3, <2>1, <2>2, <2>3
<1> QED
  BY <1>2, <1>5, <1>6, <1>7 DEF LogInv

\* A task that has windows changes its state and nothing else.
LEMMA DeedGoesKeeps ==
  ASSUME LogInv, NEW t \in Deed, NEW now \in moment..MaxTime, NEW from, NEW to, DeedGoes(t, now, from, to),
         from \subseteq {"assigned", "started", "blocked", "completed"}, to \in {"started", "blocked", "rejected"},
         to = "rejected" => from = {"completed"}, to # "rejected" => from \subseteq Underway
  PROVE  LogInv'
<1> DEFINE d == deeds[t]
           next == [d EXCEPT !.state = to]
<1>1. d.state \in from /\ Event(t, now, next)
  BY DEF DeedGoes
<1>2. d \in DeedT
  BY SpansAreTyped DEF LogInv
<1>3. /\ next \in DeedT /\ next.state = to /\ next.spans = d.spans /\ next.needs = d.needs
  BY <1>2 DEF DeedT, DeedStates, Underway
<1>4. moment \in Nat /\ now \in Nat /\ moment <= now
  BY LogConstants DEF LogInv, LogTypes
<1>5. WindowsEnd(d, now) /\ WorkIsDated(d, now)
  BY <1>4, DatesHold DEF LogInv
<1>6. d.state # "accepted" /\ d.spans # <<>>
  BY <1>1, <1>5 DEF WorkIsDated
<1>7. \A c \in d.needs : BuiltOn(deeds[c], d)
  BY <1>6 DEF LogInv
<1>8. d.state \in Underway => to \in Underway
  BY <1>1 DEF Underway
<1> HIDE DEF next
<1>9. WindowsEnd(next, now)
  BY <1>3, <1>5, <1>8 DEF WindowsEnd
<1>10. WorkIsDated(next, now)
  BY <1>3, <1>6 DEF WorkIsDated
<1>11. \A c \in next.needs : BuiltOn(deeds[c], next)
  BY <1>3, <1>7 DEF BuiltOn
<1> QED
  BY <1>1, <1>3, <1>6, <1>9, <1>10, <1>11, EventKeeps

LEMMA CreateDeedKeeps ==
  ASSUME LogInv, NEW t \in Deed, NEW now \in moment..MaxTime, NEW needs \in SUBSET Deed,
         NEW area \in Area \cup {"none"}, CreateDeed(t, now, needs, area)
  PROVE  LogInv'
<1> DEFINE next == [Uncreated EXCEPT !.state = "pending", !.needs = needs, !.area = area]
<1>1. deeds[t].state = "none" /\ Event(t, now, next)
  BY DEF CreateDeed
<1>2. Uncreated \in DeedT /\ Uncreated.spans = <<>>
  <2>1. <<>> \in Seq(SpanT) /\ <<>> \in Seq(ReceiptT) /\ {} \in SUBSET ObservationT
    OBVIOUS
  <2> QED
    BY <2>1 DEF Uncreated, DeedT, DeedStates
<1>3. next \in DeedT /\ next.state = "pending" /\ next.spans = <<>>
  <2>1. "pending" \in DeedStates
    BY DEF DeedStates
  <2> QED
    BY <1>2, <2>1 DEF DeedT
<1> HIDE DEF next
<1>4. WindowsEnd(next, now) /\ WorkIsDated(next, now)
  BY <1>3 DEF WindowsEnd, WorkIsDated
<1> QED
  BY <1>1, <1>3, <1>4, EventKeeps

\* Whoever takes a task on finds what it needs accepted, and ended by now.
LEMMA TakeOnKeeps ==
  ASSUME LogInv, NEW t \in Deed, NEW now \in moment..MaxTime, NEW from, TakeOn(t, now, from),
         from \subseteq {"pending", "failed", "rejected"}
  PROVE  LogInv'
<1> DEFINE d == deeds[t]
           span == [from |-> now, to |-> Never]
           more == Append(d.spans, span)
           next == [d EXCEPT !.state = "assigned", !.spans = more]
<1>1. d.state \in from /\ NeedsAreMet(t) /\ Event(t, now, next)
  BY DEF TakeOn
<1>2. /\ d \in DeedT /\ d.spans \in Seq(SpanT) /\ Len(d.spans) \in Nat
      /\ \A i \in 1..Len(d.spans) : d.spans[i].from \in Nat /\ d.spans[i].to \in Nat
  BY SpansAreTyped DEF LogInv
<1>3. moment \in Nat /\ now \in Nat /\ moment <= now /\ now <= MaxTime /\ MaxTime \in Nat
      /\ now \in 0..MaxTime
  BY LogConstants DEF LogInv, LogTypes
<1>4. span \in SpanT /\ span.from = now /\ span.to = Never /\ now <= Never
  BY <1>3 DEF SpanT, Never
<1> HIDE DEF span
<1>5. /\ more \in Seq(SpanT) /\ Len(more) = Len(d.spans) + 1 /\ more # <<>>
      /\ more[Len(d.spans) + 1] = span
      /\ \A i \in 1..Len(d.spans) : more[i] = d.spans[i]
  BY <1>2, <1>4
<1> HIDE DEF more
<1>6. next \in DeedT /\ next.state = "assigned" /\ next.spans = more /\ next.needs = d.needs
  BY <1>2, <1>5 DEF DeedT, DeedStates, Underway
<1> HIDE DEF next
<1>7. WindowsEnd(d, moment) /\ d.state \notin Underway
  BY <1>1 DEF LogInv, Underway
<1>8. WindowsEnd(next, now)
  <2>1. ASSUME NEW i \in 1..Len(d.spans)
        PROVE  more[i].from <= more[i].to /\ more[i].from <= now /\ more[i].to <= now
    <3> DEFINE f == d.spans[i].from
               e == d.spans[i].to
    <3>1. f <= e /\ f <= moment /\ e <= moment
      BY <1>7 DEF WindowsEnd
    <3>2. f \in Nat /\ e \in Nat /\ more[i].from = f /\ more[i].to = e
      BY <1>2, <1>5
    <3> HIDE DEF f, e
    <3>3. f <= e /\ f <= now /\ e <= now
      BY <1>3, <3>1, <3>2
    <3> QED
      BY <3>2, <3>3
  <2>2. more[Len(d.spans) + 1].from <= more[Len(d.spans) + 1].to /\ more[Len(d.spans) + 1].from <= now
    BY <1>3, <1>4, <1>5
  <2>3. \A i \in 1..Len(more) : i \in 1..Len(d.spans) \/ i = Len(d.spans) + 1
    BY <1>2, <1>5
  <2> QED
    BY <1>5, <1>6, <2>1, <2>2, <2>3 DEF WindowsEnd, Underway
<1>9. WorkIsDated(next, now)
  BY <1>5, <1>6 DEF WorkIsDated
<1>10. ASSUME NEW c \in d.needs PROVE BuiltOn(deeds[c], next)
  <2>1. c \in Deed /\ deeds[c].state = "accepted"
    BY <1>1, <1>2 DEF NeedsAreMet, DeedT
  <2>2. \A i \in 1..Len(deeds[c].spans) : deeds[c].spans[i].to \in Nat /\ deeds[c].spans[i].to <= moment
    BY <2>1, SpansAreTyped DEF LogInv, WindowsEnd, Underway
  <2>3. ASSUME NEW i \in 1..Len(deeds[c].spans), NEW j \in 1..Len(more)
        PROVE  deeds[c].spans[i].to <= more[j].from
    <3>1. CASE j \in 1..Len(d.spans)
      <4>1. d.spans # <<>>
        BY <1>2, <3>1
      <4>2. BuiltOn(deeds[c], d)
        BY <1>10, <4>1 DEF LogInv
      <4> QED
        BY <1>5, <3>1, <4>2 DEF BuiltOn
    <3>2. CASE j = Len(d.spans) + 1
      <4>1. more[j].from = now
        BY <1>4, <1>5, <3>2
      <4> DEFINE e == deeds[c].spans[i].to
      <4>2. e \in Nat /\ e <= moment
        BY <2>2
      <4> HIDE DEF e
      <4>3. e <= now
        BY <1>3, <4>2
      <4> QED
        BY <4>1, <4>3 DEF e
    <3> QED
      BY <1>2, <1>5, <3>1, <3>2
  <2> QED
    BY <1>6, <2>1, <2>3 DEF BuiltOn
<1>11. d.state # "accepted"
  BY <1>1
<1> QED
  BY <1>1, <1>6, <1>8, <1>9, <1>10, <1>11, EventKeeps

\* The last window of a task under way closes.
LEMMA WindowCloses ==
  ASSUME LogInv, NEW t \in Deed, NEW now \in moment..MaxTime, deeds[t].state \in {"started", "blocked"}
  PROVE  LET d == deeds[t]  ended == WindowClosed(t, now)
         IN  /\ ended \in Seq(SpanT) /\ ended # <<>> /\ Len(ended) = Len(d.spans)
             /\ \A i \in 1..Len(ended) :
                  ended[i].from = d.spans[i].from /\ ended[i].from <= ended[i].to /\ ended[i].to <= now
             /\ now \in 0..MaxTime
<1> DEFINE d == deeds[t]
           last == [d.spans[Len(d.spans)] EXCEPT !.to = now]
           ended == WindowClosed(t, now)
<1>1. /\ d \in DeedT /\ d.spans \in Seq(SpanT) /\ Len(d.spans) \in Nat
      /\ \A i \in 1..Len(d.spans) :
           d.spans[i] \in SpanT /\ d.spans[i].from \in Nat /\ d.spans[i].to \in Nat
  BY SpansAreTyped DEF LogInv
<1>2. WindowsEnd(d, moment) /\ d.spans # <<>>
  BY DEF LogInv, WorkIsDated
<1>3. moment \in Nat /\ now \in Nat /\ moment <= now /\ now <= MaxTime /\ MaxTime \in Nat
      /\ now \in 0..MaxTime /\ now \in 0..Never
  BY LogConstants DEF LogInv, LogTypes, Never
<1>4. Len(d.spans) \in 1..Len(d.spans)
  BY <1>1, <1>2
<1>5. last \in SpanT /\ last.from = d.spans[Len(d.spans)].from /\ last.to = now
  BY <1>1, <1>3, <1>4 DEF SpanT
<1>6. ended = [d.spans EXCEPT ![Len(d.spans)] = last]
  BY DEF WindowClosed
<1> HIDE DEF last, ended
<1>7. /\ ended \in Seq(SpanT) /\ Len(ended) = Len(d.spans) /\ ended[Len(d.spans)] = last
      /\ \A i \in 1..Len(d.spans) : i # Len(d.spans) => ended[i] = d.spans[i]
  BY <1>1, <1>4, <1>5, <1>6
<1>8. ASSUME NEW i \in 1..Len(d.spans)
      PROVE  ended[i].from = d.spans[i].from /\ ended[i].from <= ended[i].to /\ ended[i].to <= now
  <2>1. CASE i = Len(d.spans)
    BY <1>1, <1>2, <1>3, <1>5, <1>7, <2>1 DEF WindowsEnd
  <2>2. CASE i # Len(d.spans)
    BY <1>1, <1>2, <1>3, <1>7, <2>2 DEF WindowsEnd
  <2> QED
    BY <2>1, <2>2
<1> QED
  BY <1>2, <1>3, <1>7, <1>8 DEF ended

LEMMA FailDeedKeeps ==
  ASSUME LogInv, NEW t \in Deed, NEW now \in moment..MaxTime, FailDeed(t, now)
  PROVE  LogInv'
<1> DEFINE d == deeds[t]
           ended == WindowClosed(t, now)
           next == [d EXCEPT !.state = "failed", !.spans = ended]
<1>1. d.state \in {"started", "blocked"} /\ Event(t, now, next)
  BY DEF FailDeed
<1>2. /\ ended \in Seq(SpanT) /\ ended # <<>> /\ Len(ended) = Len(d.spans)
      /\ \A i \in 1..Len(ended) :
           ended[i].from = d.spans[i].from /\ ended[i].from <= ended[i].to /\ ended[i].to <= now
      /\ now \in 0..MaxTime
  BY <1>1, WindowCloses
<1> HIDE DEF ended
<1>3. d \in DeedT /\ d.spans # <<>> /\ moment \in Nat /\ now \in Nat /\ moment <= now
  BY <1>1, SpansAreTyped, LogConstants DEF LogInv, LogTypes, WorkIsDated
<1>4. next \in DeedT /\ next.state = "failed" /\ next.spans = ended /\ next.needs = d.needs
  BY <1>2, <1>3 DEF DeedT, DeedStates, Underway
<1> HIDE DEF next
<1>5. WindowsEnd(d, now)
  BY <1>3, DatesHold DEF LogInv
<1>6. WindowsEnd(next, now)
  BY <1>2, <1>4, <1>5 DEF WindowsEnd
<1>7. WorkIsDated(next, now)
  BY <1>2, <1>4 DEF WorkIsDated
<1>8. \A c \in next.needs : BuiltOn(deeds[c], next)
  BY <1>2, <1>3, <1>4 DEF LogInv, BuiltOn
<1>9. d.state # "accepted"
  BY <1>1
<1> QED
  BY <1>1, <1>4, <1>6, <1>7, <1>8, <1>9, EventKeeps

LEMMA CompleteDeedKeeps ==
  ASSUME LogInv, NEW t \in Deed, NEW now \in moment..MaxTime, NEW file \in Nat, NEW succeeded \in BOOLEAN,
         CompleteDeed(t, now, file, succeeded)
  PROVE  LogInv'
<1> DEFINE d == deeds[t]
           ended == WindowClosed(t, now)
           receipt == [file |-> file, succeeded |-> succeeded, at |-> now]
           all == Append(d.receipts, receipt)
           next == [d EXCEPT !.state = "completed", !.spans = ended, !.receipts = all]
<1>1. d.state = "started" /\ Event(t, now, next)
  BY DEF CompleteDeed
<1>2. /\ ended \in Seq(SpanT) /\ ended # <<>> /\ Len(ended) = Len(d.spans)
      /\ \A i \in 1..Len(ended) :
           ended[i].from = d.spans[i].from /\ ended[i].from <= ended[i].to /\ ended[i].to <= now
      /\ now \in 0..MaxTime
  BY <1>1, WindowCloses
<1> HIDE DEF ended
<1>3. d \in DeedT /\ d.spans # <<>> /\ moment \in Nat /\ now \in Nat /\ moment <= now
      /\ d.receipts \in Seq(ReceiptT)
  BY <1>1, SpansAreTyped, LogConstants DEF LogInv, LogTypes, WorkIsDated
<1>4. receipt \in ReceiptT /\ receipt.at = now
  BY <1>2 DEF ReceiptT
<1> HIDE DEF receipt
<1>5. all \in Seq(ReceiptT) /\ all # <<>> /\ Last(all) = receipt
  BY <1>3, <1>4 DEF Last
<1> HIDE DEF all
<1>6. /\ next \in DeedT /\ next.state = "completed" /\ next.spans = ended /\ next.needs = d.needs
      /\ next.receipts = all
  BY <1>2, <1>3, <1>5 DEF DeedT, DeedStates, Underway
<1> HIDE DEF next
<1>7. WindowsEnd(d, now)
  BY <1>3, DatesHold DEF LogInv
<1>8. WindowsEnd(next, now)
  BY <1>2, <1>6, <1>7 DEF WindowsEnd
<1>9. WorkIsDated(next, now)
  BY <1>2, <1>3, <1>4, <1>5, <1>6 DEF WorkIsDated
<1>10. \A c \in next.needs : BuiltOn(deeds[c], next)
  BY <1>2, <1>3, <1>6 DEF LogInv, BuiltOn
<1>11. d.state # "accepted"
  BY <1>1
<1> QED
  BY <1>1, <1>6, <1>8, <1>9, <1>10, <1>11, EventKeeps

\* An acceptance shows what was observed after the completion.
LEMMA AcceptDeedKeeps ==
  ASSUME LogInv, NEW t \in Deed, NEW now \in moment..MaxTime, NEW o \in seen, AcceptDeed(t, now, o)
  PROVE  LogInv'
<1> DEFINE d == deeds[t]
           next == [d EXCEPT !.state = "accepted", !.shown = {o}]
<1>1. /\ d.state = "completed" /\ Last(d.receipts).at <= o.when /\ Event(t, now, next)
  BY DEF AcceptDeed, Proves
<1>2. /\ d \in DeedT /\ moment \in Nat /\ now \in Nat /\ moment <= now /\ o \in ObservationT
      /\ d.receipts \in Seq(ReceiptT)
      /\ \A i \in 1..Len(d.spans) : d.spans[i].from \in Nat /\ d.spans[i].to \in Nat
  BY SpansAreTyped, LogConstants DEF LogInv, LogTypes
<1>3. /\ next \in DeedT /\ next.state = "accepted" /\ next.spans = d.spans /\ next.needs = d.needs
      /\ next.shown = {o}
  BY <1>2 DEF DeedT, DeedStates, Underway
<1> HIDE DEF next
<1>4. WindowsEnd(d, now) /\ WorkIsDated(d, now) /\ d.spans # <<>> /\ d.receipts # <<>>
  BY <1>1, <1>2, DatesHold DEF LogInv, WorkIsDated
<1>5. Last(d.receipts) \in ReceiptT
  BY <1>2, <1>4 DEF Last
<1>6. Last(d.receipts).at \in Nat /\ o.when \in Nat
  BY <1>2, <1>5 DEF ReceiptT, ObservationT
<1>7. WindowsEnd(next, now)
  BY <1>1, <1>3, <1>4 DEF WindowsEnd, Underway
<1>8. WorkIsDated(next, now)
  <2>1. \A i \in 1..Len(d.spans) : d.spans[i].to <= o.when
    BY <1>1, <1>2, <1>4, <1>6 DEF WorkIsDated
  <2> QED
    BY <1>3, <1>4, <2>1 DEF WorkIsDated
<1>9. \A c \in next.needs : BuiltOn(deeds[c], next)
  BY <1>3, <1>4 DEF LogInv, BuiltOn
<1>10. d.state # "accepted"
  BY <1>1
<1> QED
  BY <1>1, <1>3, <1>7, <1>8, <1>9, <1>10, EventKeeps

LEMMA ObserveDeedKeeps ==
  ASSUME LogInv, NEW t \in Deed, NEW nth \in Nat, NEW when \in 0..MaxTime, ObserveDeed(t, nth, when)
  PROVE  LogInv'
<1>1. /\ seen' = seen \cup {[deed |-> t, nth |-> nth, when |-> when]} /\ UNCHANGED <<deeds, moment>>
  BY DEF ObserveDeed
<1>2. [deed |-> t, nth |-> nth, when |-> when] \in ObservationT
  BY DEF ObservationT
<1>3. LogTypes'
  BY <1>1, <1>2 DEF LogInv, LogTypes
<1> QED
  BY <1>1, <1>3 DEF LogInv

LEMMA LogInvInit == ASSUME LogInit PROVE LogInv
<1>1. deeds = [t \in Deed |-> Uncreated] /\ moment = 0 /\ seen = {}
  BY DEF LogInit
<1>2. /\ Uncreated \in DeedT /\ Uncreated.state = "none" /\ Uncreated.spans = <<>>
  BY DEF Uncreated, DeedT, DeedStates, Underway
<1>3. LogTypes
  BY <1>1, <1>2, LogConstants DEF LogTypes
<1>4. WindowsEnd(Uncreated, 0) /\ WorkIsDated(Uncreated, 0)
  BY <1>2 DEF WindowsEnd, WorkIsDated
<1> QED
  BY <1>1, <1>2, <1>3, <1>4 DEF LogInv

LEMMA LogInvStep == ASSUME LogInv, [LogNext]_logVars PROVE LogInv'
<1>1. ASSUME NEW t \in Deed, NEW now \in 0..MaxTime,
             \/ \E needs \in SUBSET Deed, area \in Area \cup {"none"} : CreateDeed(t, now, needs, area)
             \/ AssignDeed(t, now) \/ RetryDeed(t, now) \/ StartDeed(t, now)
             \/ BlockDeed(t, now) \/ ResumeDeed(t, now) \/ FailDeed(t, now)
             \/ \E file \in 1..Cardinality(Deed) * MaxRounds, ok \in BOOLEAN : CompleteDeed(t, now, file, ok)
             \/ RejectDeed(t, now) \/ \E o \in seen : AcceptDeed(t, now, o)
      PROVE  LogInv'
  <2>1. ASSUME NEW next, Event(t, now, next) PROVE now \in moment..MaxTime
    BY <2>1 DEF Event
  <2>2. ASSUME NEW needs \in SUBSET Deed, NEW area \in Area \cup {"none"}, CreateDeed(t, now, needs, area)
        PROVE  LogInv'
    <3>1. now \in moment..MaxTime
      BY <2>1, <2>2 DEF CreateDeed
    <3> QED
      BY <2>2, <3>1, CreateDeedKeeps
  <2>3. CASE AssignDeed(t, now) \/ RetryDeed(t, now)
    <3>1. TakeOn(t, now, {"pending"}) \/ TakeOn(t, now, {"failed", "rejected"})
      BY <2>3 DEF AssignDeed, RetryDeed
    <3>2. now \in moment..MaxTime
      BY <2>1, <3>1 DEF TakeOn
    <3>3. CASE TakeOn(t, now, {"pending"})
      BY <3>2, <3>3, TakeOnKeeps
    <3>4. CASE TakeOn(t, now, {"failed", "rejected"})
      BY <3>2, <3>4, TakeOnKeeps
    <3> QED
      BY <3>1, <3>3, <3>4
  <2>4. ASSUME NEW from, NEW to, DeedGoes(t, now, from, to), from \subseteq {"assigned", "started", "blocked", "completed"},
               to \in {"started", "blocked", "rejected"}, to = "rejected" => from = {"completed"},
               to # "rejected" => from \subseteq Underway
        PROVE  LogInv'
    <3>1. now \in moment..MaxTime
      BY <2>1, <2>4 DEF DeedGoes
    <3> QED
      BY <2>4, <3>1, DeedGoesKeeps
  <2>5. CASE StartDeed(t, now)
    BY <2>4, <2>5 DEF StartDeed, Underway
  <2>6. CASE BlockDeed(t, now)
    BY <2>4, <2>6 DEF BlockDeed, Underway
  <2>7. CASE ResumeDeed(t, now)
    BY <2>4, <2>7 DEF ResumeDeed, Underway
  <2>8. CASE RejectDeed(t, now)
    BY <2>4, <2>8 DEF RejectDeed, Underway
  <2>9. CASE FailDeed(t, now)
    <3>1. now \in moment..MaxTime
      BY <2>1, <2>9 DEF FailDeed
    <3> QED
      BY <2>9, <3>1, FailDeedKeeps
  <2>10. ASSUME NEW file \in 1..Cardinality(Deed) * MaxRounds, NEW ok \in BOOLEAN, CompleteDeed(t, now, file, ok)
         PROVE  LogInv'
    <3>1. now \in moment..MaxTime
      BY <2>1, <2>10 DEF CompleteDeed
    <3>2. file \in Nat
      OBVIOUS
    <3> QED
      BY <2>10, <3>1, <3>2, CompleteDeedKeeps
  <2>11. ASSUME NEW o \in seen, AcceptDeed(t, now, o) PROVE LogInv'
    <3>1. now \in moment..MaxTime
      BY <2>1, <2>11 DEF AcceptDeed
    <3> QED
      BY <2>11, <3>1, AcceptDeedKeeps
  <2> QED
    BY <1>1, <2>2, <2>3, <2>5, <2>6, <2>7, <2>8, <2>9, <2>10, <2>11
<1>2. ASSUME NEW t \in Deed, NEW nth \in 1..MaxRounds, NEW when \in 0..MaxTime, ObserveDeed(t, nth, when)
      PROVE  LogInv'
  <2>1. nth \in Nat
    OBVIOUS
  <2> QED
    BY <1>2, <2>1, ObserveDeedKeeps
<1>3. ASSUME UNCHANGED logVars PROVE LogInv'
  BY <1>3 DEF logVars, LogInv, LogTypes
<1> QED
  BY <1>1, <1>2, <1>3 DEF LogNext

\* What accepted work is built on, however far down, was accepted and had
\* ended before the work began.
LEMMA WorkIsBuilt ==
  ASSUME LogInv, NEW t \in Deed, deeds[t].spans # <<>>, NEW c \in Leading(t)
  PROVE  BuiltOn(deeds[c], deeds[t])
<1> DEFINE S == {d \in Deed : BuiltOn(deeds[d], deeds[t])}
<1>1. deeds[t].needs \subseteq S
  <2>1. deeds[t].needs \subseteq Deed
    BY SpansAreTyped DEF LogInv, DeedT
  <2> QED
    BY <2>1 DEF LogInv
<1>2. ASSUME NEW d \in S, NEW e \in deeds[d].needs PROVE e \in S
  <2>1. d \in Deed /\ BuiltOn(deeds[d], deeds[t])
    OBVIOUS
  <2>2. /\ deeds[d].state = "accepted" /\ e \in Deed
        /\ WorkIsDated(deeds[d], moment) /\ WindowsEnd(deeds[d], moment)
    BY <2>1, SpansAreTyped DEF LogInv, BuiltOn, DeedT
  <2>3. /\ deeds[d].spans # <<>> /\ Len(deeds[d].spans) \in Nat /\ deeds[d].spans \in Seq(SpanT)
        /\ \A i \in 1..Len(deeds[d].spans) : deeds[d].spans[i].from \in Nat /\ deeds[d].spans[i].to \in Nat
    BY <2>1, <2>2, SpansAreTyped DEF LogInv, WorkIsDated
  <2>4. 1 \in 1..Len(deeds[d].spans)
    BY <2>3
  <2>5. BuiltOn(deeds[e], deeds[d])
    BY <2>1, <2>3 DEF LogInv
  <2>6. ASSUME NEW i \in 1..Len(deeds[e].spans), NEW j \in 1..Len(deeds[t].spans)
        PROVE  deeds[e].spans[i].to <= deeds[t].spans[j].from
    <3>1. deeds[e].spans[i].to <= deeds[d].spans[1].from
      BY <2>4, <2>5 DEF BuiltOn
    <3>2. deeds[d].spans[1].from <= deeds[d].spans[1].to
      BY <2>2, <2>4 DEF WindowsEnd
    <3>3. deeds[d].spans[1].to <= deeds[t].spans[j].from
      BY <2>1, <2>4 DEF BuiltOn
    <3>4. deeds[e].spans[i].to \in Nat /\ deeds[t].spans[j].from \in Nat
      BY <2>2, SpansAreTyped DEF LogInv
    <3> QED
      <4> DEFINE a == deeds[e].spans[i].to
                 b == deeds[d].spans[1].from
                 c2 == deeds[d].spans[1].to
                 f == deeds[t].spans[j].from
      <4>1. a \in Nat /\ b \in Nat /\ c2 \in Nat /\ f \in Nat
        BY <2>3, <2>4, <3>4
      <4>2. a <= b /\ b <= c2 /\ c2 <= f
        BY <3>1, <3>2, <3>3
      <4> HIDE DEF a, b, c2, f
      <4>3. a <= f
        BY <4>1, <4>2
      <4> QED
        BY <4>3 DEF a, f
  <2> QED
    BY <2>2, <2>5, <2>6 DEF BuiltOn
<1>3. S \in SUBSET Deed /\ FollowsNeeds(S)
  <2>1. \A d \in S : deeds[d].needs \subseteq S
    BY <1>2
  <2> HIDE DEF S
  <2>2. FollowsNeeds(S)
    BY <2>1 DEF FollowsNeeds
  <2> QED
    BY <2>2 DEF S
<1>4. c \in S
  <2> HIDE DEF S
  <2> QED
    BY <1>1, <1>3 DEF Leading
<1> QED
  BY <1>4

\* In a Run that the validator passes, accepted work was observed after its
\* last attempt had ended; what it is built on, directly or not, was accepted
\* and had ended before its first attempt began; and no two tasks ever had the
\* same area to write (agent-state.mjs, validateRunUnchecked).
THEOREM AcceptedIsProven == LogSpec => []AcceptedWorkIsProven
<1>1. LogInit => LogInv
  BY LogInvInit
<1>2. LogInv /\ [LogNext]_logVars => LogInv'
  BY LogInvStep
<1>3. LogInv => AcceptedWorkIsProven
  <2> SUFFICES ASSUME LogInv, Validated PROVE AcceptedWorkIsProven
    BY DEF AcceptedWorkIsProven
  <2>1. ASSUME NEW t \in Deed, deeds[t].state = "accepted"
        PROVE  /\ \A o \in deeds[t].shown, s \in Spans(t) : s.to <= o.when
               /\ \A d \in Leading(t), s \in Spans(t) :
                    deeds[d].state = "accepted" /\ \A r \in Spans(d) : r.to <= s.from
    <3>1. WorkIsDated(deeds[t], moment) /\ deeds[t].spans # <<>>
      BY <2>1 DEF LogInv, WorkIsDated
    <3>2. \A o \in deeds[t].shown, i \in 1..Len(deeds[t].spans) : deeds[t].spans[i].to <= o.when
      BY <2>1, <3>1 DEF WorkIsDated
    <3>3. \A u \in Deed : deeds[u].spans \in Seq(SpanT)
      BY SpansAreTyped DEF LogInv
    <3>4. \A u \in Deed : Spans(u) = {deeds[u].spans[i] : i \in 1..Len(deeds[u].spans)}
      BY <3>3 DEF Spans, ToSet
    <3>5. \A d \in Leading(t) : d \in Deed /\ BuiltOn(deeds[d], deeds[t])
      BY <3>1, WorkIsBuilt DEF Leading
    <3> QED
      BY <3>2, <3>4, <3>5 DEF BuiltOn
  <2>2. ASSUME NEW k \in 0..MaxTime, NEW a \in Area
        PROVE  Cardinality({t \in Deed : deeds[t].area = a /\ \E s \in Spans(t) : s.from <= k /\ k < s.to}) <= 1
    <3> DEFINE W == {t \in Deed : deeds[t].area = a /\ \E s \in Spans(t) : s.from <= k /\ k < s.to}
    <3>1. ASSUME NEW t \in W, NEW u \in W PROVE t = u
      <4>1. PICK s \in Spans(t) : s.from <= k /\ k < s.to
        OBVIOUS
      <4>2. PICK r \in Spans(u) : r.from <= k /\ k < r.to
        OBVIOUS
      <4>3. t \in Deed /\ u \in Deed /\ deeds[t].area = a /\ deeds[u].area = a /\ a # "none"
        BY LogConstants
      <4>4. s.from \in Nat /\ s.to \in Nat /\ r.from \in Nat /\ r.to \in Nat /\ k \in Nat
        <5>1. PICK i \in DOMAIN deeds[t].spans : s = deeds[t].spans[i]
          BY <4>1 DEF Spans, ToSet
        <5>2. PICK j \in DOMAIN deeds[u].spans : r = deeds[u].spans[j]
          BY <4>2 DEF Spans, ToSet
        <5>3. deeds[t].spans \in Seq(SpanT) /\ deeds[u].spans \in Seq(SpanT)
          BY <4>3, SpansAreTyped DEF LogInv
        <5>4. s \in SpanT /\ r \in SpanT
          BY <5>1, <5>2, <5>3
        <5> QED
          BY <5>4, LogConstants DEF SpanT, Never
      <4>5. Overlap(s, r)
        BY <4>1, <4>2, <4>4 DEF Overlap
      <4> QED
        BY <4>3, <4>5 DEF Validated, WriterIsolation
    <3>2. Cardinality(W) <= 1
      <4>1. CASE W = {}
        BY <4>1, FS_EmptySet
      <4>2. CASE W # {}
        <5>1. PICK t \in W : TRUE
          BY <4>2
        <5>2. W = {t}
          BY <3>1, <5>1
        <5>3. Cardinality({t}) = 1
          BY FS_Singleton
        <5> HIDE DEF W
        <5>4. Cardinality(W) = 1
          BY <5>2, <5>3
        <5> QED
          BY <5>4
      <4> QED
        BY <4>1, <4>2
    <3> QED
      BY <3>2
  <2> QED
    BY <2>1, <2>2 DEF AcceptedWorkIsProven
<1> QED
  BY <1>1, <1>2, <1>3, PTL DEF LogSpec
-----------------------------------------------------------------------------
(* AgentRuns: an init is atomic.  The lock has one holder, so one process  *)
(* moves on the runs root; each of its steps says what the root looks like *)
(* (Phase), and all else is at rest.                                       *)

HoldSteps ==
  {"recover", "check", "begin", "intent", "intent2", "stage", "files", "manifest",
   "manifest2", "publish", "temp", "link", "claim", "rmrun", "rmrun2", "rmtemp",
   "rmtx", "finish", "giveup", "stuck"}
Waits == {"start", "retry", "own", "break", "lastbreak"}
FileStates == {"none", "torn", "whole"}
DirStates == {"none", "partial", "whole", "changed"}
TxTypes == [exists : BOOLEAN, intent : FileStates, manifest : FileStates]
RunTypes == [by : Initializer \cup {0}, state : {"none", "whole", "changed"}]

RootTypes ==
  /\ at \in [Initializer -> HoldSteps \cup Waits \cup Ended]
  /\ tx \in [Initializer -> TxTypes]
  /\ stage \in [Initializer -> DirStates]
  /\ orphan \in [Initializer -> DirStates]
  /\ temp \subseteq Initializer
  /\ run \in [RunIds -> RunTypes]
  /\ pointer \in Initializer \cup {0}
  /\ lock \in [maker : Initializer \cup {0}, owner : Initializer \cup {0}, aged : BOOLEAN]
  /\ undone \in [Initializer -> Initializer \cup {0}]
  /\ committed \subseteq Initializer
  /\ cuts \in [crashes : Nat, unproven : BOOLEAN]

\* The holder owns the lock, a maker has it to itself, and who breaks a lock
\* breaks a dead one.
LockOk ==
  /\ lock.maker = 0 => lock = NoLock
  /\ lock.owner # 0 => lock.maker = lock.owner
  /\ lock.aged => lock.owner = 0 /\ at[lock.maker] \in Ended
  /\ \A p \in Initializer :
       /\ at[p] \in HoldSteps => lock.owner = p
       /\ at[p] = "own" => lock.maker = p /\ lock.owner = 0
       /\ at[p] \in {"break", "lastbreak"} => lock.maker # 0 /\ at[lock.maker] \in Ended

By(q) == run[RunOf[q]].by
PublishedWhole(q) == run[RunOf[q]] = [by |-> q, state |-> "whole"]
NoDirs(q) == stage[q] = "none" /\ orphan[q] = "none"
Kept(q) == By(q) = q => q \in committed

RunsOk ==
  \A r \in RunIds :
    \/ run[r] = NoRun
    \/ /\ run[r].by \in Initializer /\ RunOf[run[r].by] = r
       /\ run[r].state \in {"whole", "changed"}
PointerOk ==
  pointer # 0 => /\ pointer \in committed /\ By(pointer) = pointer
                 /\ NoDirs(pointer)

\* What no intent and no manifest speaks of has left nothing behind.
TxOk ==
  \A q \in Initializer :
    /\ ~tx[q].exists => tx[q] = NoTx
    /\ (tx[q].intent = "none" /\ tx[q].manifest = "none") => NoDirs(q) /\ Kept(q) /\ q \notin temp
OneTx == \A q, r \in Initializer : tx[q].exists /\ tx[r].exists => q = r
RootOk == RunsOk /\ PointerOk /\ TxOk /\ OneTx

NoneOpen == \A q \in Initializer : ~tx[q].exists
Fresh(p) == By(p) = 0 /\ pointer = 0
File(q, i, m) == tx[q] = [exists |-> TRUE, intent |-> i, manifest |-> m]
Unpublished(p, s) == stage[p] = s /\ orphan[p] = "none" /\ p \notin temp /\ Fresh(p)
Out(p) == NoDirs(p) /\ pointer = 0 /\ PublishedWhole(p)

\* A transaction whose Run may be claimed, and one that has no Run to claim.
Claimable(q) ==
  /\ q \in Initializer /\ tx[q].exists /\ tx[q].intent = "whole"
  /\ tx[q].manifest = "whole" \/ (tx[q].manifest = "none" /\ q \notin temp)
Claims(q) ==
  /\ Claimable(q) /\ orphan[q] = "none"
  /\ \/ stage[q] # "none" /\ By(q) = 0
     \/ /\ stage[q] = "none" /\ PublishedWhole(q)
        /\ pointer = 0 \/ RunOf[pointer] # RunOf[q]
Claimed(q) == Claimable(q) /\ stage[q] = "none" /\ By(q) = 0
Clear(q) == q \in Initializer /\ tx[q].exists /\ NoDirs(q) /\ Kept(q)

Phase(p) ==
  /\ at[p] = "check" => NoneOpen
  /\ at[p] = "begin" => NoneOpen /\ Fresh(p)
  /\ at[p] = "intent" => File(p, "none", "none") /\ Fresh(p)
  /\ at[p] = "intent2" => File(p, "torn", "none") /\ Unpublished(p, "none")
  /\ at[p] = "stage" => File(p, "whole", "none") /\ Unpublished(p, "none")
  /\ at[p] = "files" => File(p, "whole", "none") /\ Unpublished(p, "partial")
  /\ at[p] = "manifest" => File(p, "whole", "none") /\ Unpublished(p, "whole")
  /\ at[p] = "manifest2" => File(p, "whole", "torn") /\ Unpublished(p, "whole")
  /\ at[p] = "publish" => File(p, "whole", "whole") /\ Unpublished(p, "whole")
  /\ at[p] = "temp" => File(p, "whole", "whole") /\ Out(p)
  /\ at[p] = "link" => File(p, "whole", "whole") /\ Out(p)
  /\ at[p] = "claim" => Claims(undone[p])
  /\ at[p] \in {"rmrun", "rmrun2"} => Claimed(undone[p])
  /\ at[p] = "rmtemp" => Clear(undone[p])
  /\ at[p] = "rmtx" => Clear(undone[p]) /\ undone[p] \notin temp

\* What recovery can prove, who is about to leave something it cannot, and
\* that without such a cut nobody asks for a review.
Provable(q) ==
  \/ tx[q].intent = "none" /\ tx[q].manifest = "none"
  \/ /\ tx[q].intent = "whole" /\ tx[q].manifest = "none"
     /\ orphan[q] = "none" /\ q \notin temp /\ By(q) = 0
  \/ /\ tx[q].intent = "whole" /\ tx[q].manifest = "whole"
     /\ \/ stage[q] = "whole" /\ orphan[q] = "none" /\ By(q) = 0
        \/ NoDirs(q) /\ PublishedWhole(q)
        \/ stage[q] = "none" /\ orphan[q] \in {"none", "whole"} /\ By(q) = 0
Tearing(p, q) ==
  \/ p = q /\ at[p] \in {"intent2", "manifest2"}
  \/ undone[p] = q /\ at[p] \in {"rmrun2", "rmtx"}
  \/ undone[p] = q /\ at[p] = "rmrun" /\ tx[q].manifest = "none"
Explained ==
  ~cuts.unproven =>
    /\ \A q \in Initializer : tx[q].exists => Provable(q) \/ \E p \in Initializer : Tearing(p, q)
    /\ \A p \in Initializer : at[p] \notin {"stuck", "review"}

AgentInv ==
  RootTypes /\ LockOk /\ RootOk /\ (\A p \in Initializer : Phase(p)) /\ Explained
\* Who works on the runs root is alone there.
LEMMA HolderAlone ==
  ASSUME LockOk, NEW p \in Initializer, at[p] \in HoldSteps
  PROVE  /\ lock.owner = p /\ lock.maker = p
         /\ \A r \in Initializer \ {p} : at[r] \notin HoldSteps
         /\ \A r \in Initializer : at[r] \notin {"own", "break", "lastbreak"}
  BY AgentConstants DEF LockOk, HoldSteps, Ended

\* A step of the holder that keeps the lock: the others are where they were.
LEMMA HolderPlaces ==
  ASSUME AgentInv, NEW p \in Initializer, at[p] \in HoldSteps,
         NEW s \in HoldSteps, at' = [at EXCEPT ![p] = s],
         UNCHANGED lock, Phase(p)'
  PROVE  LockOk' /\ \A r \in Initializer : Phase(r)'
<1>1. /\ lock.owner = p /\ lock.maker = p
      /\ \A r \in Initializer \ {p} : at[r] \notin HoldSteps
      /\ \A r \in Initializer : at[r] \notin {"own", "break", "lastbreak"}
  BY HolderAlone, AgentConstants DEF AgentInv
<1>2. /\ at'[p] = s
      /\ \A r \in Initializer \ {p} : at'[r] = at[r]
  BY DEF AgentInv, RootTypes
<1>3. s \notin Waits \cup Ended
  BY DEF HoldSteps, Waits, Ended
<1>4. LockOk'
  <2>1. ~lock.aged
    BY <1>1, AgentConstants DEF AgentInv, LockOk
  <2> QED
    BY <1>1, <1>2, <1>3, <2>1, AgentConstants DEF AgentInv, LockOk, Waits
<1>5. ASSUME NEW r \in Initializer PROVE Phase(r)'
  <2>1. CASE r = p
    BY <2>1
  <2>2. CASE r # p
    <3>1. at'[r] \notin HoldSteps
      BY <1>1, <1>2, <2>2
    <3> QED
      BY <3>1 DEF Phase, HoldSteps
  <2> QED
    BY <2>1, <2>2
<1> QED
  BY <1>4, <1>5

\* What is left to show is what it did to the root, and where it stands now.
LEMMA HolderMoves ==
  ASSUME AgentInv, NEW p \in Initializer, at[p] \in HoldSteps,
         NEW s \in HoldSteps, at' = [at EXCEPT ![p] = s],
         UNCHANGED <<lock, cuts>>, RootTypes', RootOk', Phase(p)',
         ~cuts.unproven =>
           /\ s # "stuck"
           /\ \A q \in Initializer : tx'[q].exists => Provable(q)' \/ Tearing(p, q)'
  PROVE  AgentInv'
<1>2. /\ at'[p] = s
      /\ \A r \in Initializer \ {p} : at'[r] = at[r]
  BY DEF AgentInv, RootTypes
<1>3. s \notin Waits \cup Ended
  BY DEF HoldSteps, Waits, Ended
<1>4. LockOk' /\ \A r \in Initializer : Phase(r)'
  BY HolderPlaces
<1>6. Explained'
  <2> SUFFICES ASSUME ~cuts'.unproven PROVE
        /\ \A q \in Initializer : tx'[q].exists => Provable(q)' \/ \E r \in Initializer : Tearing(r, q)'
        /\ \A r \in Initializer : at'[r] \notin {"stuck", "review"}
    BY DEF Explained
  <2>1. ~cuts.unproven
    OBVIOUS
  <2>2. \A q \in Initializer : tx'[q].exists => Provable(q)' \/ \E r \in Initializer : Tearing(r, q)'
    BY <2>1
  <2>3. \A r \in Initializer : at'[r] \notin {"stuck", "review"}
    BY <2>1, <1>2, <1>3 DEF AgentInv, Explained, Ended
  <2> QED
    BY <2>2, <2>3
<1> QED
  BY <1>4, <1>6 DEF AgentInv

\* The same for a call that fails, and what it may leave cut in two.
LEMMA HolderFails ==
  ASSUME AgentInv, NEW p \in Initializer, at[p] \in HoldSteps,
         NEW s \in HoldSteps, at' = [at EXCEPT ![p] = s],
         UNCHANGED lock, RootTypes', RootOk', Phase(p)',
         ~cuts'.unproven =>
           /\ ~cuts.unproven /\ s # "stuck"
           /\ \A q \in Initializer : tx'[q].exists => Provable(q)' \/ Tearing(p, q)'
  PROVE  AgentInv'
<1>1. /\ at'[p] = s
      /\ \A r \in Initializer \ {p} : at'[r] = at[r]
  BY DEF AgentInv, RootTypes
<1>2. s \notin Waits \cup Ended
  BY DEF HoldSteps, Waits, Ended
<1>3. LockOk' /\ \A r \in Initializer : Phase(r)'
  BY HolderPlaces
<1>4. Explained'
  <2> SUFFICES ASSUME ~cuts'.unproven PROVE
        /\ \A q \in Initializer : tx'[q].exists => Provable(q)' \/ \E r \in Initializer : Tearing(r, q)'
        /\ \A r \in Initializer : at'[r] \notin {"stuck", "review"}
    BY DEF Explained
  <2>1. \A r \in Initializer : at'[r] \notin {"stuck", "review"}
    BY <1>1, <1>2 DEF AgentInv, Explained, Ended
  <2> QED
    BY <2>1
<1> QED
  BY <1>3, <1>4 DEF AgentInv

\* What the holder may rely on when nothing was cut.
LEMMA HolderKnows ==
  ASSUME AgentInv, NEW p \in Initializer, at[p] \in HoldSteps, ~cuts.unproven,
         NEW q \in Initializer, tx[q].exists
  PROVE  Provable(q) \/ Tearing(p, q)
<1>1. PICK r \in Initializer : Provable(q) \/ Tearing(r, q)
  BY DEF AgentInv, Explained
<1>2. Tearing(r, q) => at[r] \in HoldSteps
  BY DEF Tearing, HoldSteps
<1>3. at[r] \in HoldSteps => r = p
  BY HolderAlone DEF AgentInv
<1> QED
  BY <1>1, <1>2, <1>3
\* What is known of a transaction's places.
LEMMA OwnedPlaces ==
  ASSUME NEW q \in Initializer
  PROVE  /\ IsFiniteSet(Owned(q))
         /\ "stage" \in Owned(q) <=> stage[q] # "none"
         /\ "run" \in Owned(q) <=> By(q) # 0
         /\ "orphan" \in Owned(q) <=> orphan[q] # "none"
         /\ Owned(q) \subseteq {"stage", "run", "orphan"}
<1>1. IsFiniteSet({"stage", "run", "orphan"})
  <2>1. IsFiniteSet({"orphan"})
    BY FS_Singleton
  <2>2. IsFiniteSet({"orphan"} \cup {"run"})
    BY <2>1, FS_AddElement
  <2>3. IsFiniteSet(({"orphan"} \cup {"run"}) \cup {"stage"})
    BY <2>2, FS_AddElement
  <2>4. ({"orphan"} \cup {"run"}) \cup {"stage"} = {"stage", "run", "orphan"}
    OBVIOUS
  <2> QED
    BY <2>3, <2>4
<1>2. Owned(q) \subseteq {"stage", "run", "orphan"}
  BY DEF Owned
<1>3. IsFiniteSet(Owned(q))
  BY <1>1, <1>2, FS_Subset
<1>4. /\ "stage" \in Owned(q) <=> stage[q] # "none"
      /\ "run" \in Owned(q) <=> By(q) # 0
      /\ "orphan" \in Owned(q) <=> orphan[q] # "none"
  BY DEF Owned, By
<1> QED
  BY <1>2, <1>3, <1>4

LEMMA OnePlace ==
  ASSUME NEW q \in Initializer, Cardinality(Owned(q)) <= 1
  PROVE  \A a, b \in Owned(q) : a = b
<1>1. IsFiniteSet(Owned(q))
  BY OwnedPlaces
<1>2. Cardinality(Owned(q)) = 0 \/ Cardinality(Owned(q)) = 1
  BY <1>1, FS_CardinalityType
<1>3. CASE Cardinality(Owned(q)) = 0
  BY <1>1, <1>3, FS_EmptySet
<1>4. CASE Cardinality(Owned(q)) = 1
  <2>1. PICK x : Owned(q) = {x}
    BY <1>1, <1>4, FS_Singleton
  <2> QED
    BY <2>1
<1> QED
  BY <1>2, <1>3, <1>4

\* What recovery finds a transaction to be is what its next step needs.
LEMMA JudgedRight ==
  ASSUME RootTypes, RootOk, NEW q \in Initializer, tx[q].exists
  PROVE  /\ Judged(q) \in {"review", "rmtx", "claim", "rmtemp", "rmrun"}
         /\ Judged(q) = "rmtx" => Clear(q) /\ q \notin temp
         /\ Judged(q) = "rmtemp" => Clear(q)
         /\ Judged(q) = "rmrun" => Claimed(q) /\ tx[q].manifest = "whole"
         /\ Judged(q) = "claim" => Claims(q)
<1>t. /\ tx[q].intent \in FileStates /\ tx[q].manifest \in FileStates
      /\ stage[q] \in DirStates /\ orphan[q] \in DirStates
  BY DEF RootTypes, TxTypes
<1>o. /\ "stage" \in Owned(q) <=> stage[q] # "none"
      /\ "run" \in Owned(q) <=> By(q) # 0
      /\ "orphan" \in Owned(q) <=> orphan[q] # "none"
      /\ Owned(q) \subseteq {"stage", "run", "orphan"}
  BY OwnedPlaces
<1>1. CASE tx[q].intent = "none" /\ tx[q].manifest = "none"
  <2>1. NoDirs(q) /\ Kept(q) /\ q \notin temp
    BY <1>1 DEF RootOk, TxOk
  <2> QED
    BY <1>1, <2>1 DEF Judged, Clear, NoDirs
<1>2. CASE tx[q].intent # "whole" /\ ~(tx[q].intent = "none" /\ tx[q].manifest = "none")
  BY <1>2 DEF Judged
<1>3. CASE tx[q].intent = "whole" /\ tx[q].manifest = "none"
  <2>1. CASE ~Discardable(q)
    BY <1>3, <2>1 DEF Judged, Unmanifested
  <2>2. CASE Discardable(q)
    <3>1. q \notin temp /\ By(q) = 0 /\ orphan[q] = "none"
      BY <1>o, <2>2 DEF Discardable
    <3>2. q # 0
      BY AgentConstants
    <3>3. Judged(q) = IF stage[q] = "none" THEN "rmtx" ELSE "claim"
      BY <1>3, <2>2 DEF Judged, Unmanifested
    <3> QED
      BY <1>3, <3>1, <3>2, <3>3 DEF Clear, Claims, Claimable, NoDirs, Kept
  <2> QED
    BY <2>1, <2>2
<1>4. CASE tx[q].intent = "whole" /\ tx[q].manifest = "torn"
  BY <1>4 DEF Judged
<1>5. CASE tx[q].intent = "whole" /\ tx[q].manifest = "whole"
  <2>1. CASE ~Recoverable(q)
    BY <1>5, <2>1 DEF Judged
  <2>2. CASE Recoverable(q) /\ Committed(q)
    <3>1. Judged(q) = "rmtemp"
      BY <1>5, <2>2 DEF Judged, NothingToUndo
    <3>2. q # 0 /\ pointer = q
      BY <2>2, AgentConstants DEF Committed
    <3>3. NoDirs(q) /\ Kept(q)
      BY <3>2 DEF RootOk, PointerOk, Kept
    <3> QED
      BY <3>1, <3>3 DEF Clear
  <2>3. CASE Recoverable(q) /\ ~Committed(q)
    <3>1. /\ pointer = 0 \/ RunOf[pointer] # RunOf[q]
          /\ Cardinality(Owned(q)) <= 1
          /\ \A place \in Owned(q) : Matches(q, place)
      BY <2>3 DEF Recoverable
    <3>2. \A a, b \in Owned(q) : a = b
      BY <3>1, OnePlace
    <3>3. q # 0
      BY AgentConstants
    <3>4. CASE Owned(q) = {}
      <4>1. Judged(q) = "rmtemp"
        BY <1>5, <2>3, <3>4 DEF Judged, NothingToUndo
      <4>2. NoDirs(q) /\ By(q) = 0
        BY <1>o, <3>4 DEF NoDirs
      <4> QED
        BY <4>1, <4>2, <3>3 DEF Clear, Kept
    <3>5. CASE "orphan" \in Owned(q)
      <4>1. Judged(q) = "rmrun"
        BY <1>5, <2>3, <3>5 DEF Judged, NothingToUndo
      <4>2. stage[q] = "none" /\ By(q) = 0
        BY <1>o, <3>2, <3>5
      <4> QED
        BY <1>5, <4>1, <4>2 DEF Claimed, Claimable
    <3>6. CASE Owned(q) # {} /\ "orphan" \notin Owned(q)
      <4>1. Judged(q) = "claim"
        BY <1>5, <2>3, <3>6 DEF Judged, NothingToUndo
      <4>2. orphan[q] = "none"
        BY <1>o, <3>6
      <4>3. \/ stage[q] # "none" /\ By(q) = 0
            \/ stage[q] = "none" /\ By(q) # 0
        BY <1>o, <3>2, <3>6
      <4>4. By(q) # 0 => PublishedWhole(q)
        BY <1>o, <3>1 DEF Matches, PublishedWhole
      <4> QED
        BY <1>5, <3>1, <4>1, <4>2, <4>3, <4>4 DEF Claims, Claimable
    <3> QED
      BY <3>4, <3>5, <3>6
  <2> QED
    BY <2>1, <2>2, <2>3
<1> QED
  BY <1>t, <1>1, <1>2, <1>3, <1>4, <1>5 DEF FileStates

\* What is provable asks for no review.
LEMMA NoReview ==
  ASSUME RootTypes, RootOk, NEW q \in Initializer, tx[q].exists, Provable(q)
  PROVE  Judged(q) # "review"
<1>o. /\ "stage" \in Owned(q) <=> stage[q] # "none"
      /\ "run" \in Owned(q) <=> By(q) # 0
      /\ "orphan" \in Owned(q) <=> orphan[q] # "none"
      /\ Owned(q) \subseteq {"stage", "run", "orphan"}
  BY OwnedPlaces
<1>1. CASE tx[q].intent = "none" /\ tx[q].manifest = "none"
  <2>1. NoDirs(q)
    BY <1>1 DEF RootOk, TxOk
  <2> QED
    BY <1>1, <2>1 DEF Judged, NoDirs
<1>2. CASE /\ tx[q].intent = "whole" /\ tx[q].manifest = "none"
           /\ orphan[q] = "none" /\ q \notin temp /\ By(q) = 0
  <2>1. Discardable(q)
    BY <1>o, <1>2 DEF Discardable
  <2> QED
    BY <1>2, <2>1 DEF Judged, Unmanifested
<1>3. CASE /\ tx[q].intent = "whole" /\ tx[q].manifest = "whole"
           /\ \/ stage[q] = "whole" /\ orphan[q] = "none" /\ By(q) = 0
              \/ NoDirs(q) /\ PublishedWhole(q)
              \/ stage[q] = "none" /\ orphan[q] \in {"none", "whole"} /\ By(q) = 0
  <2>0. PublishedWhole(q) => By(q) = q
    BY DEF PublishedWhole, By
  <2>1. Recoverable(q)
    <3>1. CASE Committed(q)
      <4>1. By(q) = q /\ q # 0
        BY <3>1, AgentConstants DEF RootOk, PointerOk, Committed
      <4>2. PublishedWhole(q)
        BY <4>1, <1>3
      <4> QED
        BY <3>1, <4>2 DEF Recoverable, Matches, PublishedWhole
    <3>2. CASE ~Committed(q)
      <4>1. pointer = 0 \/ RunOf[pointer] # RunOf[q]
        <5> SUFFICES ASSUME pointer # 0, RunOf[pointer] = RunOf[q] PROVE FALSE
          OBVIOUS
        <5>1. By(q) = pointer
          BY DEF RootOk, PointerOk, By
        <5> QED
          BY <5>1, <3>2, <2>0, <1>3 DEF Committed
      <4>2. \A place \in Owned(q) : Matches(q, place)
        BY <1>o, <1>3, <2>0 DEF Matches, NoDirs, PublishedWhole
      <4>3. \A a, b \in Owned(q) : a = b
        BY <1>o, <1>3, <2>0 DEF NoDirs
      <4>4. Cardinality(Owned(q)) <= 1
        BY <4>3, AtMostOne
      <4> QED
        BY <3>2, <4>1, <4>2, <4>4 DEF Recoverable
    <3> QED
      BY <3>1, <3>2
  <2> QED
    BY <1>3, <2>1 DEF Judged
<1> QED
  BY <1>1, <1>2, <1>3 DEF Provable
LEMMA RootStays ==
  ASSUME AgentInv, UNCHANGED <<disk, undone, committed>>,
         at' \in [Initializer -> HoldSteps \cup Waits \cup Ended],
         lock' \in [maker : Initializer \cup {0}, owner : Initializer \cup {0}, aged : BOOLEAN],
         cuts' \in [crashes : Nat, unproven : BOOLEAN]
  PROVE  RootTypes' /\ RootOk'
<1>1. RootTypes'
  BY DEF AgentInv, RootTypes, disk
<1>2. RootOk'
  BY DEF AgentInv, RootOk, RunsOk, PointerOk, TxOk, OneTx, NoDirs, By, Kept, disk
<1> QED
  BY <1>1, <1>2

\* A step of p about the lock, or its end.
LEMMA LockMoves ==
  ASSUME AgentInv, NEW p \in Initializer, NEW s \in HoldSteps \cup Waits \cup Ended,
         at' = [at EXCEPT ![p] = s], UNCHANGED <<disk, undone, committed>>,
         s \in HoldSteps => s = "recover",
         lock' \in [maker : Initializer \cup {0}, owner : Initializer \cup {0}, aged : BOOLEAN],
         LockOk', cuts' \in [crashes : Nat, unproven : BOOLEAN],
         ~cuts'.unproven => /\ ~cuts.unproven /\ s # "review"
                            /\ \A q \in Initializer : ~Tearing(p, q)
  PROVE  AgentInv'
<1>0. /\ at'[p] = s
      /\ \A r \in Initializer \ {p} : at'[r] = at[r]
      /\ at' \in [Initializer -> HoldSteps \cup Waits \cup Ended]
  BY DEF AgentInv, RootTypes
<1>1. RootTypes' /\ RootOk'
  BY <1>0, RootStays
<1>2. ASSUME NEW r \in Initializer PROVE Phase(r)'
  <2>1. CASE r = p
    <3>1. at'[r] \notin HoldSteps \/ at'[r] = "recover"
      BY <1>0, <2>1
    <3> QED
      BY <3>1 DEF Phase, HoldSteps
  <2>2. CASE r # p
    <3>1. Phase(r) /\ at'[r] = at[r]
      BY <1>0, <2>2 DEF AgentInv
    <3> QED
      BY <3>1 DEF Phase, NoneOpen, Fresh, File, Unpublished, Out, Claims, Claimed, Claimable,
           Clear, By, NoDirs, Kept, PublishedWhole, disk
  <2> QED
    BY <2>1, <2>2
<1>3. Explained'
  <2> SUFFICES ASSUME ~cuts'.unproven PROVE
        /\ \A q \in Initializer : tx'[q].exists => Provable(q)' \/ \E r \in Initializer : Tearing(r, q)'
        /\ \A r \in Initializer : at'[r] \notin {"stuck", "review"}
    BY DEF Explained
  <2>1. \A r \in Initializer : at'[r] \notin {"stuck", "review"}
    BY <1>0 DEF AgentInv, Explained, HoldSteps
  <2>2. ASSUME NEW q \in Initializer, tx'[q].exists
        PROVE Provable(q)' \/ \E r \in Initializer : Tearing(r, q)'
    <3>1. tx[q].exists
      BY <2>2 DEF disk
    <3>2. Provable(q) => Provable(q)'
      BY DEF Provable, By, NoDirs, PublishedWhole, disk
    <3>3. ASSUME NEW r \in Initializer, Tearing(r, q) PROVE Tearing(r, q)'
      <4>1. r # p
        BY <3>3
      <4> QED
        BY <1>0, <3>3, <4>1 DEF Tearing, disk
    <3> QED
      BY <3>1, <3>2, <3>3 DEF AgentInv, Explained
  <2> QED
    BY <2>1, <2>2
<1> QED
  BY <1>1, <1>2, <1>3 DEF AgentInv

LEMMA InitAgent ==
  ASSUME AgentInit
  PROVE  AgentInv
<1>1. RootTypes
  BY DEF AgentInit, RootTypes, Waits, DirStates, TxTypes, FileStates, RunTypes, NoTx, NoRun, NoLock
<1>2. LockOk
  BY DEF AgentInit, LockOk, NoLock, HoldSteps
<1>3. RootOk
  <2>1. \A q \in Initializer : RunOf[q] \in RunIds
    BY DEF RunIds
  <2>2. RunsOk /\ PointerOk /\ OneTx
    BY DEF AgentInit, RunsOk, PointerOk, OneTx, NoTx
  <2>3. TxOk
    BY <2>1, AgentConstants DEF AgentInit, TxOk, NoTx, NoRun, NoDirs, Kept, By
  <2> QED
    BY <2>2, <2>3 DEF RootOk
<1>4. \A p \in Initializer : Phase(p)
  BY DEF AgentInit, Phase
<1>5. Explained
  BY DEF AgentInit, Explained, NoTx
<1> QED
  BY <1>1, <1>2, <1>3, <1>4, <1>5 DEF AgentInv

LEMMA MakeLockKeeps ==
  ASSUME AgentInv, NEW p \in Initializer, MakeLock(p)
  PROVE  AgentInv'
<1>1. /\ lock = NoLock /\ lock' = [NoLock EXCEPT !.maker = p]
      /\ at[p] \in {"start", "retry"} /\ at' = [at EXCEPT ![p] = "own"]
      /\ UNCHANGED <<disk, undone, agentHistory>>
  BY DEF MakeLock, Goes
<1>2. LockOk'
  <2>1. /\ at'[p] = "own"
        /\ \A r \in Initializer \ {p} : at'[r] = at[r]
    BY <1>1 DEF AgentInv, RootTypes
  <2>2. \A r \in Initializer : at[r] \notin HoldSteps \cup {"own", "break", "lastbreak"}
    BY <1>1, AgentConstants DEF AgentInv, LockOk, NoLock
  <2>3. lock' = [maker |-> p, owner |-> 0, aged |-> FALSE]
    BY <1>1 DEF NoLock
  <2> QED
    BY <2>1, <2>2, <2>3, AgentConstants DEF LockOk, HoldSteps
<1>3. \A q \in Initializer : ~Tearing(p, q)
  BY <1>1 DEF Tearing
<1>4. lock' \in [maker : Initializer \cup {0}, owner : Initializer \cup {0}, aged : BOOLEAN]
  BY <1>1 DEF NoLock
<1>5. cuts' = cuts /\ committed' = committed /\ cuts' \in [crashes : Nat, unproven : BOOLEAN]
  BY <1>1 DEF agentHistory, AgentInv, RootTypes
<1> QED
  BY <1>1, <1>2, <1>3, <1>4, <1>5, LockMoves DEF Waits, HoldSteps

LEMMA OwnLockKeeps ==
  ASSUME AgentInv, NEW p \in Initializer, OwnLock(p)
  PROVE  AgentInv'
<1>1. /\ at[p] = "own" /\ lock.maker = p /\ lock.owner = 0
      /\ lock' = [lock EXCEPT !.owner = p] /\ at' = [at EXCEPT ![p] = "recover"]
      /\ UNCHANGED <<disk, undone, agentHistory>>
  BY AgentConstants DEF OwnLock, Goes, AgentInv, LockOk
<1>2. LockOk'
  <2>1. /\ at'[p] = "recover"
        /\ \A r \in Initializer \ {p} : at'[r] = at[r]
    BY <1>1 DEF AgentInv, RootTypes
  <2>2. \A r \in Initializer \ {p} : at[r] \notin HoldSteps \cup {"own", "break", "lastbreak"}
    BY <1>1, AgentConstants DEF AgentInv, LockOk, Ended
  <2>3. ~lock.aged
    BY <1>1 DEF AgentInv, LockOk, Ended
  <2>4. lock' = [maker |-> p, owner |-> p, aged |-> FALSE]
    BY <1>1, <2>3 DEF AgentInv, RootTypes
  <2> QED
    BY <2>1, <2>2, <2>4, AgentConstants DEF LockOk, HoldSteps
<1>3. \A q \in Initializer : ~Tearing(p, q)
  BY <1>1 DEF Tearing
<1>4. lock' \in [maker : Initializer \cup {0}, owner : Initializer \cup {0}, aged : BOOLEAN]
  BY <1>1 DEF AgentInv, RootTypes
<1>5. cuts' = cuts /\ committed' = committed /\ cuts' \in [crashes : Nat, unproven : BOOLEAN]
  BY <1>1 DEF agentHistory, AgentInv, RootTypes
<1> QED
  BY <1>1, <1>2, <1>3, <1>4, <1>5, LockMoves DEF Waits, HoldSteps

LEMMA MeetLockKeeps ==
  ASSUME AgentInv, NEW p \in Initializer, MeetLock(p)
  PROVE  AgentInv'
<1>0. PICK s \in {"failed", "break", "lastbreak"} :
        /\ at' = [at EXCEPT ![p] = s]
        /\ s # "failed" => ~LockHeld
        /\ lock # NoLock /\ at[p] \in {"start", "retry"}
        /\ UNCHANGED <<disk, lock, undone, agentHistory>>
  BY DEF MeetLock, Goes
<1>2. LockOk'
  <2>1. /\ at'[p] = s
        /\ \A r \in Initializer \ {p} : at'[r] = at[r]
    BY <1>0 DEF AgentInv, RootTypes
  <2>2. lock.maker # 0 /\ lock' = lock
    BY <1>0 DEF AgentInv, LockOk
  <2>3. s # "failed" => at[lock.maker] \in Ended
    BY <1>0, <2>2 DEF AgentInv, LockOk, LockHeld
  <2>4. \A r \in Initializer : at[r] \in Ended => at'[r] \in Ended
    BY <2>1, <1>0 DEF Ended
  <2>5. lock.maker \in Initializer
    BY <2>2 DEF AgentInv, RootTypes
  <2>6. at'[p] \in HoldSteps \cup {"own"} => FALSE
    BY <2>1 DEF HoldSteps
  <2>7. /\ lock'.maker = 0 => lock' = NoLock
        /\ lock'.owner # 0 => lock'.maker = lock'.owner
        /\ lock'.aged => lock'.owner = 0 /\ at'[lock'.maker] \in Ended
    BY <2>2, <2>4, <2>5 DEF AgentInv, LockOk
  <2>8. ASSUME NEW r \in Initializer
        PROVE /\ at'[r] \in HoldSteps => lock'.owner = r
              /\ at'[r] = "own" => lock'.maker = r /\ lock'.owner = 0
              /\ at'[r] \in {"break", "lastbreak"} => lock'.maker # 0 /\ at'[lock'.maker] \in Ended
    <3>1. CASE r = p
      BY <2>1, <2>2, <2>3, <2>4, <2>5, <2>6, <3>1
    <3>2. CASE r # p
      BY <2>1, <2>2, <2>4, <2>5, <3>2 DEF AgentInv, LockOk
    <3> QED
      BY <3>1, <3>2
  <2> QED
    BY <2>7, <2>8 DEF LockOk
<1>3. \A q \in Initializer : ~Tearing(p, q)
  BY <1>0 DEF Tearing
<1>4. lock' \in [maker : Initializer \cup {0}, owner : Initializer \cup {0}, aged : BOOLEAN]
  BY <1>0 DEF AgentInv, RootTypes
<1>5. cuts' = cuts /\ committed' = committed /\ cuts' \in [crashes : Nat, unproven : BOOLEAN]
  BY <1>0 DEF agentHistory, AgentInv, RootTypes
<1>6. s \in HoldSteps \cup Waits \cup Ended /\ s \notin HoldSteps
  BY DEF Waits, HoldSteps, Ended
<1> QED
  BY <1>0, <1>2, <1>3, <1>4, <1>5, <1>6, LockMoves
LEMMA BreakLockKeeps ==
  ASSUME AgentInv, NEW p \in Initializer, BreakLock(p), LockAssumptions
  PROVE  AgentInv'
<1>0. PICK s \in {"retry", "failed"} :
        /\ at' = [at EXCEPT ![p] = s] /\ lock' = NoLock
        /\ at[p] \in {"break", "lastbreak"}
        /\ UNCHANGED <<disk, undone, agentHistory>>
  BY DEF BreakLock, Goes
<1>2. LockOk'
  <2>1. /\ at'[p] = s
        /\ \A r \in Initializer \ {p} : at'[r] = at[r]
    BY <1>0 DEF AgentInv, RootTypes
  <2>2. lock.maker # 0 /\ at[lock.maker] \in Ended
    BY <1>0 DEF AgentInv, LockOk
  <2>3. \A r \in Initializer : at[r] \notin HoldSteps \cup {"own"}
    BY <2>2, AgentConstants DEF AgentInv, LockOk, Ended, HoldSteps
  <2>4. \A r \in Initializer \ {p} : at[r] \notin {"break", "lastbreak"}
    BY <1>0, <2>1, AgentConstants DEF LockAssumptions
  <2>5. lock' = [maker |-> 0, owner |-> 0, aged |-> FALSE]
    BY <1>0 DEF NoLock
  <2> QED
    BY <2>1, <2>3, <2>4, <2>5, AgentConstants DEF LockOk, HoldSteps, NoLock
<1>3. \A q \in Initializer : ~Tearing(p, q)
  BY <1>0 DEF Tearing
<1>4. lock' \in [maker : Initializer \cup {0}, owner : Initializer \cup {0}, aged : BOOLEAN]
  BY <1>0 DEF NoLock
<1>5. cuts' = cuts /\ committed' = committed /\ cuts' \in [crashes : Nat, unproven : BOOLEAN]
  BY <1>0 DEF agentHistory, AgentInv, RootTypes
<1>6. s \in HoldSteps \cup Waits \cup Ended /\ s \notin HoldSteps
  BY DEF Waits, HoldSteps, Ended
<1> QED
  BY <1>0, <1>2, <1>3, <1>4, <1>5, <1>6, LockMoves

LEMMA UnlockKeeps ==
  ASSUME AgentInv, NEW p \in Initializer, Unlock(p)
  PROVE  AgentInv'
<1>0. PICK s \in {"done", "failed", "review"} :
        /\ at' = [at EXCEPT ![p] = s] /\ lock' = NoLock
        /\ at[p] \in {"finish", "giveup", "stuck"}
        /\ s = "review" => at[p] = "stuck"
        /\ UNCHANGED <<disk, undone, agentHistory>>
  BY DEF Unlock, Goes
<1>a. at[p] \in HoldSteps
  BY <1>0 DEF HoldSteps
<1>2. LockOk'
  <2>1. /\ at'[p] = s
        /\ \A r \in Initializer \ {p} : at'[r] = at[r]
    BY <1>0 DEF AgentInv, RootTypes
  <2>2. /\ \A r \in Initializer \ {p} : at[r] \notin HoldSteps
        /\ \A r \in Initializer : at[r] \notin {"own", "break", "lastbreak"}
    BY <1>a, HolderAlone DEF AgentInv
  <2>5. lock' = [maker |-> 0, owner |-> 0, aged |-> FALSE]
    BY <1>0 DEF NoLock
  <2> QED
    BY <2>1, <2>2, <2>5, AgentConstants DEF LockOk, HoldSteps, NoLock
<1>3. \A q \in Initializer : ~Tearing(p, q)
  BY <1>0 DEF Tearing
<1>4. lock' \in [maker : Initializer \cup {0}, owner : Initializer \cup {0}, aged : BOOLEAN]
  BY <1>0 DEF NoLock
<1>5. cuts' = cuts /\ committed' = committed /\ cuts' \in [crashes : Nat, unproven : BOOLEAN]
  BY <1>0 DEF agentHistory, AgentInv, RootTypes
<1>6. s \in HoldSteps \cup Waits \cup Ended /\ s \notin HoldSteps
  BY DEF Waits, HoldSteps, Ended
<1>7. ~cuts.unproven => s # "review"
  BY <1>0 DEF AgentInv, Explained
<1> QED
  BY <1>0, <1>2, <1>3, <1>4, <1>5, <1>6, <1>7, LockMoves

LEMMA DieKeeps ==
  ASSUME AgentInv, NEW p \in Initializer, Die(p)
  PROVE  AgentInv'
<1>0. /\ at' = [at EXCEPT ![p] = "dead"]
      /\ at[p] \notin Ended
      /\ cuts' = [crashes |-> cuts.crashes + 1, unproven |-> cuts.unproven \/ TornAt(p)]
      /\ UNCHANGED <<disk, lock, undone, committed>>
  BY DEF Die
<1>1. LockOk'
  <2>1. /\ at'[p] = "dead"
        /\ \A r \in Initializer \ {p} : at'[r] = at[r]
    BY <1>0 DEF AgentInv, RootTypes
  <2>2. \A r \in Initializer : at[r] \in Ended => at'[r] \in Ended
    BY <2>1 DEF Ended
  <2>4. lock' = lock
    BY <1>0
  <2>5. /\ lock.aged => lock.maker \in Initializer
        /\ \A r \in Initializer : at[r] \in {"break", "lastbreak"} => lock.maker \in Initializer
    BY DEF AgentInv, LockOk, RootTypes, NoLock
  <2> QED
    BY <2>1, <2>2, <2>4, <2>5 DEF AgentInv, LockOk, HoldSteps
<1>2. cuts' \in [crashes : Nat, unproven : BOOLEAN]
  <2>1. cuts.crashes + 1 \in Nat
    BY DEF AgentInv, RootTypes
  <2> QED
    BY <1>0, <2>1 DEF AgentInv, RootTypes, TornAt
<1>3. ~cuts'.unproven => ~cuts.unproven /\ \A q \in Initializer : ~Tearing(p, q)
  BY <1>0 DEF Tearing, TornAt, Tears
<1>4. lock' \in [maker : Initializer \cup {0}, owner : Initializer \cup {0}, aged : BOOLEAN]
  BY <1>0 DEF AgentInv, RootTypes
<1>5. "dead" \in HoldSteps \cup Waits \cup Ended /\ "dead" \notin HoldSteps
  BY DEF HoldSteps, Waits, Ended
<1> QED
  BY <1>0, <1>1, <1>2, <1>3, <1>4, <1>5, LockMoves

LEMMA OnlyLockChanges ==
  ASSUME AgentInv, UNCHANGED <<at, disk, undone, committed, cuts>>, LockOk', RootTypes'
  PROVE  AgentInv'
<1>1. RootOk'
  BY DEF AgentInv, RootOk, RunsOk, PointerOk, TxOk, OneTx, NoDirs, By, Kept, disk
<1>2. Explained'
  <2>1. \A q, r \in Initializer : Tearing(r, q) => Tearing(r, q)'
    BY DEF Tearing, disk
  <2>2. \A q \in Initializer : Provable(q) => Provable(q)'
    BY DEF Provable, By, NoDirs, PublishedWhole, disk
  <2>3. cuts' = cuts /\ at' = at /\ tx' = tx
    BY DEF disk
  <2> QED
    BY <2>1, <2>2, <2>3 DEF AgentInv, Explained
<1>3. ASSUME NEW p \in Initializer PROVE Phase(p)'
  <2>1. Phase(p)
    BY DEF AgentInv
  <2> QED
    BY <2>1 DEF Phase, NoneOpen, Fresh, File, Unpublished, Out, Claims, Claimed, Claimable,
         Clear, By, NoDirs, Kept, PublishedWhole, disk
<1> QED
  BY <1>1, <1>2, <1>3 DEF AgentInv

LEMMA LockAgesKeeps ==
  ASSUME AgentInv, LockAges, LockAssumptions
  PROVE  AgentInv'
<1>1. /\ lock # NoLock /\ lock.owner = 0
      /\ lock' = [lock EXCEPT !.aged = TRUE]
      /\ UNCHANGED <<at, disk, undone, agentHistory>>
  BY DEF LockAges
<1>2. LockOk'
  <2>1. /\ lock'.aged /\ lock'.owner = 0 /\ lock'.maker = lock.maker
        /\ lock.maker # 0
    BY <1>1 DEF AgentInv, RootTypes, LockOk
  <2>2. at'[lock'.maker] \in Ended
    BY <1>1, <2>1 DEF LockAssumptions
  <2>3. lock.owner = lock'.owner
    BY <1>1, <2>1
  <2> QED
    BY <1>1, <2>1, <2>2, <2>3 DEF AgentInv, LockOk
<1>3. RootTypes'
  BY <1>1 DEF AgentInv, RootTypes, disk, agentHistory
<1>4. UNCHANGED <<at, disk, undone, committed, cuts>>
  BY <1>1 DEF agentHistory
<1> QED
  BY <1>2, <1>3, <1>4, OnlyLockChanges

LEMMA WorkKeeps ==
  ASSUME AgentInv, Work
  PROVE  AgentInv'
<1> DEFINE r0 == RunOf[pointer]
<1>1. /\ pointer \in Initializer /\ r0 \in RunIds
      /\ By(pointer) = pointer /\ run[r0].by = pointer /\ pointer # 0
      /\ run' = [run EXCEPT ![r0].state = "changed"]
      /\ UNCHANGED <<at, tx, stage, orphan, temp, pointer, lock, undone, committed>>
  BY DEF Work, AgentInv, RootTypes, RunIds, RootOk, PointerOk, By
<1>2. /\ run'[r0] = [by |-> pointer, state |-> "changed"]
      /\ \A r \in RunIds \ {r0} : run'[r] = run[r]
      /\ run' \in [RunIds -> RunTypes]
  BY <1>1 DEF AgentInv, RootTypes, RunTypes
<1>3. cuts' = [cuts EXCEPT !.unproven = @ \/ tx[pointer].exists]
  BY DEF Work, Meddles
<1>4. /\ cuts' \in [crashes : Nat, unproven : BOOLEAN]
      /\ cuts'.unproven <=> cuts.unproven \/ tx[pointer].exists
  BY <1>1, <1>3 DEF AgentInv, RootTypes, TxTypes
<1>5. ASSUME NEW q \in Initializer
      PROVE  /\ By(q)' = By(q) /\ RunOf[q] \in RunIds
             /\ PublishedWhole(q) /\ (RunOf[q] # r0 \/ q # pointer) => PublishedWhole(q)'
  <2>1. RunOf[q] \in RunIds
    BY DEF RunIds
  <2>2. By(q)' = By(q)
    <3>1. CASE RunOf[q] = r0
      BY <3>1, <1>1, <1>2 DEF By
    <3>2. CASE RunOf[q] # r0
      BY <3>2, <2>1, <1>2 DEF By
    <3> QED
      BY <3>1, <3>2
  <2>3. PublishedWhole(q) /\ (RunOf[q] # r0 \/ q # pointer) => PublishedWhole(q)'
    BY <2>1, <1>1, <1>2 DEF PublishedWhole
  <2> QED
    BY <2>1, <2>2, <2>3
<1>6. RootTypes'
  BY <1>1, <1>2, <1>4 DEF AgentInv, RootTypes
<1>7. LockOk'
  BY <1>1 DEF AgentInv, LockOk
<1>8. RootOk'
  <2>1. RunsOk'
    <3> SUFFICES ASSUME NEW r \in RunIds
                 PROVE \/ run'[r] = NoRun
                       \/ /\ run'[r].by \in Initializer /\ RunOf[run'[r].by] = r
                          /\ run'[r].state \in {"whole", "changed"}
      BY DEF RunsOk
    <3>1. CASE r = r0
      BY <3>1, <1>1, <1>2
    <3>2. CASE r # r0
      BY <3>2, <1>2 DEF AgentInv, RootOk, RunsOk
    <3> QED
      BY <3>1, <3>2
  <2>2. PointerOk'
    BY <1>1, <1>5 DEF AgentInv, RootOk, PointerOk, NoDirs
  <2>3. TxOk' /\ OneTx'
    BY <1>1, <1>5 DEF AgentInv, RootOk, TxOk, OneTx, NoDirs, Kept
  <2> QED
    BY <2>1, <2>2, <2>3 DEF RootOk
<1>9. ASSUME NEW p \in Initializer PROVE Phase(p)'
  <2>1. Phase(p)
    BY DEF AgentInv
  <2>2. at[p] \notin {"begin", "intent", "intent2", "stage", "files", "manifest", "manifest2",
                      "publish", "temp", "link"}
    BY <2>1, <1>1 DEF Phase, Fresh, Unpublished, Out
  <2>3. \A q \in Initializer : Claims(q) => Claims(q)'
    <3>1. ASSUME NEW q \in Initializer, Claims(q) PROVE Claims(q)'
      <4>1. PublishedWhole(q) => By(q) = q
        BY DEF PublishedWhole, By
      <4>2. PublishedWhole(q) => PublishedWhole(q)' \/ stage[q] # "none"
        BY <3>1, <4>1, <1>1, <1>5 DEF Claims, By
      <4> QED
        BY <3>1, <4>2, <1>1, <1>5 DEF Claims, Claimable
    <3> QED
      BY <3>1
  <2>4. \A q \in Initializer : Claimed(q) => Claimed(q)'
    BY <1>1, <1>5 DEF Claimed, Claimable
  <2>5. \A q \in Initializer : Clear(q) => Clear(q)'
    BY <1>1, <1>5 DEF Clear, Kept, NoDirs
  <2>6. \A q : Claims(q) \/ Claimed(q) \/ Clear(q) => q \in Initializer
    BY DEF Claims, Claimed, Claimable, Clear
  <2>7. NoneOpen => NoneOpen'
    BY <1>1 DEF NoneOpen
  <2> QED
    BY <1>1, <2>1, <2>2, <2>3, <2>4, <2>5, <2>6, <2>7 DEF Phase
<1>10. Explained'
  <2> SUFFICES ASSUME ~cuts'.unproven PROVE
        /\ \A q \in Initializer : tx'[q].exists => Provable(q)' \/ \E r \in Initializer : Tearing(r, q)'
        /\ \A r \in Initializer : at'[r] \notin {"stuck", "review"}
    BY DEF Explained
  <2>0. ~cuts.unproven /\ ~tx[pointer].exists
    BY <1>4
  <2>1. \A r \in Initializer : at'[r] \notin {"stuck", "review"}
    BY <1>1, <2>0 DEF AgentInv, Explained
  <2>2. ASSUME NEW q \in Initializer, tx'[q].exists
        PROVE Provable(q)' \/ \E r \in Initializer : Tearing(r, q)'
    <3>1. tx[q].exists /\ q # pointer
      BY <1>1, <2>0, <2>2
    <3>2. Provable(q) => Provable(q)'
      BY <1>1, <1>5, <3>1 DEF Provable, NoDirs
    <3>3. \A r \in Initializer : Tearing(r, q) => Tearing(r, q)'
      BY <1>1 DEF Tearing
    <3> QED
      BY <2>0, <3>1, <3>2, <3>3 DEF AgentInv, Explained
  <2> QED
    BY <2>1, <2>2
<1> QED
  BY <1>6, <1>7, <1>8, <1>9, <1>10 DEF AgentInv

LEMMA CloseRunKeeps ==
  ASSUME AgentInv, CloseRun
  PROVE  AgentInv'
<1>1. /\ pointer \in Initializer /\ pointer' = 0
      /\ UNCHANGED <<at, tx, stage, orphan, temp, run, lock, undone, committed>>
  BY DEF CloseRun, AgentInv, RootTypes
<1>3. cuts' = [cuts EXCEPT !.unproven = @ \/ tx[pointer].exists]
  BY DEF CloseRun, Meddles
<1>4. /\ cuts' \in [crashes : Nat, unproven : BOOLEAN]
      /\ cuts'.unproven <=> cuts.unproven \/ tx[pointer].exists
  BY <1>1, <1>3 DEF AgentInv, RootTypes, TxTypes
<1>6. RootTypes'
  BY <1>1, <1>4 DEF AgentInv, RootTypes
<1>7. LockOk'
  BY <1>1 DEF AgentInv, LockOk
<1>8. RootOk'
  BY <1>1 DEF AgentInv, RootOk, RunsOk, PointerOk, TxOk, OneTx, NoDirs, Kept, By
<1>9. ASSUME NEW p \in Initializer PROVE Phase(p)'
  <2>1. Phase(p)
    BY DEF AgentInv
  <2> QED
    BY <1>1, <2>1 DEF Phase, NoneOpen, Fresh, File, Unpublished, Out, Claims, Claimed, Claimable,
           Clear, By, NoDirs, Kept, PublishedWhole
<1>10. Explained'
  <2>1. \A q \in Initializer : Provable(q) => Provable(q)'
    BY <1>1 DEF Provable, By, NoDirs, PublishedWhole
  <2>2. \A q, r \in Initializer : Tearing(r, q) => Tearing(r, q)'
    BY <1>1 DEF Tearing
  <2> QED
    BY <1>1, <1>4, <2>1, <2>2 DEF AgentInv, Explained
<1> QED
  BY <1>6, <1>7, <1>8, <1>9, <1>10 DEF AgentInv
LEMMA RecoverKeeps ==
  ASSUME AgentInv, NEW p \in Initializer, Recover(p)
  PROVE  AgentInv'
<1>1. /\ at[p] = "recover" /\ at[p] \in HoldSteps
      /\ UNCHANGED <<disk, lock, agentHistory>>
  BY DEF Recover, HoldSteps, Goes
<1>2. UNCHANGED <<disk, lock, committed, cuts>>
  BY <1>1 DEF agentHistory
<1>q. \A q \in Initializer, r \in Initializer : Tearing(r, q) => r # p
  BY <1>1 DEF Tearing
<1>3. RootOk'
  BY <1>2 DEF AgentInv, RootOk, RunsOk, PointerOk, TxOk, OneTx, NoDirs, By, Kept, disk
<1>4. ASSUME NEW s \in HoldSteps, at' = [at EXCEPT ![p] = s],
             undone' \in [Initializer -> Initializer \cup {0}], Phase(p)',
             ~cuts.unproven => s # "stuck"
      PROVE  AgentInv'
  <2>1. RootTypes'
    BY <1>2, <1>4 DEF AgentInv, RootTypes, disk
  <2>2. ~cuts.unproven => \A q \in Initializer : tx'[q].exists => Provable(q)' \/ Tearing(p, q)'
    <3> SUFFICES ASSUME ~cuts.unproven, NEW q \in Initializer, tx'[q].exists PROVE Provable(q)'
      OBVIOUS
    <3>1. tx[q].exists
      BY <1>2 DEF disk
    <3>2. Provable(q)
      BY <3>1, <1>1, <1>q, HolderKnows
    <3> QED
      BY <3>2, <1>2 DEF Provable, By, NoDirs, PublishedWhole, disk
  <2> QED
    BY <1>1, <1>2, <1>3, <1>4, <2>1, <2>2, HolderMoves
<1>5. CASE Transactions = {}
  <2>1. at' = [at EXCEPT ![p] = "check"] /\ undone' = undone
    BY <1>5 DEF Recover, Goes
  <2>2. Phase(p)'
    <3>1. at'[p] = "check"
      BY <2>1 DEF AgentInv, RootTypes
    <3>2. NoneOpen'
      BY <1>5, <1>2 DEF NoneOpen, Transactions, disk
    <3> QED
      BY <3>1, <3>2 DEF Phase
  <2>3. "check" \in HoldSteps /\ undone' \in [Initializer -> Initializer \cup {0}]
    BY <2>1 DEF HoldSteps, AgentInv, RootTypes
  <2> QED
    BY <2>1, <2>2, <2>3, <1>4
<1>6. CASE Transactions # {}
  <2>1. PICK q \in Initializer : tx[q].exists
    BY <1>6 DEF Transactions
  <2>2. Transactions = {q}
    BY <2>1 DEF Transactions, AgentInv, RootOk, OneTx
  <2>3. Cardinality(Transactions) = 1
    BY <2>2, FS_Singleton
  <2> DEFINE s == IF Judged(q) = "review" THEN "stuck" ELSE Judged(q)
  <2>4. at' = [at EXCEPT ![p] = s] /\ undone' = [undone EXCEPT ![p] = q]
    BY <1>6, <2>2, <2>3 DEF Recover, Goes
  <2>5. /\ at'[p] = s /\ undone'[p] = q
        /\ undone' \in [Initializer -> Initializer \cup {0}]
    BY <2>4 DEF AgentInv, RootTypes
  <2>j. /\ Judged(q) \in {"review", "rmtx", "claim", "rmtemp", "rmrun"}
        /\ Judged(q) = "rmtx" => Clear(q) /\ q \notin temp
        /\ Judged(q) = "rmtemp" => Clear(q)
        /\ Judged(q) = "rmrun" => Claimed(q) /\ tx[q].manifest = "whole"
        /\ Judged(q) = "claim" => Claims(q)
    BY <2>1, JudgedRight DEF AgentInv
  <2>6. s \in {"stuck", "rmtx", "claim", "rmtemp", "rmrun"}
    BY <2>j
  <2>7. Phase(p)'
    <3>1. /\ Clear(q) => Clear(q)'
          /\ Claimed(q) => Claimed(q)'
          /\ Claims(q) => Claims(q)'
          /\ temp' = temp
      BY <1>2 DEF Clear, Claimed, Claims, Claimable, NoDirs, Kept, By, PublishedWhole, disk
    <3>2. /\ s = "rmtx" => Clear(q)' /\ q \notin temp'
          /\ s = "rmtemp" => Clear(q)'
          /\ s = "rmrun" => Claimed(q)'
          /\ s = "claim" => Claims(q)'
      BY <2>j, <3>1
    <3> HIDE DEF s
    <3> QED
      BY <2>5, <2>6, <3>2 DEF Phase, Clear, Claimed, Claims, Claimable, NoDirs, Kept, By, PublishedWhole
  <2>8. ~cuts.unproven => s # "stuck"
    <3> SUFFICES ASSUME ~cuts.unproven PROVE s # "stuck"
      OBVIOUS
    <3>1. Provable(q)
      BY <2>1, <1>1, <1>q, HolderKnows
    <3>2. Judged(q) # "review"
      BY <3>1, <2>1, NoReview DEF AgentInv
    <3> QED
      BY <3>2, <2>j
  <2>9. s \in HoldSteps
    BY <2>6 DEF HoldSteps
  <2> HIDE DEF s
  <2> QED
    BY <2>4, <2>5, <2>7, <2>8, <2>9, <1>4
<1> QED
  BY <1>5, <1>6

LEMMA CheckKeeps ==
  ASSUME AgentInv, NEW p \in Initializer, Check(p)
  PROVE  AgentInv'
<1> DEFINE s == IF run[RunOf[p]].by # 0 \/ pointer # 0 THEN "giveup" ELSE "begin"
<1>1. /\ at[p] = "check" /\ at[p] \in HoldSteps /\ at' = [at EXCEPT ![p] = s]
      /\ UNCHANGED <<disk, lock, undone, committed, cuts>>
  BY DEF Check, HoldSteps, Goes, agentHistory
<1>2. RootTypes' /\ s \in HoldSteps /\ at'[p] = s
  BY <1>1 DEF AgentInv, RootTypes, HoldSteps, disk
<1>3. RootOk'
  BY <1>1 DEF AgentInv, RootOk, RunsOk, PointerOk, TxOk, OneTx, NoDirs, By, Kept, disk
<1>4. NoneOpen'
  BY <1>1 DEF AgentInv, Phase, NoneOpen, disk
<1>5. s = "begin" => Fresh(p)'
  BY <1>1 DEF Fresh, By, disk
<1>6. s \in {"begin", "giveup"} /\ s # "stuck"
  OBVIOUS
<1> HIDE DEF s
<1>7. Phase(p)'
  BY <1>2, <1>4, <1>5, <1>6 DEF Phase, NoneOpen, Fresh, By
<1>8. \A q \in Initializer : tx'[q].exists => Provable(q)' \/ Tearing(p, q)'
  BY <1>4 DEF NoneOpen
<1>9. lock' = lock /\ cuts' = cuts
  BY <1>1
<1> QED
  BY <1>1, <1>2, <1>3, <1>6, <1>7, <1>8, <1>9, HolderMoves
\* Only one transaction is open.
LEMMA OnlyOpen ==
  ASSUME AgentInv, NEW q \in Initializer, tx[q].exists
  PROVE  \A r \in Initializer \ {q} : ~tx[r].exists /\ tx[r] = NoTx
  BY DEF AgentInv, RootOk, OneTx, TxOk

LEMMA ClaimRunKeeps ==
  ASSUME AgentInv, NEW p \in Initializer, Claim(p)
  PROVE  AgentInv'
<1>0. at[p] = "claim" /\ Claims(undone[p]) /\ undone[p] \in Initializer
  BY DEF Claim, AgentInv, Phase, Claims, Claimable
<1>q. PICK q \in Initializer : q = undone[p]
  BY <1>0
<1> DEFINE r0 == RunOf[q]
<1>1. /\ at[p] = "claim" /\ at[p] \in HoldSteps /\ at' = [at EXCEPT ![p] = "rmrun"]
      /\ orphan' = [orphan EXCEPT ![q] = IF stage[q] # "none" THEN stage[q] ELSE run[r0].state]
      /\ stage' = [stage EXCEPT ![q] = "none"]
      /\ run' = IF stage[q] # "none" THEN run ELSE [run EXCEPT ![r0] = NoRun]
      /\ UNCHANGED <<tx, temp, pointer, lock, undone, committed, cuts>>
  BY <1>q DEF Claim, HoldSteps, Goes, agentHistory
<1>2. Claims(q)
  BY <1>0, <1>q
<1>3. q \in Initializer /\ tx[q].exists /\ r0 \in RunIds /\ q # 0
  BY <1>2, AgentConstants DEF Claims, Claimable, RunIds
<1>4. /\ \A r \in Initializer \ {q} : orphan'[r] = orphan[r] /\ stage'[r] = stage[r]
      /\ stage'[q] = "none"
      /\ orphan'[q] = IF stage[q] # "none" THEN stage[q] ELSE run[r0].state
      /\ at'[p] = "rmrun"
  BY <1>1, <1>3 DEF AgentInv, RootTypes
<1>5. /\ \A r \in RunIds \ {r0} : run'[r] = run[r]
      /\ stage[q] # "none" => run' = run /\ run[r0].by = 0
      /\ stage[q] = "none" => /\ run'[r0] = NoRun
                              /\ PublishedWhole(q)
                              /\ pointer = 0 \/ RunOf[pointer] # r0
  BY <1>1, <1>2, <1>3 DEF AgentInv, RootTypes, Claims, By, PublishedWhole
<1>6. run'[r0].by = 0
  BY <1>5 DEF NoRun
<1>h. \A r \in Initializer : RunOf[r] \in RunIds
  BY DEF RunIds
<1>7. RootTypes'
  <2>1. run[r0].state \in DirStates
    BY <1>3 DEF AgentInv, RootTypes, RunTypes, DirStates
  <2>2. /\ orphan' \in [Initializer -> DirStates] /\ stage' \in [Initializer -> DirStates]
        /\ at' \in [Initializer -> HoldSteps \cup Waits \cup Ended]
    BY <1>1, <1>3, <2>1 DEF AgentInv, RootTypes, DirStates, HoldSteps
  <2>3. run' \in [RunIds -> RunTypes]
    BY <1>1, <1>3 DEF AgentInv, RootTypes, RunTypes, NoRun
  <2> QED
    BY <1>1, <2>2, <2>3 DEF AgentInv, RootTypes
<1> HIDE DEF r0
<1>8. RootOk'
  <2>1. RunsOk'
    BY <1>5, <1>3 DEF AgentInv, RootOk, RunsOk
  <2>2. PointerOk'
    <3> SUFFICES ASSUME pointer' # 0
                 PROVE pointer' \in committed' /\ By(pointer)' = pointer' /\ NoDirs(pointer)'
      BY DEF PointerOk
    <3>1. pointer' = pointer /\ pointer # 0 /\ pointer \in Initializer /\ committed' = committed
      BY <1>1 DEF AgentInv, RootTypes
    <3>2. pointer \in committed /\ By(pointer) = pointer /\ NoDirs(pointer)
      BY <3>1 DEF AgentInv, RootOk, PointerOk
    <3>3. pointer # q
      BY <1>2, <3>1, <3>2, <1>5 DEF NoDirs, r0
    <3>4. run'[RunOf[pointer]] = run[RunOf[pointer]]
      BY <1>5, <1>h, <3>1 DEF r0
    <3> QED
      BY <1>4, <3>1, <3>2, <3>3, <3>4 DEF By, NoDirs
  <2>3. TxOk'
    <3> SUFFICES ASSUME NEW r \in Initializer
                 PROVE /\ ~tx'[r].exists => tx'[r] = NoTx
                       /\ (tx'[r].intent = "none" /\ tx'[r].manifest = "none")
                            => NoDirs(r)' /\ Kept(r)' /\ r \notin temp'
      BY DEF TxOk
    <3>1. tx' = tx /\ temp' = temp /\ committed' = committed
      BY <1>1
    <3>2. CASE r = q
      BY <1>2, <1>3, <3>1, <3>2 DEF Claims, Claimable
    <3>3. CASE r # q
      <4>1. Kept(r) => Kept(r)'
        BY <1>5, <1>6, <1>h, <3>1, AgentConstants DEF Kept, By
      <4>2. NoDirs(r) => NoDirs(r)'
        BY <1>4, <3>3 DEF NoDirs
      <4> QED
        BY <3>1, <4>1, <4>2 DEF AgentInv, RootOk, TxOk
    <3> QED
      BY <3>2, <3>3
  <2>4. OneTx'
    BY <1>1 DEF AgentInv, RootOk, OneTx
  <2> QED
    BY <2>1, <2>2, <2>3, <2>4 DEF RootOk
<1>9. Claimed(q)' /\ undone'[p] = q
  BY <1>q, <1>1, <1>2, <1>3, <1>4, <1>6 DEF Claims, Claimed, Claimable, By, r0
<1>10. Phase(p)'
  BY <1>4, <1>9 DEF Phase, Claimed, Claimable, By
<1>11. ~cuts.unproven => \A r \in Initializer : tx'[r].exists => Provable(r)' \/ Tearing(p, r)'
  <2> SUFFICES ASSUME ~cuts.unproven PROVE Provable(q)' \/ Tearing(p, q)'
    BY <1>1, <1>3, OnlyOpen
  <2>1. Provable(q)
    BY <1>1, <1>3, HolderKnows, AgentConstants DEF Tearing
  <2>2. CASE tx[q].manifest = "none"
    BY <1>1, <1>4, <1>9, <2>2 DEF Tearing
  <2>3. CASE tx[q].manifest = "whole"
    <3>1. tx[q].intent = "whole"
      BY <1>2 DEF Claims, Claimable
    <3>2. orphan'[q] = "whole"
      BY <1>2, <1>4, <1>5, <2>1, <2>3, <3>1 DEF Provable, NoDirs, PublishedWhole, r0
    <3> QED
      BY <1>1, <1>4, <1>6, <2>3, <3>1, <3>2 DEF Provable, By, r0
  <2> QED
    BY <1>2, <2>2, <2>3 DEF Claims, Claimable
<1>12. "rmrun" \in HoldSteps /\ UNCHANGED <<lock, cuts>>
  BY <1>1 DEF HoldSteps
<1> QED
  BY <1>1, <1>7, <1>8, <1>10, <1>11, <1>12, HolderMoves

LEMMA RemoveRunKeeps ==
  ASSUME AgentInv, NEW p \in Initializer, RemoveRun(p)
  PROVE  AgentInv'
<1>0. at[p] \in {"rmrun", "rmrun2"} /\ Claimed(undone[p]) /\ undone[p] \in Initializer
  BY DEF RemoveRun, Goes, AgentInv, Phase, Claimed, Claimable
<1>q. PICK q \in Initializer : q = undone[p]
  BY <1>0
<1>1. PICK s \in {"rmrun2", "rmtemp"}, d \in {"partial", "none"} :
        /\ s = "rmtemp" <=> d = "none"
        /\ at[p] \in {"rmrun", "rmrun2"} /\ at' = [at EXCEPT ![p] = s]
        /\ orphan' = [orphan EXCEPT ![q] = d]
        /\ UNCHANGED <<tx, stage, temp, run, pointer, lock, undone, committed, cuts>>
  BY <1>q DEF RemoveRun, Goes, agentHistory
<1>2. Claimed(q) /\ at[p] \in HoldSteps /\ s \in HoldSteps
  BY <1>0, <1>q, <1>1 DEF HoldSteps
<1>3. q \in Initializer /\ tx[q].exists /\ q # 0
  BY <1>2, AgentConstants DEF Claimed, Claimable
<1>4. /\ \A r \in Initializer \ {q} : orphan'[r] = orphan[r]
      /\ orphan'[q] = d /\ at'[p] = s /\ undone'[p] = q
  BY <1>q, <1>1, <1>3 DEF AgentInv, RootTypes
<1>7. RootTypes'
  BY <1>1, <1>2, <1>3 DEF AgentInv, RootTypes, DirStates
<1>8. RootOk'
  <2>1. RunsOk' /\ OneTx'
    BY <1>1 DEF AgentInv, RootOk, RunsOk, OneTx
  <2>2. PointerOk'
    <3>1. pointer # 0 => pointer # q /\ pointer \in Initializer
      BY <1>2, <1>3 DEF AgentInv, RootOk, RootTypes, PointerOk, Claimed
    <3> QED
      BY <1>1, <1>4, <3>1 DEF AgentInv, RootOk, PointerOk, By, NoDirs
  <2>3. TxOk'
    BY <1>1, <1>2, <1>4 DEF AgentInv, RootOk, TxOk, NoDirs, Kept, By, Claimed, Claimable
  <2> QED
    BY <2>1, <2>2, <2>3 DEF RootOk
<1>9. Claimed(q)'
  BY <1>1, <1>2 DEF Claimed, Claimable, By
<1>10. s = "rmtemp" => Clear(q)'
  BY <1>1, <1>2, <1>3, <1>4 DEF Clear, NoDirs, Kept, Claimed, By
<1>11. Phase(p)'
  BY <1>1, <1>4, <1>9, <1>10 DEF Phase
<1>12. ~cuts.unproven => \A r \in Initializer : tx'[r].exists => Provable(r)' \/ Tearing(p, r)'
  <2> SUFFICES ASSUME TRUE PROVE Provable(q)' \/ Tearing(p, q)'
    BY <1>1, <1>3, OnlyOpen
  <2>1. CASE s = "rmrun2"
    BY <1>4, <2>1 DEF Tearing
  <2>2. CASE s = "rmtemp"
    BY <1>1, <1>4, <1>9, <2>2 DEF Provable, Claimed, Claimable, NoDirs
  <2> QED
    BY <2>1, <2>2, <1>1
<1>13. lock' = lock /\ cuts' = cuts /\ s # "stuck"
  BY <1>1
<1> QED
  BY <1>1, <1>2, <1>7, <1>8, <1>11, <1>12, <1>13, HolderMoves
LEMMA RemoveTempKeeps ==
  ASSUME AgentInv, NEW p \in Initializer, RemoveTemp(p)
  PROVE  AgentInv'
<1>0. at[p] = "rmtemp" /\ Clear(undone[p]) /\ undone[p] \in Initializer
  BY DEF RemoveTemp, Goes, AgentInv, Phase, Clear
<1>q. PICK q \in Initializer : q = undone[p]
  BY <1>0
<1>1. /\ at[p] \in HoldSteps /\ at' = [at EXCEPT ![p] = "rmtx"]
      /\ temp' = temp \ {q}
      /\ UNCHANGED <<tx, stage, orphan, run, pointer, lock, undone, committed, cuts>>
  BY <1>0, <1>q DEF RemoveTemp, HoldSteps, Goes, agentHistory
<1>2. Clear(q) /\ tx[q].exists
  BY <1>0, <1>q DEF Clear
<1>3. at'[p] = "rmtx" /\ undone'[p] = q /\ "rmtx" \in HoldSteps
  BY <1>q, <1>1 DEF AgentInv, RootTypes, HoldSteps
<1>4. RootTypes'
  BY <1>1, <1>3 DEF AgentInv, RootTypes
<1>5. RootOk'
  BY <1>1 DEF AgentInv, RootOk, RunsOk, PointerOk, TxOk, OneTx, NoDirs, Kept, By
<1>6. Clear(q)'
  BY <1>1, <1>2 DEF Clear, NoDirs, Kept, By
<1>7. Phase(p)'
  BY <1>1, <1>3, <1>6 DEF Phase
<1>8. \A r \in Initializer : tx'[r].exists => Provable(r)' \/ Tearing(p, r)'
  <2>1. Tearing(p, q)'
    BY <1>3 DEF Tearing
  <2> QED
    BY <1>1, <1>2, <2>1, OnlyOpen
<1>9. lock' = lock /\ cuts' = cuts
  BY <1>1
<1> QED
  BY <1>1, <1>3, <1>4, <1>5, <1>7, <1>8, <1>9, HolderMoves

LEMMA RemoveTxKeeps ==
  ASSUME AgentInv, NEW p \in Initializer, RemoveTx(p)
  PROVE  AgentInv'
<1>0. /\ at[p] = "rmtx" /\ Clear(undone[p]) /\ undone[p] \notin temp
      /\ undone[p] \in Initializer /\ at[p] \in HoldSteps
  BY DEF RemoveTx, AgentInv, Phase, Clear, HoldSteps
<1>q. PICK q \in Initializer : q = undone[p]
  BY <1>0
<1>2. Clear(q) /\ tx[q].exists /\ q \notin temp
  BY <1>0, <1>q DEF Clear
<1>1. UNCHANGED <<stage, orphan, temp, run, pointer, lock, undone, committed, cuts>>
  BY DEF RemoveTx, agentHistory
<1>3. ASSUME NEW x \in TxTypes, tx' = [tx EXCEPT ![q] = x], ~x.exists => x = NoTx
      PROVE  /\ tx' \in [Initializer -> TxTypes] /\ tx'[q] = x
             /\ \A r \in Initializer \ {q} : tx'[r] = tx[r] /\ ~tx'[r].exists
             /\ RootOk' /\ Clear(q) /\ (x.exists => Clear(q)')
  <2>1. /\ tx' \in [Initializer -> TxTypes] /\ tx'[q] = x
        /\ \A r \in Initializer \ {q} : tx'[r] = tx[r]
    BY <1>3 DEF AgentInv, RootTypes
  <2>2. \A r \in Initializer \ {q} : ~tx'[r].exists
    BY <1>2, <2>1, OnlyOpen
  <2>3. RunsOk' /\ PointerOk'
    BY <1>1 DEF AgentInv, RootOk, RunsOk, PointerOk, NoDirs, By
  <2>4. TxOk'
    <3> SUFFICES ASSUME NEW r \in Initializer
                 PROVE /\ ~tx'[r].exists => tx'[r] = NoTx
                       /\ (tx'[r].intent = "none" /\ tx'[r].manifest = "none")
                            => NoDirs(r)' /\ Kept(r)' /\ r \notin temp'
      BY DEF TxOk
    <3>1. CASE r = q
      BY <1>1, <1>2, <1>3, <2>1, <3>1 DEF Clear, NoDirs, Kept, By
    <3>2. CASE r # q
      BY <1>1, <2>1, <3>2 DEF AgentInv, RootOk, TxOk, NoDirs, Kept, By
    <3> QED
      BY <3>1, <3>2
  <2>5. OneTx'
    BY <2>2 DEF OneTx
  <2>6. x.exists => Clear(q)'
    BY <1>1, <1>2, <2>1 DEF Clear, NoDirs, Kept, By
  <2> QED
    BY <1>2, <2>1, <2>2, <2>3, <2>4, <2>5, <2>6 DEF RootOk
<1>4. CASE \E file \in {"intent", "manifest"} :
             tx[q][file] # "none" /\ Writes(q, file, "none") /\ UNCHANGED at
  <2>1. PICK file \in {"intent", "manifest"} : Writes(q, file, "none") /\ at' = at
    BY <1>4
  <2> DEFINE x == [tx[q] EXCEPT ![file] = "none"]
  <2>2. x \in TxTypes /\ x.exists /\ tx' = [tx EXCEPT ![q] = x]
    <3>1. tx[q] \in TxTypes
      BY DEF AgentInv, RootTypes
    <3>2. CASE file = "intent"
      BY <1>2, <2>1, <3>1, <3>2 DEF TxTypes, FileStates, Writes
    <3>3. CASE file = "manifest"
      BY <1>2, <2>1, <3>1, <3>3 DEF TxTypes, FileStates, Writes
    <3> QED
      BY <3>2, <3>3
  <2> HIDE DEF x
  <2>3. /\ tx' \in [Initializer -> TxTypes]
        /\ \A r \in Initializer \ {q} : ~tx'[r].exists
        /\ RootOk' /\ Clear(q)'
    BY <1>3, <2>2
  <2>4. at' = [at EXCEPT ![p] = "rmtx"] /\ at'[p] = "rmtx"
    BY <1>0, <2>1 DEF AgentInv, RootTypes
  <2>5. RootTypes'
    BY <1>1, <2>1, <2>3 DEF AgentInv, RootTypes
  <2>6. Phase(p)'
    BY <1>1, <1>2, <1>q, <2>3, <2>4 DEF Phase
  <2>7. \A r \in Initializer : tx'[r].exists => Provable(r)' \/ Tearing(p, r)'
    <3>1. Tearing(p, q)'
      BY <1>1, <1>q, <2>4 DEF Tearing
    <3> QED
      BY <2>3, <3>1
  <2>8. lock' = lock /\ cuts' = cuts
    BY <1>1
  <2> QED
    BY <1>0, <2>3, <2>4, <2>5, <2>6, <2>7, <2>8, HolderMoves
<1>5. CASE /\ tx' = [tx EXCEPT ![q] = NoTx]
           /\ \E s \in {"check", "finish", "giveup"} : at' = [at EXCEPT ![p] = s]
  <2>1. PICK s \in {"check", "finish", "giveup"} : at' = [at EXCEPT ![p] = s]
    BY <1>5
  <2>2. NoTx \in TxTypes /\ ~NoTx.exists /\ s \in HoldSteps /\ s # "stuck"
    BY DEF NoTx, TxTypes, FileStates, HoldSteps
  <2>3. /\ tx' \in [Initializer -> TxTypes] /\ tx'[q] = NoTx
        /\ \A r \in Initializer \ {q} : ~tx'[r].exists
        /\ RootOk'
    BY <1>3, <1>5, <2>2
  <2>4. at'[p] = s
    BY <2>1 DEF AgentInv, RootTypes
  <2>5. RootTypes'
    BY <1>1, <2>1, <2>2, <2>3 DEF AgentInv, RootTypes
  <2>6. \A r \in Initializer : ~tx'[r].exists
    BY <2>2, <2>3
  <2>7. Phase(p)'
    BY <2>1, <2>4, <2>6 DEF Phase, NoneOpen
  <2>8. lock' = lock /\ cuts' = cuts
    BY <1>1
  <2> QED
    BY <1>0, <2>1, <2>2, <2>3, <2>5, <2>6, <2>7, <2>8, HolderMoves
<1> QED
  BY <1>q, <1>4, <1>5 DEF RemoveTx, Goes
\* A process writes its own transaction directory.
LEMMA TxWritten ==
  ASSUME AgentInv, NEW p \in Initializer, at[p] \in HoldSteps,
         NEW s \in HoldSteps, at' = [at EXCEPT ![p] = s], s # "stuck",
         NEW x \in TxTypes, tx' = [tx EXCEPT ![p] = x], x.exists,
         NoneOpen \/ tx[p].exists, stage[p] = "whole" \/ NoDirs(p), Unpublished(p, stage[p]),
         x.intent = "none" => NoDirs(p),
         UNCHANGED <<stage, orphan, temp, run, pointer, lock, undone, committed, cuts>>,
         Phase(p)', Provable(p)' \/ Tearing(p, p)'
  PROVE  AgentInv'
<1>1. /\ tx'[p] = x
      /\ \A r \in Initializer \ {p} : tx'[r] = tx[r] /\ ~tx[r].exists
  BY OnlyOpen DEF AgentInv, RootTypes, NoneOpen
<1>2. RootTypes'
  BY DEF AgentInv, RootTypes
<1>3. RootOk'
  <2>1. RunsOk' /\ PointerOk'
    BY DEF AgentInv, RootOk, RunsOk, PointerOk, By, NoDirs
  <2>2. OneTx'
    BY <1>1 DEF OneTx
  <2>3. TxOk'
    <3> SUFFICES ASSUME NEW r \in Initializer
                 PROVE /\ ~tx'[r].exists => tx'[r] = NoTx
                       /\ (tx'[r].intent = "none" /\ tx'[r].manifest = "none")
                            => NoDirs(r)' /\ Kept(r)' /\ r \notin temp'
      BY DEF TxOk
    <3>1. CASE r = p
      BY <1>1, <3>1, AgentConstants DEF NoDirs, Unpublished, Fresh, By, Kept
    <3>2. CASE r # p
      BY <1>1, <3>2 DEF AgentInv, RootOk, TxOk, NoDirs, Kept, By
    <3> QED
      BY <3>1, <3>2
  <2> QED
    BY <2>1, <2>2, <2>3 DEF RootOk
<1>4. \A q \in Initializer : tx'[q].exists => Provable(q)' \/ Tearing(p, q)'
  BY <1>1
<1> QED
  BY <1>2, <1>3, <1>4, HolderMoves

\* A transaction is its three fields.
LEMMA TxFields ==
  ASSUME NEW r \in TxTypes, NEW x \in TxTypes,
         r.exists = x.exists, r.intent = x.intent, r.manifest = x.manifest
  PROVE  r = x
  BY DEF TxTypes

LEMMA MakeTxKeeps ==
  ASSUME AgentInv, NEW p \in Initializer, MakeTx(p)
  PROVE  AgentInv'
<1>1. /\ at[p] = "begin" /\ at[p] \in HoldSteps /\ at' = [at EXCEPT ![p] = "intent"]
      /\ tx' = [tx EXCEPT ![p] = NewTx]
      /\ UNCHANGED <<stage, orphan, temp, run, pointer, lock, undone, committed, cuts>>
  BY DEF MakeTx, RunStays, agentHistory, Goes, HoldSteps
<1>2. NoneOpen /\ Fresh(p)
  BY <1>1 DEF AgentInv, Phase
<1>3. NewTx = [exists |-> TRUE, intent |-> "none", manifest |-> "none"]
  <2> DEFINE y == [exists |-> TRUE, intent |-> "none", manifest |-> "none"]
  <2>1. NoTx \in TxTypes /\ y \in TxTypes /\ NoTx.intent = "none" /\ NoTx.manifest = "none"
    BY DEF NoTx, TxTypes, FileStates
  <2>2. /\ NewTx \in TxTypes /\ NewTx.exists = TRUE
        /\ NewTx.intent = "none" /\ NewTx.manifest = "none"
    BY <2>1 DEF NewTx, TxTypes
  <2>3. y.exists = TRUE /\ y.intent = "none" /\ y.manifest = "none"
    OBVIOUS
  <2> HIDE DEF y
  <2>4. NewTx = y
    BY <2>1, <2>2, <2>3, TxFields
  <2> QED
    BY <2>4 DEF y
<1>4. NewTx \in TxTypes /\ NewTx.exists
  BY <1>3 DEF TxTypes, FileStates
<1>5. tx[p] = NoTx /\ NoDirs(p) /\ p \notin temp
  BY <1>2 DEF AgentInv, RootOk, TxOk, NoneOpen, NoTx
<1>6. Unpublished(p, stage[p])
  BY <1>2, <1>5 DEF Unpublished, NoDirs
<1>7. at'[p] = "intent" /\ tx'[p] = NewTx /\ "intent" \in HoldSteps
  BY <1>1 DEF AgentInv, RootTypes, HoldSteps
<1>8. Phase(p)'
  BY <1>1, <1>2, <1>3, <1>7 DEF Phase, File, Fresh, By
<1>9. Provable(p)'
  BY <1>3, <1>7 DEF Provable
<1> QED
  BY <1>1, <1>2, <1>4, <1>5, <1>6, <1>7, <1>8, <1>9, TxWritten

LEMMA WriteIntentKeeps ==
  ASSUME AgentInv, NEW p \in Initializer, WriteIntent(p)
  PROVE  AgentInv'
<1>1. PICK s \in {"intent2", "stage"}, v \in {"torn", "whole"} :
        /\ s = "stage" <=> v = "whole"
        /\ at[p] = IF s = "stage" THEN "intent2" ELSE "intent"
        /\ at' = [at EXCEPT ![p] = s]
        /\ Writes(p, "intent", v)
        /\ UNCHANGED <<stage, orphan, temp, run, pointer, lock, undone, committed, cuts>>
  BY DEF WriteIntent, RunStays, agentHistory, Goes
<1>2. at[p] \in HoldSteps /\ s \in HoldSteps /\ s # "stuck"
  BY <1>1 DEF HoldSteps
<1>3. tx[p].exists /\ tx[p].manifest = "none" /\ Fresh(p) /\ NoDirs(p) /\ p \notin temp
  <2>1. CASE s = "stage"
    BY <1>1, <2>1 DEF AgentInv, Phase, File, Unpublished, NoDirs
  <2>2. CASE s = "intent2"
    BY <1>1, <2>2 DEF AgentInv, Phase, File, RootOk, TxOk
  <2> QED
    BY <2>1, <2>2
<1> DEFINE x == [exists |-> TRUE, intent |-> v, manifest |-> "none"]
<1>4. tx' = [tx EXCEPT ![p] = x] /\ x \in TxTypes /\ x.exists /\ x.intent # "none"
  <2>1. tx[p] \in TxTypes
    BY DEF AgentInv, RootTypes
  <2>2. /\ x \in TxTypes /\ x.exists = TRUE
        /\ x.intent = v /\ x.manifest = "none" /\ x.intent # "none"
    BY <1>1 DEF TxTypes, FileStates
  <2> DEFINE y == [tx[p] EXCEPT !.intent = v]
  <2>3. /\ y \in TxTypes /\ y.exists = TRUE
        /\ y.intent = v /\ y.manifest = "none"
    BY <1>1, <1>3, <2>1 DEF TxTypes, FileStates
  <2>4. tx' = [tx EXCEPT ![p] = y]
    BY <1>1 DEF Writes
  <2> HIDE DEF x, y
  <2>5. x = y
    BY <2>2, <2>3, TxFields
  <2> QED
    BY <2>2, <2>4, <2>5
<1>5. at'[p] = s /\ tx'[p] = x
  BY <1>1, <1>4 DEF AgentInv, RootTypes
<1>6. Phase(p)'
  BY <1>1, <1>3, <1>5 DEF Phase, File, Unpublished, NoDirs, Fresh, By
<1>7. Provable(p)' \/ Tearing(p, p)'
  BY <1>1, <1>3, <1>5 DEF Provable, Tearing, NoDirs, Fresh, By
<1>8. Unpublished(p, stage[p])
  BY <1>3 DEF Unpublished, NoDirs
<1> HIDE DEF x
<1> QED
  BY <1>1, <1>2, <1>3, <1>4, <1>6, <1>7, <1>8, TxWritten

LEMMA WriteManifestKeeps ==
  ASSUME AgentInv, NEW p \in Initializer, WriteManifest(p)
  PROVE  AgentInv'
<1>1. PICK s \in {"manifest2", "publish"}, v \in {"torn", "whole"} :
        /\ s = "publish" <=> v = "whole"
        /\ at[p] = IF s = "publish" THEN "manifest2" ELSE "manifest"
        /\ at' = [at EXCEPT ![p] = s]
        /\ Writes(p, "manifest", v)
        /\ UNCHANGED <<stage, orphan, temp, run, pointer, lock, undone, committed, cuts>>
  BY DEF WriteManifest, RunStays, agentHistory, Goes
<1>2. at[p] \in HoldSteps /\ s \in HoldSteps /\ s # "stuck"
  BY <1>1 DEF HoldSteps
<1>3. /\ tx[p].exists /\ tx[p].intent = "whole"
      /\ Unpublished(p, "whole") /\ stage[p] = "whole"
  BY <1>1 DEF AgentInv, Phase, File, Unpublished
<1> DEFINE x == [exists |-> TRUE, intent |-> "whole", manifest |-> v]
<1>4. tx' = [tx EXCEPT ![p] = x] /\ x \in TxTypes /\ x.exists /\ x.intent # "none"
  <2>1. tx[p] \in TxTypes
    BY DEF AgentInv, RootTypes
  <2>2. /\ x \in TxTypes /\ x.exists = TRUE
        /\ x.intent = "whole" /\ x.manifest = v /\ x.intent # "none"
    BY <1>1 DEF TxTypes, FileStates
  <2> DEFINE y == [tx[p] EXCEPT !.manifest = v]
  <2>3. /\ y \in TxTypes /\ y.exists = TRUE
        /\ y.intent = "whole" /\ y.manifest = v
    BY <1>1, <1>3, <2>1 DEF TxTypes, FileStates
  <2>4. tx' = [tx EXCEPT ![p] = y]
    BY <1>1 DEF Writes
  <2> HIDE DEF x, y
  <2>5. x = y
    BY <2>2, <2>3, TxFields
  <2> QED
    BY <2>2, <2>4, <2>5
<1>5. at'[p] = s /\ tx'[p] = x
  BY <1>1, <1>4 DEF AgentInv, RootTypes
<1>6. Phase(p)'
  BY <1>1, <1>3, <1>5 DEF Phase, File, Unpublished, Fresh, By
<1>7. Provable(p)' \/ Tearing(p, p)'
  BY <1>1, <1>3, <1>5 DEF Provable, Tearing, Unpublished, Fresh, By
<1> HIDE DEF x
<1> QED
  BY <1>1, <1>2, <1>3, <1>4, <1>6, <1>7, TxWritten
LEMMA FillStageKeeps ==
  ASSUME AgentInv, NEW p \in Initializer, FillStage(p)
  PROVE  AgentInv'
<1>1. PICK s \in {"files", "manifest"}, d \in {"partial", "whole"} :
        /\ s = "manifest" <=> d = "whole"
        /\ at[p] = IF s = "manifest" THEN "files" ELSE "stage"
        /\ at' = [at EXCEPT ![p] = s]
        /\ stage' = [stage EXCEPT ![p] = d]
        /\ UNCHANGED <<tx, orphan, temp, run, pointer, lock, undone, committed, cuts>>
  BY DEF FillStage, RunStays, agentHistory, Goes
<1>2. at[p] \in HoldSteps /\ s \in HoldSteps /\ s # "stuck"
  BY <1>1 DEF HoldSteps
<1>3. File(p, "whole", "none") /\ orphan[p] = "none" /\ p \notin temp /\ Fresh(p) /\ tx[p].exists
  BY <1>1 DEF AgentInv, Phase, File, Unpublished
<1>4. /\ at'[p] = s /\ stage'[p] = d
      /\ \A r \in Initializer \ {p} : stage'[r] = stage[r]
  BY <1>1 DEF AgentInv, RootTypes
<1>5. RootTypes'
  BY <1>1, <1>2 DEF AgentInv, RootTypes, DirStates
<1>6. RootOk'
  <2>1. RunsOk' /\ OneTx'
    BY <1>1 DEF AgentInv, RootOk, RunsOk, OneTx
  <2>2. PointerOk'
    BY <1>1, <1>3 DEF PointerOk, Fresh
  <2>3. TxOk'
    BY <1>1, <1>3, <1>4 DEF AgentInv, RootOk, TxOk, NoDirs, Kept, By, File
  <2> QED
    BY <2>1, <2>2, <2>3 DEF RootOk
<1>7. Phase(p)'
  BY <1>1, <1>3, <1>4 DEF Phase, File, Unpublished, Fresh, By
<1>8. Provable(p)'
  BY <1>1, <1>3, <1>4 DEF Provable, File, Fresh, By
<1>9. \A q \in Initializer : tx'[q].exists => Provable(q)' \/ Tearing(p, q)'
  BY <1>1, <1>3, <1>8, OnlyOpen
<1>10. lock' = lock /\ cuts' = cuts
  BY <1>1
<1> QED
  BY <1>1, <1>2, <1>5, <1>6, <1>7, <1>9, <1>10, HolderMoves

LEMMA PublishRunKeeps ==
  ASSUME AgentInv, NEW p \in Initializer, PublishRun(p)
  PROVE  AgentInv'
<1> DEFINE row == [by |-> p, state |-> "whole"]
<1>1. /\ at[p] = "publish" /\ at[p] \in HoldSteps /\ at' = [at EXCEPT ![p] = "temp"]
      /\ stage' = [stage EXCEPT ![p] = "none"]
      /\ run' = [run EXCEPT ![RunOf[p]] = row]
      /\ UNCHANGED <<tx, orphan, temp, pointer, lock, undone, committed, cuts>>
  BY DEF PublishRun, agentHistory, Goes, HoldSteps
<1>2. RunOf[p] \in RunIds /\ "temp" \in HoldSteps /\ p # 0
  BY AgentConstants DEF RunIds, HoldSteps
<1>3. /\ File(p, "whole", "whole") /\ tx[p].exists
      /\ orphan[p] = "none" /\ p \notin temp /\ Fresh(p)
  BY <1>1 DEF AgentInv, Phase, File, Unpublished
<1>4. /\ at'[p] = "temp" /\ stage'[p] = "none" /\ run'[RunOf[p]] = row
      /\ \A r \in Initializer \ {p} : stage'[r] = stage[r]
      /\ \A r \in RunIds \ {RunOf[p]} : run'[r] = run[r]
  BY <1>1, <1>2 DEF AgentInv, RootTypes
<1>5. RootTypes'
  <2>1. row \in RunTypes
    BY DEF RunTypes
  <2>2. run' \in [RunIds -> RunTypes]
    BY <1>1, <2>1 DEF AgentInv, RootTypes
  <2> HIDE DEF row
  <2> QED
    BY <1>1, <1>2, <2>2 DEF AgentInv, RootTypes, DirStates
<1>6. RootOk'
  <2>1. RunsOk'
    BY <1>2, <1>4 DEF AgentInv, RootOk, RunsOk
  <2>2. PointerOk'
    BY <1>1, <1>3 DEF PointerOk, Fresh
  <2>3. TxOk'
    <3> SUFFICES ASSUME NEW r \in Initializer
                 PROVE /\ ~tx'[r].exists => tx'[r] = NoTx
                       /\ (tx'[r].intent = "none" /\ tx'[r].manifest = "none")
                            => NoDirs(r)' /\ Kept(r)' /\ r \notin temp'
      BY DEF TxOk
    <3>1. CASE r = p
      BY <1>1, <1>3, <3>1 DEF File
    <3>2. CASE r # p
      <4>1. RunOf[r] \in RunIds
        BY DEF RunIds
      <4>2. Kept(r) => Kept(r)'
        BY <1>1, <1>4, <3>2, <4>1 DEF Kept, By
      <4> QED
        BY <1>1, <1>4, <3>2, <4>2 DEF AgentInv, RootOk, TxOk, NoDirs
    <3> QED
      BY <3>1, <3>2
  <2>4. OneTx'
    BY <1>1 DEF AgentInv, RootOk, OneTx
  <2> QED
    BY <2>1, <2>2, <2>3, <2>4 DEF RootOk
<1>7. Phase(p)'
  BY <1>1, <1>3, <1>4 DEF Phase, File, Out, NoDirs, PublishedWhole, Fresh
<1>8. Provable(p)'
  BY <1>1, <1>3, <1>4 DEF Provable, File, NoDirs, PublishedWhole
<1>9. \A q \in Initializer : tx'[q].exists => Provable(q)' \/ Tearing(p, q)'
  BY <1>1, <1>3, <1>8, OnlyOpen
<1>10. lock' = lock /\ cuts' = cuts
  BY <1>1
<1> QED
  BY <1>1, <1>2, <1>5, <1>6, <1>7, <1>9, <1>10, HolderMoves

LEMMA WriteTempKeeps ==
  ASSUME AgentInv, NEW p \in Initializer, WriteTemp(p)
  PROVE  AgentInv'
<1>1. /\ at[p] = "temp" /\ at[p] \in HoldSteps /\ at' = [at EXCEPT ![p] = "link"]
      /\ temp' = temp \cup {p} /\ "link" \in HoldSteps
      /\ UNCHANGED <<tx, stage, orphan, run, pointer, lock, undone, committed, cuts>>
  BY DEF WriteTemp, RunStays, agentHistory, Goes, HoldSteps
<1>2. File(p, "whole", "whole") /\ Out(p) /\ tx[p].exists
  BY <1>1 DEF AgentInv, Phase, File
<1>3. at'[p] = "link"
  BY <1>1 DEF AgentInv, RootTypes
<1>4. RootTypes'
  BY <1>1 DEF AgentInv, RootTypes
<1>5. RootOk'
  <2>1. RunsOk' /\ OneTx' /\ PointerOk'
    BY <1>1 DEF AgentInv, RootOk, RunsOk, OneTx, PointerOk, NoDirs, By
  <2>2. TxOk'
    BY <1>1, <1>2 DEF AgentInv, RootOk, TxOk, NoDirs, Kept, By, File
  <2> QED
    BY <2>1, <2>2 DEF RootOk
<1>6. Phase(p)'
  BY <1>1, <1>2, <1>3 DEF Phase, File, Out, NoDirs, PublishedWhole
<1>7. Provable(p)'
  BY <1>1, <1>2 DEF Provable, File, Out, NoDirs, PublishedWhole
<1>8. \A q \in Initializer : tx'[q].exists => Provable(q)' \/ Tearing(p, q)'
  BY <1>1, <1>2, <1>7, OnlyOpen
<1>9. lock' = lock /\ cuts' = cuts
  BY <1>1
<1> QED
  BY <1>1, <1>4, <1>5, <1>6, <1>8, <1>9, HolderMoves

LEMMA LinkPointerKeeps ==
  ASSUME AgentInv, NEW p \in Initializer, LinkPointer(p)
  PROVE  AgentInv'
<1>1. /\ at[p] = "link" /\ at[p] \in HoldSteps /\ at' = [at EXCEPT ![p] = "rmtemp"]
      /\ pointer' = p /\ committed' = committed \cup {p}
      /\ undone' = [undone EXCEPT ![p] = p] /\ "rmtemp" \in HoldSteps
      /\ UNCHANGED <<tx, stage, orphan, temp, run, lock, cuts>>
  BY DEF LinkPointer, Goes, HoldSteps
<1>2. File(p, "whole", "whole") /\ Out(p) /\ tx[p].exists
  BY <1>1 DEF AgentInv, Phase, File
<1>3. at'[p] = "rmtemp" /\ undone'[p] = p
  BY <1>1 DEF AgentInv, RootTypes
<1>4. RootTypes'
  BY <1>1 DEF AgentInv, RootTypes
<1>5. RootOk'
  <2>1. RunsOk' /\ OneTx'
    BY <1>1 DEF AgentInv, RootOk, RunsOk, OneTx
  <2>2. TxOk'
    BY <1>1, <1>2 DEF AgentInv, RootOk, TxOk, NoDirs, Kept, By, File
  <2>3. PointerOk'
    BY <1>1, <1>2 DEF PointerOk, Out, NoDirs, PublishedWhole, By
  <2> QED
    BY <2>1, <2>2, <2>3 DEF RootOk
<1>6. Phase(p)'
  BY <1>1, <1>2, <1>3 DEF Phase, Clear, Kept, Out, NoDirs, By
<1>7. Provable(p)'
  BY <1>1, <1>2 DEF Provable, File, Out, NoDirs, PublishedWhole
<1>8. \A q \in Initializer : tx'[q].exists => Provable(q)' \/ Tearing(p, q)'
  BY <1>1, <1>2, <1>7, OnlyOpen
<1>9. lock' = lock /\ cuts' = cuts
  BY <1>1
<1> QED
  BY <1>1, <1>4, <1>5, <1>6, <1>8, <1>9, HolderMoves

\* A process that creates its Run leaves nothing recovery cannot prove.
LEMMA CreatingIsProvable ==
  ASSUME AgentInv, NEW p \in Initializer, at[p] \in Creating \ {"intent2", "manifest2"}, tx[p].exists
  PROVE  Provable(p) /\ (tx[p].manifest = "none" => p \notin temp)
<1>1. Phase(p)
  BY DEF AgentInv
<1>2. CASE at[p] = "begin"
  BY <1>1, <1>2 DEF Phase, NoneOpen
<1>3. CASE at[p] = "intent"
  BY <1>1, <1>3 DEF Phase, Provable, File, AgentInv, RootOk, TxOk
<1>4. CASE at[p] \in {"stage", "files", "manifest", "publish"}
  BY <1>1, <1>4 DEF Phase, Provable, File, Unpublished, Fresh
<1>5. CASE at[p] \in {"temp", "link"}
  BY <1>1, <1>5 DEF Phase, Provable, File, Out
<1> QED
  BY <1>2, <1>3, <1>4, <1>5 DEF Creating

\* What the own catch block finds the transaction to be.
LEMMA CaughtRight ==
  ASSUME AgentInv, NEW p \in Initializer, at[p] \in Creating
  PROVE  /\ at[p] # "manifest2" => CaughtAt(p) # "review"
         /\ CaughtAt(p) \in {"giveup", "review", "rmtx", "claim", "rmtemp", "rmrun"}
         /\ CaughtAt(p) = "rmtx" => Clear(p)
         /\ CaughtAt(p) = "rmtemp" => Clear(p)
         /\ CaughtAt(p) = "rmrun" => Claimed(p)
         /\ CaughtAt(p) = "claim" => Claims(p)
<1>1. Phase(p) /\ p # 0
  BY AgentConstants DEF AgentInv
<1>o. /\ "stage" \in Owned(p) <=> stage[p] # "none"
      /\ "run" \in Owned(p) <=> By(p) # 0
      /\ "orphan" \in Owned(p) <=> orphan[p] # "none"
      /\ Owned(p) \subseteq {"stage", "run", "orphan"}
  BY OwnedPlaces
<1>2. CASE ~tx[p].exists
  BY <1>2 DEF CaughtAt
<1>3. CASE tx[p].exists /\ tx[p].manifest = "none"
  <2>1. /\ orphan[p] = "none" /\ p \notin temp /\ By(p) = 0
        /\ stage[p] = "none" \/ tx[p].intent = "whole"
    <3>1. CASE at[p] = "intent"
      <4>1. tx[p].intent = "none" /\ By(p) = 0
        BY <1>1, <3>1 DEF Phase, File, Fresh
      <4>2. NoDirs(p) /\ p \notin temp
        BY <1>3, <4>1 DEF AgentInv, RootOk, TxOk
      <4> QED
        BY <4>1, <4>2 DEF NoDirs
    <3>2. CASE at[p] \in {"intent2", "stage", "files", "manifest"}
      BY <1>1, <3>2 DEF Phase, File, Unpublished, Fresh
    <3>3. CASE at[p] \in {"begin", "manifest2", "publish", "temp", "link"}
      BY <1>1, <1>3, <3>3 DEF Phase, File, NoneOpen
    <3> QED
      BY <3>1, <3>2, <3>3 DEF Creating
  <2>2. Discardable(p)
    BY <1>o, <2>1 DEF Discardable
  <2>3. CaughtAt(p) = IF stage[p] = "none" THEN "rmtx" ELSE "claim"
    BY <1>3, <2>2 DEF CaughtAt, Unmanifested
  <2> QED
    BY <1>1, <1>3, <2>1, <2>3 DEF Clear, Claims, Claimable, NoDirs, Kept
<1>4. CASE tx[p].exists /\ tx[p].manifest # "none"
  <2>1. CaughtAt(p) = Judged(p)
    BY <1>4 DEF CaughtAt
  <2>2. /\ Judged(p) \in {"review", "rmtx", "claim", "rmtemp", "rmrun"}
        /\ Judged(p) = "rmtx" => Clear(p) /\ p \notin temp
        /\ Judged(p) = "rmtemp" => Clear(p)
        /\ Judged(p) = "rmrun" => Claimed(p) /\ tx[p].manifest = "whole"
        /\ Judged(p) = "claim" => Claims(p)
    BY <1>4, JudgedRight DEF AgentInv
  <2>3. ASSUME at[p] # "manifest2" PROVE Judged(p) # "review"
    <3>1. CASE at[p] = "publish"
      BY <1>1, <1>4, <3>1, NoReview DEF AgentInv, Phase, Provable, File, Unpublished, Fresh
    <3>2. CASE at[p] \in {"temp", "link"}
      BY <1>1, <1>4, <3>2, NoReview DEF AgentInv, Phase, Provable, File, Out
    <3>3. CASE at[p] \in {"begin", "intent", "intent2", "stage", "files", "manifest"}
      BY <1>1, <1>4, <3>3 DEF Phase, File, NoneOpen
    <3> QED
      BY <2>3, <3>1, <3>2, <3>3 DEF Creating
  <2> QED
    BY <2>1, <2>2, <2>3
<1> QED
  BY <1>2, <1>3, <1>4

LEMMA FailStepKeeps ==
  ASSUME AgentInv, NEW p \in Initializer, FailStep(p)
  PROVE  AgentInv'
<1> DEFINE s == IF CaughtAt(p) = "review" THEN "stuck" ELSE CaughtAt(p)
<1>1. /\ at[p] \in Creating /\ at[p] \in HoldSteps
      /\ at' = [at EXCEPT ![p] = s]
      /\ temp' = temp \ {p} /\ undone' = [undone EXCEPT ![p] = p]
      /\ cuts' = [cuts EXCEPT !.unproven = @ \/ at[p] = "manifest2"]
      /\ UNCHANGED <<tx, stage, orphan, run, pointer, lock, committed>>
  BY DEF FailStep, Creating, HoldSteps
<1>2. /\ s \in {"giveup", "stuck", "rmtx", "claim", "rmtemp", "rmrun"}
      /\ at[p] # "manifest2" => s # "stuck"
      /\ s \in {"rmtx", "rmtemp"} => Clear(p)
      /\ s = "rmrun" => Claimed(p)
      /\ s = "claim" => Claims(p)
  BY <1>1, CaughtRight
<1>3. /\ s = "rmrun" => tx[p].manifest # "none"
      /\ s = "giveup" => ~tx[p].exists
  <2>1. CASE ~tx[p].exists
    BY <2>1 DEF CaughtAt
  <2>2. CASE tx[p].exists /\ tx[p].manifest = "none"
    BY <2>2 DEF CaughtAt, Unmanifested
  <2>3. CASE tx[p].exists /\ tx[p].manifest # "none"
    <3>1. Judged(p) \in {"review", "rmtx", "claim", "rmtemp", "rmrun"}
      BY <2>3, JudgedRight DEF AgentInv
    <3> QED
      BY <2>3, <3>1 DEF CaughtAt
  <2> QED
    BY <2>1, <2>2, <2>3
<1> HIDE DEF s
<1>4. at'[p] = s /\ undone'[p] = p /\ s \in HoldSteps
  BY <1>1, <1>2 DEF AgentInv, RootTypes, HoldSteps
<1>5. /\ cuts' \in [crashes : Nat, unproven : BOOLEAN]
      /\ ~cuts'.unproven => ~cuts.unproven /\ at[p] # "manifest2"
  BY <1>1 DEF AgentInv, RootTypes
<1>6. RootTypes' /\ RootOk'
  <2>1. RootTypes'
    BY <1>1, <1>4, <1>5 DEF AgentInv, RootTypes
  <2>2. RootOk'
    BY <1>1 DEF AgentInv, RootOk, RunsOk, PointerOk, TxOk, OneTx, NoDirs, Kept, By
  <2> QED
    BY <2>1, <2>2
<1>7. Phase(p)'
  <2>1. /\ Clear(p) => Clear(p)'
        /\ Claimed(p) => Claimed(p)'
        /\ Claims(p) => Claims(p)'
        /\ p \notin temp'
    BY <1>1 DEF Clear, Claimed, Claims, Claimable, NoDirs, Kept, By, PublishedWhole
  <2> QED
    BY <1>2, <1>4, <2>1 DEF Phase
<1>8. ASSUME ~cuts'.unproven, NEW q \in Initializer, tx'[q].exists
      PROVE  Provable(q)' \/ Tearing(p, q)'
  <2>1. Phase(p) /\ at[p] # "manifest2" /\ tx[q].exists
    BY <1>1, <1>5, <1>8 DEF AgentInv
  <2>2. tx[p].exists
    BY <1>1, <2>1 DEF Phase, Creating, File, NoneOpen
  <2>3. q = p
    BY <2>1, <2>2 DEF AgentInv, RootOk, OneTx
  <2>4. CASE at[p] = "intent2"
    <3>1. stage[p] = "none" /\ tx[p].manifest = "none"
      BY <2>1, <2>4 DEF Phase, File, Unpublished
    <3>2. s \in {"rmtx", "stuck"}
      BY <2>2, <3>1 DEF s, CaughtAt, Unmanifested
    <3> QED
      BY <1>2, <1>4, <2>1, <2>3, <3>2 DEF Tearing
  <2>5. CASE at[p] # "intent2"
    <3>1. Provable(p)
      BY <1>1, <2>1, <2>2, <2>5, CreatingIsProvable
    <3>2. Provable(p) => Provable(p)'
      BY <1>1 DEF Provable, NoDirs, By, PublishedWhole
    <3> QED
      BY <2>3, <3>1, <3>2
  <2> QED
    BY <2>4, <2>5
<1> QED
  BY <1>1, <1>2, <1>4, <1>5, <1>6, <1>7, <1>8, HolderFails

LEMMA FailUndoKeeps ==
  ASSUME AgentInv, NEW p \in Initializer, FailUndo(p)
  PROVE  AgentInv'
<1>1. /\ at[p] \in Undoing /\ at[p] \in HoldSteps /\ "giveup" \in HoldSteps
      /\ at' = [at EXCEPT ![p] = "giveup"]
      /\ cuts' = [cuts EXCEPT !.unproven = @ \/ TornAt(p)]
      /\ UNCHANGED <<disk, lock, undone, committed>>
  BY DEF FailUndo, Undoing, HoldSteps
<1>2. /\ at'[p] = "giveup"
      /\ at' \in [Initializer -> HoldSteps \cup Waits \cup Ended]
      /\ lock' \in [maker : Initializer \cup {0}, owner : Initializer \cup {0}, aged : BOOLEAN]
  BY <1>1 DEF AgentInv, RootTypes
<1>3. /\ cuts' \in [crashes : Nat, unproven : BOOLEAN]
      /\ ~cuts'.unproven => ~cuts.unproven /\ ~TornAt(p)
  BY <1>1 DEF AgentInv, RootTypes, TornAt
<1>4. RootTypes' /\ RootOk'
  BY <1>1, <1>2, <1>3, RootStays
<1>5. Phase(p)'
  BY <1>2 DEF Phase
<1>6. ASSUME ~cuts'.unproven, NEW q \in Initializer, tx'[q].exists PROVE Provable(q)'
  <2>1. tx[q].exists /\ (Provable(q) \/ Tearing(p, q))
    BY <1>1, <1>3, <1>6, HolderKnows DEF disk
  <2>2. ~Tearing(p, q)
    BY <1>1, <1>3, <1>6 DEF Tearing, TornAt, Tears, Undoing
  <2>3. Provable(q) => Provable(q)'
    BY <1>1 DEF Provable, By, NoDirs, PublishedWhole, disk
  <2> QED
    BY <2>1, <2>2, <2>3
<1>7. UNCHANGED lock
  BY <1>1
<1> QED
  BY <1>1, <1>3, <1>4, <1>5, <1>6, <1>7, HolderFails
LEMMA AgentInvariance == CarefulSpec => []AgentInv
<1>1. AgentInit => AgentInv
  BY InitAgent
<1>2. AgentInv /\ [AgentNext /\ LockAssumptions]_agentVars => AgentInv'
  <2> SUFFICES ASSUME AgentInv, [AgentNext /\ LockAssumptions]_agentVars
               PROVE  AgentInv'
    OBVIOUS
  <2>1. ASSUME NEW p \in Initializer, Locking(p), LockAssumptions PROVE AgentInv'
    BY <2>1, MakeLockKeeps, OwnLockKeeps, MeetLockKeeps, BreakLockKeeps, UnlockKeeps DEF Locking
  <2>2. ASSUME NEW p \in Initializer, Recovering(p) PROVE AgentInv'
    BY <2>2, RecoverKeeps, CheckKeeps, ClaimRunKeeps, RemoveRunKeeps, RemoveTempKeeps, RemoveTxKeeps,
       FailUndoKeeps DEF Recovering
  <2>3. ASSUME NEW p \in Initializer, Initializing(p) PROVE AgentInv'
    BY <2>3, MakeTxKeeps, WriteIntentKeeps, FillStageKeeps, WriteManifestKeeps, PublishRunKeeps,
       WriteTempKeeps, LinkPointerKeeps, FailStepKeeps DEF Initializing
  <2>4. ASSUME NEW p \in Initializer, Die(p) PROVE AgentInv'
    BY <2>4, DieKeeps
  <2>5. ASSUME LockAges, LockAssumptions PROVE AgentInv'
    BY <2>5, LockAgesKeeps
  <2>6. CASE UNCHANGED agentVars
    <3>1. UNCHANGED <<at, disk, undone, committed, cuts>> /\ lock' = lock
      BY <2>6 DEF agentVars, agentHistory, disk
    <3>2. LockOk' /\ RootTypes'
      BY <3>1 DEF AgentInv, LockOk, RootTypes, disk
    <3> QED
      BY <3>1, <3>2, OnlyLockChanges
  <2> QED
    BY <2>1, <2>2, <2>3, <2>4, <2>5, <2>6, WorkKeeps, CloseRunKeeps DEF AgentNext
<1> QED
  BY <1>1, <1>2, PTL DEF CarefulSpec

\* An init is atomic (initializeRun and its recovery, agent-state.mjs): one
\* process at a time works on the runs root, the pointer names a Run that was
\* published whole, each init starts on a clean root, and recovery asks for a
\* review only when a crash or a failed call (a full disk, say) cut a write or a
\* removal in two or the Run was touched before.
\* It holds for any number of processes and Runs, as long as a dead lock is
\* broken before another process moves (CarefulSpec; run agent_lock shows what
\* happens otherwise).
THEOREM InitsAreAtomic == CarefulSpec => []InitIsAtomic
<1>1. AgentInv => InitIsAtomic
  <2> SUFFICES ASSUME AgentInv PROVE InitIsAtomic
    OBVIOUS
  <2>1. OneHolder
    <3>1. \A p \in Initializer : p \in Holding => at[p] \in HoldSteps
      BY DEF Holding, AgentInv, RootTypes, Waits
    <3>2. \A p, q \in Holding : p = q
      BY <3>1, HolderAlone DEF AgentInv, Holding
    <3>3. IsFiniteSet(Holding) /\ Cardinality(Holding) <= 1
      BY <3>2, AtMostOne
    <3> QED
      BY <3>3 DEF OneHolder
  <2>2. PointerNamesRun
    <3> SUFFICES ASSUME pointer # 0
                 PROVE /\ run[RunOf[pointer]].by = pointer
                       /\ run[RunOf[pointer]].state \in {"whole", "changed"}
      BY DEF PointerNamesRun
    <3>1. pointer \in Initializer /\ RunOf[pointer] \in RunIds
      BY DEF AgentInv, RootTypes, RunIds
    <3>2. run[RunOf[pointer]].by = pointer
      BY DEF AgentInv, RootOk, PointerOk, By
    <3>3. run[RunOf[pointer]] # NoRun
      BY <3>2 DEF NoRun
    <3> QED
      BY <3>1, <3>2, <3>3 DEF AgentInv, RootOk, RunsOk
  <2>3. StartsClean
    <3> SUFFICES ASSUME NEW p \in Initializer, at[p] = "begin"
                 PROVE /\ Transactions = {} /\ temp = {}
                       /\ \A q \in Initializer : stage[q] = "none" /\ orphan[q] = "none"
                       /\ \A r \in RunIds : run[r].by # 0 => run[r].by \in committed
      BY DEF StartsClean
    <3>1. NoneOpen
      BY DEF AgentInv, Phase
    <3>2. \A q \in Initializer : NoDirs(q) /\ Kept(q) /\ q \notin temp
      BY <3>1 DEF NoneOpen, AgentInv, RootOk, TxOk, NoTx
    <3>3. Transactions = {} /\ temp = {}
      BY <3>1, <3>2 DEF NoneOpen, Transactions, AgentInv, RootTypes
    <3>4. \A r \in RunIds : run[r].by # 0 => run[r].by \in committed
      <4> SUFFICES ASSUME NEW r \in RunIds, run[r].by # 0 PROVE run[r].by \in committed
        OBVIOUS
      <4>1. run[r].by \in Initializer /\ RunOf[run[r].by] = r
        BY DEF AgentInv, RootOk, RunsOk, NoRun
      <4> QED
        BY <4>1, <3>2 DEF Kept, By
    <3> QED
      BY <3>2, <3>3, <3>4 DEF NoDirs
  <2>4. ReviewIsExplained
    BY DEF AgentInv, Explained, ReviewIsExplained, RootTypes
  <2> QED
    BY <2>1, <2>2, <2>3, <2>4 DEF InitIsAtomic
<1> QED
  BY <1>1, AgentInvariance, PTL
=============================================================================
