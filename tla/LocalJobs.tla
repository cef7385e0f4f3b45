----------------------------- MODULE LocalJobs ------------------------------
(***************************************************************************)
(* One job of the local worker protocol, as the API keeps it               *)
(* (knowledge_space/local_worker_service.py): leases, the checkpoint, the  *)
(* receipt of its result.  Worker processes hold a lease and its token,    *)
(* lose answers and send again.                                            *)
(***************************************************************************)
EXTENDS Naturals, Sequences, FiniteSets

CONSTANTS
  JobWorker,   \* worker processes
  OutputOf,    \* per worker: the output it computes from the job's input
  MaxLeases    \* bound: leases ever issued

VARIABLES
  job,         \* local_worker_jobs: its state
  leases,      \* local_worker_leases: state, and whether the time is over
  checkpoint,  \* local_worker_checkpoints: stage, output, the lease it is from
  receipts,    \* local_worker_result_receipts, by idempotency key (the worker)
  holds        \* per worker: the lease it uses, 0 before the first
jobVars == <<job, leases, checkpoint, receipts, holds>>

ASSUME JobConstants == MaxLeases \in Nat /\ \A w \in JobWorker : OutputOf[w] \in Nat \ {0}

Stage == {"claimed", "running", "uploaded"}
StageOrder == [claimed |-> 0, running |-> 1, uploaded |-> 2]
NoCheckpoint == [stage |-> "none", output |-> 0, lease |-> 0]

JobInit ==
  /\ job = "none" /\ leases = <<>>
  /\ checkpoint = NoCheckpoint
  /\ receipts = {}
  /\ holds = [w \in JobWorker |-> 0]

\* A lease whose time is over keeps its state until the next one is issued.
Running(l) == leases[l].state = "active" /\ ~leases[l].over
Expired == [l \in DOMAIN leases |->
              IF leases[l].state = "active" THEN [leases[l] EXCEPT !.state = "expired"] ELSE leases[l]]

\* Mutant: the leases that ran are not looked at.
IssueAnother(w) ==
  /\ job # "completed" /\ Len(leases) < MaxLeases
  /\ leases' = Append(leases, [state |-> "active", over |-> FALSE])
  /\ job' = IF job = "none" THEN "queued" ELSE job
  /\ holds' = [holds EXCEPT ![w] = Len(leases) + 1]
  /\ UNCHANGED <<checkpoint, receipts>>
\* issue_lease, for worker w.
IssueLease(w) ==
  /\ job # "completed" /\ Len(leases) < MaxLeases
  /\ \A l \in DOMAIN leases : ~Running(l)
  /\ leases' = Append(Expired, [state |-> "active", over |-> FALSE])
  /\ job' = IF job = "none" THEN "queued" ELSE job
  /\ holds' = [holds EXCEPT ![w] = Len(leases) + 1]
  /\ UNCHANGED <<checkpoint, receipts>>

RevokeLease(l) ==
  /\ leases[l].state = "active"
  /\ leases' = [leases EXCEPT ![l].state = "revoked"]
  /\ job' = IF job \in {"completed", "failed"} THEN job ELSE "failed"
  /\ UNCHANGED <<checkpoint, receipts, holds>>

\* checkpoint: a stage never goes back, and an upload is never replaced.  A
\* stage that is there already leaves everything as it is.
MayCheckpoint(w, stage) ==
  /\ holds[w] # 0 /\ Running(holds[w])
  /\ checkpoint.stage # "none" => /\ StageOrder[stage] >= StageOrder[checkpoint.stage]
                                  /\ checkpoint.stage = "uploaded" => checkpoint.output = OutputOf[w]
Checkpoint(w, stage) ==
  /\ MayCheckpoint(w, stage)
  /\ IF checkpoint.stage = stage THEN UNCHANGED <<job, checkpoint>>
     ELSE /\ checkpoint' = [stage |-> stage, lease |-> holds[w],
                            output |-> IF stage = "uploaded" THEN OutputOf[w] ELSE 0]
          /\ job' = CASE stage = "claimed" -> "queued" [] OTHER -> stage
  /\ UNCHANGED <<leases, receipts, holds>>

\* submit_result: a repeated request gets its receipt again.
ReceiptOf(w) == {r \in receipts : r.key = w}
SubmitResult(w) ==
  /\ holds[w] # 0 /\ ReceiptOf(w) = {}
  /\ Running(holds[w])
  /\ checkpoint.stage = "uploaded" /\ checkpoint.output = OutputOf[w]
  /\ receipts' = receipts \cup {[key |-> w, lease |-> holds[w], output |-> OutputOf[w]]}
  /\ leases' = [leases EXCEPT ![holds[w]].state = "completed"]
  /\ checkpoint' = NoCheckpoint /\ job' = "completed"
  /\ UNCHANGED holds

TimeIsOver(l) ==
  /\ Running(l)
  /\ leases' = [leases EXCEPT ![l].over = TRUE]
  /\ UNCHANGED <<job, checkpoint, receipts, holds>>

JobNext ==
  \/ \E w \in JobWorker :
       IssueLease(w) \/ SubmitResult(w) \/ \E stage \in Stage : Checkpoint(w, stage)
  \/ \E l \in DOMAIN leases : RevokeLease(l) \/ TimeIsOver(l)

JobSpec == JobInit /\ [][JobNext]_jobVars

-----------------------------------------------------------------------------
(* Properties.                                                             *)

\* Every row has its type, and a job is completed exactly with a receipt.
JobTypeOK ==
  /\ job \in {"none", "queued", "running", "uploaded", "failed", "completed"}
  /\ leases \in Seq([state : {"active", "expired", "revoked", "completed"}, over : BOOLEAN])
  /\ checkpoint \in {NoCheckpoint} \cup [stage : Stage, output : Nat, lease : DOMAIN leases]
  /\ receipts \subseteq [key : JobWorker, lease : DOMAIN leases, output : Nat]
  /\ holds \in [JobWorker -> 0..Len(leases)]
  /\ job = "completed" <=> receipts # {}

\* One worker at a time may write to the job.
OneRunningLease == Cardinality({l \in DOMAIN leases : leases[l].state = "active"}) <= 1

\* One result is accepted, from a lease that was running when it came.
OneResult ==
  /\ Cardinality(receipts) <= 1
  /\ \A r \in receipts : leases[r.lease].state = "completed"

\* A step only advances the checkpoint, an upload is not exchanged for another, and
\* only the running lease moves it.
CheckpointAdvances ==
  checkpoint' # checkpoint =>
    \/ checkpoint' = NoCheckpoint /\ receipts' # receipts
    \/ /\ Running(checkpoint'.lease)
       /\ checkpoint.stage # "none" =>
            StageOrder[checkpoint.stage] < StageOrder[checkpoint'.stage]

\* One worker at a time, one result in the end.
OneWorkerOneResult == OneRunningLease /\ OneResult
=============================================================================
