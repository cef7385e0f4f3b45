------------------------------ MODULE Execution ------------------------------
(***************************************************************************)
(* Tasks of one goal, the study sessions of one member on them, and the    *)
(* evidence that is submitted and verified (execution/service.py,          *)
(* execution/evidence_service.py).                                         *)
(*                                                                         *)
(* Every handler locks the rows it decides on, so it is one step, but two. *)
(* The start of a session looks for an active one in every space and locks *)
(* its own.  A decision on evidence reads the verification before it locks *)
(* the task, and the second read under the lock gives it the copy of the   *)
(* first (the identity map of its session is not populated again).  A      *)
(* request with a stale version is refused and changes nothing, so         *)
(* versions are left out.                                                  *)
(***************************************************************************)
EXTENDS Naturals, FiniteSets

CONSTANTS
  Assignment,     \* tasks
  HomeOf,         \* per task: its space
  Sitting,        \* study sessions
  Reviewer,       \* requests that decide on evidence
  TaskQuota,      \* task_per_goal_quota
  EvidenceQuota,  \* evidence_per_space_quota
  MaxEvidence     \* bound: evidence ever submitted

VARIABLES
  assignment,   \* tasks: status
  sitting,      \* study_sessions: status, and its task
  starting,     \* starts that hold the lock of their space
  evidence,     \* evidence_items with their verification_records
  broken,       \* history: the spaces of the starts the index has refused
  deciding      \* per reviewer: the evidence it read as pending, 0 for none
execVars == <<assignment, sitting, starting, evidence, broken, deciding>>

ASSUME ExecConstants ==
  TaskQuota \in Nat /\ EvidenceQuota \in Nat /\ MaxEvidence \in Nat

TaskStates == {"backlog", "planned", "in_progress", "blocked", "submitted",
               "verified", "done", "cancelled"}
Transitions ==
  [backlog |-> {"planned", "cancelled"},
   planned |-> {"in_progress", "blocked", "cancelled"},
   in_progress |-> {"submitted", "blocked", "cancelled"},
   blocked |-> {"planned", "in_progress", "cancelled"},
   submitted |-> {"in_progress"},
   verified |-> {}, done |-> {}, cancelled |-> {}]

Absent == "absent"
Decisions == {"passed", "failed", "needs_revision"}
NoSitting == [status |-> "none", task |-> 0]

ExecInit ==
  /\ assignment = [k \in Assignment |-> Absent]
  /\ sitting = [s \in Sitting |-> NoSitting]
  /\ starting = {} /\ evidence = {} /\ broken = {}
  /\ deciding = [r \in Reviewer |-> 0]

Existing == {k \in Assignment : assignment[k] # Absent}
\* _writable_space locks the row of the space.
Writable(k) == \A o \in starting : HomeOf[o.task] # HomeOf[k]
\* The start of a session also locks its task.
Unclaimed(k) == \A o \in starting : o.task # k
Turns(k, status) == assignment' = [assignment EXCEPT ![k] = status]

-----------------------------------------------------------------------------
(* ExecutionService.                                                       *)

CreateTask(k, planned) ==
  /\ Writable(k) /\ assignment[k] = Absent
  /\ Cardinality(Existing) < TaskQuota
  /\ Turns(k, IF planned THEN "planned" ELSE "backlog")
  /\ UNCHANGED <<sitting, starting, evidence, broken, deciding>>

TransitionTask(k, status) ==
  /\ Writable(k) /\ k \in Existing
  /\ status \in Transitions[assignment[k]]
  /\ Turns(k, status)
  /\ UNCHANGED <<sitting, starting, evidence, broken, deciding>>

ActiveSittings == {s \in Sitting : sitting[s].status = "active"}

\* The look for an active session, under the locks of the space and the task;
\* the id is one its client has just drawn.
SpaceGuards(k) == Writable(k)
BeginSitting(s, k) ==
  /\ SpaceGuards(k) /\ k \in Existing
  /\ assignment[k] \in {"planned", "in_progress"}
  /\ ActiveSittings = {} /\ sitting[s] = NoSitting /\ \A o \in starting : o.sitting # s
  /\ starting' = starting \cup {[sitting |-> s, task |-> k]}
  /\ UNCHANGED <<assignment, sitting, evidence, broken, deciding>>

\* The index of active sessions per member and workspace admits one; the
\* error of a second is no answer of the service.
Admits(s) == ActiveSittings = {} /\ sitting[s] = NoSitting
InsertSitting(o) ==
  /\ starting' = starting \ {o}
  /\ IF Admits(o.sitting)
     THEN /\ sitting' = [sitting EXCEPT ![o.sitting] = [status |-> "active", task |-> o.task]]
          /\ Turns(o.task, "in_progress")
          /\ UNCHANGED broken
     ELSE /\ UNCHANGED <<assignment, sitting>>
          /\ broken' = broken \cup
               {<<HomeOf[o.task], HomeOf[sitting[a].task]>> : a \in ActiveSittings}
  /\ UNCHANGED <<evidence, deciding>>

FinishSession(s, outcome) ==
  /\ sitting[s].status = "active" /\ Writable(sitting[s].task)
  /\ sitting' = [sitting EXCEPT ![s].status = outcome]
  /\ UNCHANGED <<assignment, starting, evidence, broken, deciding>>

-----------------------------------------------------------------------------
(* EvidenceService.                                                        *)

EvidenceIn(space) == {e \in evidence : HomeOf[e.task] = space}

SubmitEvidence(k) ==
  /\ Writable(k) /\ Cardinality(evidence) < MaxEvidence
  /\ Cardinality(EvidenceIn(HomeOf[k])) < EvidenceQuota
  /\ assignment[k] \in {"in_progress", "submitted"}
  /\ evidence' = evidence \cup
       {[id |-> Cardinality(evidence) + 1, task |-> k, verdict |-> "pending"]}
  /\ Turns(k, "submitted")
  /\ UNCHANGED <<sitting, starting, broken, deciding>>

\* decide reads the verification, which has to be pending, and waits for the
\* lock of the task.
ReadVerification(r, e) ==
  /\ deciding[r] = 0 /\ e.verdict = "pending"
  /\ deciding' = [deciding EXCEPT ![r] = e.id]
  /\ UNCHANGED <<assignment, sitting, starting, evidence, broken>>

\* Mutant: the state of the task is not looked at.
DecidableAnyway(e) == e \in evidence
\* The task is read under its lock; the verdict that is pending is the one that
\* was read before.
Decidable(e) == assignment[e.task] = "submitted"
Decide(r, e, verdict) ==
  /\ deciding[r] = e.id /\ Unclaimed(e.task) /\ Decidable(e)
  /\ evidence' = (evidence \ {e}) \cup {[e EXCEPT !.verdict = verdict]}
  /\ Turns(e.task, IF verdict = "passed" THEN "verified" ELSE "in_progress")
  /\ deciding' = [deciding EXCEPT ![r] = 0]
  /\ UNCHANGED <<sitting, starting, broken>>

\* The decision is refused, or its request ends without one.
Undecided(r) ==
  /\ deciding[r] # 0
  /\ deciding' = [deciding EXCEPT ![r] = 0]
  /\ UNCHANGED <<assignment, sitting, starting, evidence, broken>>

Passed(k) == {e \in evidence : e.task = k /\ e.verdict = "passed"}
CloseTask(k) ==
  /\ Unclaimed(k) /\ assignment[k] = "verified" /\ Passed(k) # {}
  /\ Turns(k, "done")
  /\ UNCHANGED <<sitting, starting, evidence, broken, deciding>>

-----------------------------------------------------------------------------
ExecNext ==
  \/ \E k \in Assignment :
       \/ \E planned \in BOOLEAN : CreateTask(k, planned)
       \/ \E status \in TaskStates : TransitionTask(k, status)
       \/ \E s \in Sitting : BeginSitting(s, k)
       \/ SubmitEvidence(k) \/ CloseTask(k)
  \/ \E o \in starting : InsertSitting(o)
  \/ \E s \in Sitting, outcome \in {"completed", "abandoned"} : FinishSession(s, outcome)
  \/ \E r \in Reviewer :
       \/ \E e \in evidence : ReadVerification(r, e)
       \/ \E e \in evidence, verdict \in Decisions : Decide(r, e, verdict)
       \/ Undecided(r)

ExecSpec == ExecInit /\ [][ExecNext]_execVars

-----------------------------------------------------------------------------
(* Properties.                                                             *)

\* Every row has its type, and no goal has more tasks than its quota, nor a
\* space more evidence.
ExecTypeOK ==
  /\ assignment \in [Assignment -> TaskStates \cup {Absent}]
  /\ \A s \in Sitting :
       sitting[s] # NoSitting => sitting[s].status \in {"active", "completed", "abandoned"}
  /\ Cardinality(Existing) <= TaskQuota
  /\ \A k \in Assignment : Cardinality(EvidenceIn(HomeOf[k])) <= EvidenceQuota
  /\ deciding \in [Reviewer -> 0..MaxEvidence]

\* A member has one active session in the workspace, whatever spaces the
\* starts are made in.
OneActiveSitting == Cardinality(ActiveSittings) <= 1

\* The error of the index is met only by starts in two spaces at once: in one
\* space the look under the lock refuses the second start.  In two spaces the
\* second start does meet it, although execution/service.py:177 has starts
\* serialized across every space: see NoStartMeetsTheIndex.
IndexErrorNeedsTwoSpaces == \A pair \in broken : pair[1] # pair[2]

\* A task is verified or done by exactly one passed verification, however
\* many evidences wait for a decision and whoever reopens it meanwhile.
PassedOnce ==
  \A k \in Assignment :
    IF assignment[k] \in {"verified", "done"} THEN Cardinality(Passed(k)) = 1 ELSE Passed(k) = {}

\* No step changes a verdict that passed, or an end of a task or of a session.
\* A verdict that asks for more work changes only at the hands of a reviewer
\* that read the verification while it was pending: it waits for the lock of
\* the task, another reviewer decides, the task is submitted again, and the
\* late decision replaces the one that was given (evidence_service.py:197-229).
ExecOutcomeIsFinal ==
  /\ \A e \in evidence :
       e.verdict # "pending" /\ e \notin evidence' =>
         e.verdict # "passed" /\ \E r \in Reviewer : deciding[r] = e.id /\ deciding'[r] = 0
  /\ \A k \in Assignment :
       /\ assignment[k] \in {"done", "cancelled"} => assignment'[k] = assignment[k]
       /\ assignment[k] = "verified" => assignment'[k] \in {"verified", "done"}
  /\ \A s \in Sitting :
       sitting[s].status \in {"completed", "abandoned"} => sitting'[s] = sitting[s]

\* A member sits over one task at a time and each task is verified once.
StudyIsOrderly == OneActiveSitting /\ IndexErrorNeedsTwoSpaces /\ PassedOnce

\* Starts are serialized across every space of a workspace, so that the look
\* for an active session and the index that admits one allow no race
\* (execution/service.py:177-178).
NoStartMeetsTheIndex == broken = {}
=============================================================================
