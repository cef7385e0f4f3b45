----------------------------- MODULE StudyProofs -----------------------------
(***************************************************************************)
(* Theorems about task and session execution (Execution), for any number   *)
(* of tasks, spaces, sessions and pieces of evidence, and about what is    *)
(* learned (Memory), for any number of devices, answers and findings, and  *)
(* about the outline of a space (Outline), for any tree of an exam, any    *)
(* plan and any topics.                                                    *)
(***************************************************************************)
EXTENDS Execution, Memory, Outline, FiniteSetTheorems, TLAPS

StartT == [sitting : Sitting, task : Assignment]
EvidenceT == [id : 1..MaxEvidence, task : Assignment, verdict : {"pending"} \cup Decisions]
SittingT == [status : {"none", "active", "completed", "abandoned"}, task : Assignment \cup {0}]

ExecTypes ==
  /\ assignment \in [Assignment -> TaskStates \cup {Absent}]
  /\ sitting \in [Sitting -> SittingT]
  /\ \A s \in Sitting :
       /\ sitting[s].status = "none" => sitting[s] = NoSitting
       /\ sitting[s].status = "active" => sitting[s].task \in Assignment
  /\ starting \subseteq StartT
  /\ evidence \subseteq EvidenceT /\ IsFiniteSet(evidence)
  /\ deciding \in [Reviewer -> 0..MaxEvidence]

\* Only one start holds a space, its task waits for it, and no session is
\* active there.
StartsAreApart ==
  \A o \in starting :
    /\ assignment[o.task] \in {"planned", "in_progress"}
    /\ \A p \in starting : HomeOf[p.task] = HomeOf[o.task] => p = o
    /\ \A s \in ActiveSittings : HomeOf[sitting[s].task] # HomeOf[o.task]

OneSits == \A s, t \in ActiveSittings : s = t

ExecInv == ExecTypes /\ StartsAreApart /\ OneSits /\ IndexErrorNeedsTwoSpaces /\ PassedOnce

-----------------------------------------------------------------------------
(* Tasks.                                                                  *)

\* One task takes another status.
LEMMA TurnsOne ==
  ASSUME ExecTypes, NEW k \in Assignment, NEW status \in TaskStates, Turns(k, status)
  PROVE  /\ assignment' \in [Assignment -> TaskStates \cup {Absent}]
         /\ assignment'[k] = status
         /\ \A j \in Assignment : j # k => assignment'[j] = assignment[j]
  BY DEF ExecTypes, Turns

\* Evidence that is not touched, and a task that is not verified before or
\* after.
LEMMA PassedStays ==
  ASSUME ExecInv, NEW k \in Assignment, NEW status \in TaskStates, Turns(k, status),
         assignment[k] \notin {"verified", "done"}, status \notin {"verified", "done"},
         \A j \in Assignment : Passed(j)' = Passed(j)
  PROVE  PassedOnce'
<1>1. /\ assignment'[k] = status
      /\ \A j \in Assignment : j # k => assignment'[j] = assignment[j]
  BY TurnsOne DEF ExecInv
<1>2. ASSUME NEW j \in Assignment
      PROVE  IF assignment'[j] \in {"verified", "done"}
             THEN Cardinality(Passed(j)') = 1 ELSE Passed(j)' = {}
  <2>1. IF assignment[j] \in {"verified", "done"}
        THEN Cardinality(Passed(j)) = 1 ELSE Passed(j) = {}
    BY DEF ExecInv, PassedOnce
  <2>2. Passed(j)' = Passed(j)
    OBVIOUS
  <2>3. CASE j = k
    BY <1>1, <2>1, <2>2, <2>3
  <2>4. CASE j # k
    BY <1>1, <2>1, <2>2, <2>4
  <2> QED
    BY <2>3, <2>4
<1> QED
  BY <1>2 DEF PassedOnce

\* A task no start waits for takes another status.
LEMMA OtherTask ==
  ASSUME ExecInv, NEW k \in Assignment, Unclaimed(k), NEW status \in TaskStates, Turns(k, status),
         UNCHANGED <<sitting, starting, broken>>
  PROVE  /\ StartsAreApart' /\ OneSits' /\ IndexErrorNeedsTwoSpaces'
         /\ assignment' \in [Assignment -> TaskStates \cup {Absent}]
<1>1. /\ assignment' \in [Assignment -> TaskStates \cup {Absent}]
      /\ \A j \in Assignment : j # k => assignment'[j] = assignment[j]
  BY TurnsOne DEF ExecInv
<1>2. /\ sitting' = sitting /\ starting' = starting /\ broken' = broken
      /\ ActiveSittings' = ActiveSittings
  BY DEF ActiveSittings
<1>3. \A o \in starting : o.task # k /\ o.task \in Assignment
  BY DEF Unclaimed, ExecInv, ExecTypes, StartT
<1>4. StartsAreApart'
  BY <1>1, <1>2, <1>3 DEF ExecInv, StartsAreApart
<1> QED
  BY <1>1, <1>2, <1>4 DEF ExecInv, OneSits, IndexErrorNeedsTwoSpaces

LEMMA WritableIsUnclaimed ==
  ASSUME NEW k, Writable(k) PROVE Unclaimed(k)
  BY DEF Writable, Unclaimed

\* A new task, or one that takes the next status its user gives it.
LEMMA TaskKeeps ==
  ASSUME ExecInv, NEW k \in Assignment,
         \/ \E planned \in BOOLEAN : CreateTask(k, planned)
         \/ \E status \in TaskStates : TransitionTask(k, status)
  PROVE  ExecInv'
<1>1. PICK status \in TaskStates \ {"verified", "done"} :
        /\ Turns(k, status) /\ assignment[k] \notin {"verified", "done"}
        /\ Writable(k) /\ UNCHANGED <<sitting, starting, evidence, broken, deciding>>
  <2>1. ASSUME NEW planned \in BOOLEAN, CreateTask(k, planned)
        PROVE  \E status \in TaskStates \ {"verified", "done"} :
                 /\ Turns(k, status) /\ assignment[k] \notin {"verified", "done"}
                 /\ Writable(k) /\ UNCHANGED <<sitting, starting, evidence, broken, deciding>>
    BY <2>1 DEF CreateTask, TaskStates, Absent
  <2>2. ASSUME NEW status \in TaskStates, TransitionTask(k, status)
        PROVE  status \notin {"verified", "done"} /\ assignment[k] \notin {"verified", "done"}
    <3>1. assignment[k] \in TaskStates /\ status \in Transitions[assignment[k]]
      BY <2>2 DEF TransitionTask, Existing, ExecInv, ExecTypes
    <3> QED
      BY <3>1 DEF Transitions, TaskStates
  <2> QED
    BY <2>1, <2>2 DEF TransitionTask
<1>2. \A j \in Assignment : Passed(j)' = Passed(j)
  BY <1>1 DEF Passed
<1>3. PassedOnce'
  BY <1>1, <1>2, PassedStays
<1>4. /\ StartsAreApart' /\ OneSits' /\ IndexErrorNeedsTwoSpaces'
      /\ assignment' \in [Assignment -> TaskStates \cup {Absent}]
  BY <1>1, WritableIsUnclaimed, OtherTask
<1>5. ExecTypes'
  BY <1>1, <1>4 DEF ExecInv, ExecTypes
<1> QED
  BY <1>3, <1>4, <1>5 DEF ExecInv

\* New evidence is of a task that is not verified.
LEMMA SubmitKeeps == ASSUME ExecInv, NEW k \in Assignment, SubmitEvidence(k) PROVE ExecInv'
<1> DEFINE e == [id |-> Cardinality(evidence) + 1, task |-> k, verdict |-> "pending"]
<1>1. /\ Turns(k, "submitted") /\ "submitted" \in TaskStates /\ Writable(k)
      /\ assignment[k] \notin {"verified", "done"} /\ evidence' = evidence \cup {e}
      /\ Cardinality(evidence) < MaxEvidence /\ UNCHANGED <<sitting, starting, broken, deciding>>
  BY DEF SubmitEvidence, TaskStates
<1>2. IsFiniteSet(evidence') /\ evidence' \subseteq EvidenceT
  <2>1. IsFiniteSet(evidence) /\ evidence \subseteq EvidenceT /\ Cardinality(evidence) \in Nat
    BY FS_CardinalityType DEF ExecInv, ExecTypes
  <2>2. e \in EvidenceT
    BY <1>1, <2>1, ExecConstants DEF EvidenceT
  <2> QED
    BY <1>1, <2>1, <2>2, FS_AddElement
<1>3. \A j \in Assignment : Passed(j)' = Passed(j)
  BY <1>1 DEF Passed
<1>4. PassedOnce'
  BY <1>1, <1>3, PassedStays
<1>5. /\ StartsAreApart' /\ OneSits' /\ IndexErrorNeedsTwoSpaces'
      /\ assignment' \in [Assignment -> TaskStates \cup {Absent}]
  BY <1>1, WritableIsUnclaimed, OtherTask
<1>6. ExecTypes'
  BY <1>1, <1>2, <1>5 DEF ExecInv, ExecTypes
<1> QED
  BY <1>4, <1>5, <1>6 DEF ExecInv

\* A decision is taken while the task waits for one, so none of its verdicts
\* passed before, whatever the reviewer had read of them.
LEMMA DecideKeeps ==
  ASSUME ExecInv, NEW r \in Reviewer, NEW e \in evidence, NEW verdict \in Decisions, Decide(r, e, verdict)
  PROVE  ExecInv'
<1> DEFINE k == e.task
           f == [e EXCEPT !.verdict = verdict]
           status == IF verdict = "passed" THEN "verified" ELSE "in_progress"
<1>1. /\ Turns(k, status) /\ Unclaimed(k) /\ assignment[k] = "submitted"
      /\ evidence' = (evidence \ {e}) \cup {f} /\ deciding' = [deciding EXCEPT ![r] = 0]
      /\ UNCHANGED <<sitting, starting, broken>>
  BY DEF Decide, Decidable
<1>2. k \in Assignment /\ status \in TaskStates /\ e \in EvidenceT
  BY DEF ExecInv, ExecTypes, EvidenceT, TaskStates
<1>3. f \in EvidenceT /\ f.task = k /\ f.verdict = verdict
  BY <1>2 DEF EvidenceT, Decisions
<1>4. IsFiniteSet(evidence') /\ evidence' \subseteq EvidenceT
  <2>1. IsFiniteSet(evidence \ {e}) /\ evidence \subseteq EvidenceT
    BY FS_RemoveElement DEF ExecInv, ExecTypes
  <2> QED
    BY <1>1, <1>3, <2>1, FS_AddElement
<1> HIDE DEF f
<1>5. /\ StartsAreApart' /\ OneSits' /\ IndexErrorNeedsTwoSpaces'
      /\ assignment' \in [Assignment -> TaskStates \cup {Absent}]
  BY <1>1, <1>2, OtherTask
<1>6. ExecTypes'
  <2>1. deciding' \in [Reviewer -> 0..MaxEvidence]
    BY <1>1, ExecConstants DEF ExecInv, ExecTypes
  <2> QED
    BY <1>1, <1>4, <1>5, <2>1 DEF ExecInv, ExecTypes
<1>7. PassedOnce'
  <2>1. /\ assignment'[k] = status
        /\ \A j \in Assignment : j # k => assignment'[j] = assignment[j]
    BY <1>1, <1>2, TurnsOne DEF ExecInv
  <2>2. ASSUME NEW j \in Assignment, j # k
        PROVE  IF assignment'[j] \in {"verified", "done"}
               THEN Cardinality(Passed(j)') = 1 ELSE Passed(j)' = {}
    <3>1. Passed(j)' = Passed(j)
      BY <1>1, <1>3, <2>2 DEF Passed
    <3>2. IF assignment[j] \in {"verified", "done"}
          THEN Cardinality(Passed(j)) = 1 ELSE Passed(j) = {}
      BY DEF ExecInv, PassedOnce
    <3> QED
      BY <2>1, <2>2, <3>1, <3>2
  <2>3. Passed(k) = {}
    BY <1>1, <1>2 DEF ExecInv, PassedOnce
  <2>4. CASE verdict = "passed"
    <3>1. Passed(k)' = {f}
      BY <1>1, <1>3, <2>3, <2>4 DEF Passed
    <3>2. Cardinality(Passed(k)') = 1 /\ assignment'[k] = "verified"
      BY <2>1, <2>4, <3>1, FS_Singleton
    <3> QED
      BY <2>2, <3>2 DEF PassedOnce
  <2>5. CASE verdict # "passed"
    <3>1. Passed(k)' = {} /\ assignment'[k] = "in_progress"
      BY <1>1, <1>3, <2>1, <2>3, <2>5 DEF Passed
    <3> QED
      BY <2>2, <3>1 DEF PassedOnce
  <2> QED
    BY <2>4, <2>5
<1> QED
  BY <1>5, <1>6, <1>7 DEF ExecInv

\* A verified task stays verified when it is closed.
LEMMA CloseKeeps == ASSUME ExecInv, NEW k \in Assignment, CloseTask(k) PROVE ExecInv'
<1>1. /\ Turns(k, "done") /\ Unclaimed(k) /\ assignment[k] = "verified" /\ "done" \in TaskStates
      /\ UNCHANGED <<sitting, starting, evidence, broken, deciding>>
  BY DEF CloseTask, TaskStates
<1>2. /\ StartsAreApart' /\ OneSits' /\ IndexErrorNeedsTwoSpaces'
      /\ assignment' \in [Assignment -> TaskStates \cup {Absent}]
  BY <1>1, OtherTask
<1>3. ExecTypes'
  BY <1>1, <1>2 DEF ExecInv, ExecTypes
<1>4. ASSUME NEW j \in Assignment
      PROVE  IF assignment'[j] \in {"verified", "done"}
             THEN Cardinality(Passed(j)') = 1 ELSE Passed(j)' = {}
  <2>1. Passed(j)' = Passed(j)
    BY <1>1 DEF Passed
  <2>2. assignment'[j] \in {"verified", "done"} <=> assignment[j] \in {"verified", "done"}
    BY <1>1, TurnsOne DEF ExecInv
  <2> QED
    BY <2>1, <2>2 DEF ExecInv, PassedOnce
<1> QED
  BY <1>2, <1>3, <1>4 DEF ExecInv, PassedOnce

-----------------------------------------------------------------------------
(* Sessions.                                                               *)

\* A start locks a space nobody else holds, in which no session is active.
LEMMA BeginKeeps == ASSUME ExecInv, NEW s \in Sitting, NEW k \in Assignment, BeginSitting(s, k) PROVE ExecInv'
<1> DEFINE o == [sitting |-> s, task |-> k]
<1>1. /\ Writable(k) /\ assignment[k] \in {"planned", "in_progress"} /\ ActiveSittings = {}
      /\ starting' = starting \cup {o} /\ UNCHANGED <<assignment, sitting, evidence, broken, deciding>>
  BY DEF BeginSitting, SpaceGuards
<1>2. o \in StartT /\ o.task = k
  BY DEF StartT
<1> HIDE DEF o
<1>3. ExecTypes'
  BY <1>1, <1>2 DEF ExecInv, ExecTypes
<1>4. ActiveSittings' = {}
  BY <1>1 DEF ActiveSittings
<1>5. StartsAreApart'
  BY <1>1, <1>2, <1>4 DEF ExecInv, StartsAreApart, Writable
<1>6. PassedOnce' /\ IndexErrorNeedsTwoSpaces'
  BY <1>1 DEF ExecInv, PassedOnce, Passed, IndexErrorNeedsTwoSpaces
<1> QED
  BY <1>3, <1>4, <1>5, <1>6 DEF ExecInv, OneSits

\* The index takes the first of two starts, and refuses the second: they hold
\* two spaces.
LEMMA InsertKeeps == ASSUME ExecInv, NEW o \in starting, InsertSitting(o) PROVE ExecInv'
<1> DEFINE s == o.sitting
           k == o.task
           row == [status |-> "active", task |-> k]
<1>1. /\ s \in Sitting /\ k \in Assignment /\ starting' = starting \ {o}
      /\ evidence' = evidence /\ deciding' = deciding
      /\ assignment[k] \in {"planned", "in_progress"} /\ "in_progress" \in TaskStates
      /\ sitting \in [Sitting -> SittingT]
  BY DEF ExecInv, ExecTypes, StartsAreApart, StartT, InsertSitting, TaskStates
<1>2. CASE Admits(s)
  <2>1. /\ sitting' = [sitting EXCEPT ![s] = row] /\ Turns(k, "in_progress") /\ broken' = broken
        /\ ActiveSittings = {}
    BY <1>2 DEF InsertSitting, Admits
  <2>2. row \in SittingT /\ row.status = "active" /\ row.task = k
    BY <1>1 DEF SittingT
  <2>3. \A p \in starting : p # o => p.task # k /\ HomeOf[p.task] # HomeOf[k] /\ p.task \in Assignment
    BY DEF ExecInv, StartsAreApart, ExecTypes, StartT
  <2>4. /\ assignment' \in [Assignment -> TaskStates \cup {Absent}]
        /\ \A j \in Assignment : j # k => assignment'[j] = assignment[j]
    BY <1>1, <2>1, TurnsOne DEF ExecInv
  <2> HIDE DEF row, k, s
  <2>5. /\ sitting' \in [Sitting -> SittingT]
        /\ \A x \in Sitting : sitting'[x] = IF x = s THEN row ELSE sitting[x]
    BY <1>1, <2>1, <2>2
  <2>6. ActiveSittings' = {s}
    BY <1>1, <2>1, <2>2, <2>5 DEF ActiveSittings
  <2>7. ExecTypes'
    BY <1>1, <2>2, <2>4, <2>5 DEF ExecInv, ExecTypes
  <2>8. StartsAreApart'
    BY <1>1, <2>2, <2>3, <2>4, <2>5, <2>6 DEF ExecInv, StartsAreApart
  <2>9. PassedOnce'
    <3>1. \A j \in Assignment : Passed(j)' = Passed(j)
      BY <1>1 DEF Passed
    <3>2. assignment[k] \notin {"verified", "done"}
      BY <1>1
    <3> QED
      BY <1>1, <2>1, <3>1, <3>2, PassedStays
  <2> QED
    BY <2>1, <2>6, <2>7, <2>8, <2>9 DEF ExecInv, OneSits, IndexErrorNeedsTwoSpaces
<1>3. CASE ~Admits(s)
  <2>1. /\ assignment' = assignment /\ sitting' = sitting
        /\ broken' = broken \cup {<<HomeOf[k], HomeOf[sitting[a].task]>> : a \in ActiveSittings}
    BY <1>3 DEF InsertSitting
  <2>2. \A a \in ActiveSittings : HomeOf[sitting[a].task] # HomeOf[k]
    BY DEF ExecInv, StartsAreApart
  <2>3. IndexErrorNeedsTwoSpaces'
    BY <2>1, <2>2 DEF ExecInv, IndexErrorNeedsTwoSpaces
  <2>4. ActiveSittings' = ActiveSittings
    BY <2>1 DEF ActiveSittings
  <2>5. ExecTypes' /\ PassedOnce'
    BY <1>1, <2>1 DEF ExecInv, ExecTypes, PassedOnce, Passed
  <2>6. StartsAreApart' /\ OneSits'
    BY <1>1, <2>1, <2>4 DEF ExecInv, StartsAreApart, OneSits
  <2> QED
    BY <2>3, <2>5, <2>6 DEF ExecInv
<1> QED
  BY <1>2, <1>3

LEMMA FinishKeeps ==
  ASSUME ExecInv, NEW s \in Sitting, NEW outcome \in {"completed", "abandoned"}, FinishSession(s, outcome)
  PROVE  ExecInv'
<1> DEFINE row == [sitting[s] EXCEPT !.status = outcome]
<1>1. /\ sitting \in [Sitting -> SittingT] /\ sitting[s] \in SittingT
      /\ UNCHANGED <<assignment, starting, evidence, broken, deciding>>
  BY DEF FinishSession, ExecInv, ExecTypes
<1>2. sitting' = [sitting EXCEPT ![s] = row]
  BY <1>1 DEF FinishSession
<1>3. row \in SittingT /\ row.status \notin {"none", "active"}
  BY <1>1 DEF SittingT
<1> HIDE DEF row
<1>4. /\ sitting' \in [Sitting -> SittingT]
      /\ \A x \in Sitting : sitting'[x] = IF x = s THEN row ELSE sitting[x]
  BY <1>1, <1>2, <1>3
<1>5. /\ ActiveSittings' \subseteq ActiveSittings
      /\ \A x \in ActiveSittings' : sitting'[x] = sitting[x]
  BY <1>3, <1>4 DEF ActiveSittings
<1>6. ExecTypes'
  BY <1>1, <1>3, <1>4 DEF ExecInv, ExecTypes
<1>7. StartsAreApart' /\ OneSits'
  BY <1>1, <1>5 DEF ExecInv, StartsAreApart, OneSits
<1>8. PassedOnce' /\ IndexErrorNeedsTwoSpaces'
  BY <1>1 DEF ExecInv, PassedOnce, Passed, IndexErrorNeedsTwoSpaces
<1> QED
  BY <1>6, <1>7, <1>8 DEF ExecInv

LEMMA ExecInvInit == ASSUME ExecInit PROVE ExecInv
<1>1. NoSitting \in SittingT /\ NoSitting.status = "none"
  BY DEF NoSitting, SittingT
<1>2. ExecTypes
  BY <1>1, ExecConstants, FS_EmptySet DEF ExecInit, ExecTypes
<1>3. PassedOnce
  BY DEF ExecInit, PassedOnce, Passed, Absent
<1> QED
  BY <1>1, <1>2, <1>3 DEF ExecInit, ExecInv, StartsAreApart, OneSits, ActiveSittings, IndexErrorNeedsTwoSpaces

LEMMA ExecInvStep == ASSUME ExecInv, [ExecNext]_execVars PROVE ExecInv'
<1>1. ASSUME NEW k \in Assignment,
             \/ \E planned \in BOOLEAN : CreateTask(k, planned)
             \/ \E status \in TaskStates : TransitionTask(k, status)
      PROVE  ExecInv'
  BY <1>1, TaskKeeps
<1>2. ASSUME NEW k \in Assignment, NEW s \in Sitting, BeginSitting(s, k) PROVE ExecInv'
  BY <1>2, BeginKeeps
<1>3. ASSUME NEW k \in Assignment, SubmitEvidence(k) \/ CloseTask(k) PROVE ExecInv'
  BY <1>3, SubmitKeeps, CloseKeeps
<1>4. ASSUME NEW o \in starting, InsertSitting(o) PROVE ExecInv'
  BY <1>4, InsertKeeps
<1>5. ASSUME NEW s \in Sitting, NEW outcome \in {"completed", "abandoned"}, FinishSession(s, outcome)
      PROVE  ExecInv'
  BY <1>5, FinishKeeps
<1>6. ASSUME NEW r \in Reviewer, NEW e \in evidence, NEW verdict \in Decisions, Decide(r, e, verdict)
      PROVE  ExecInv'
  BY <1>6, DecideKeeps
<1>8. ASSUME NEW r \in Reviewer, (\E e \in evidence : ReadVerification(r, e)) \/ Undecided(r) PROVE ExecInv'
  <2>1. /\ UNCHANGED <<assignment, sitting, starting, evidence, broken>>
        /\ \E n \in 0..MaxEvidence : deciding' = [deciding EXCEPT ![r] = n]
    BY <1>8, ExecConstants DEF ReadVerification, Undecided, ExecInv, ExecTypes, EvidenceT
  <2> QED
    BY <2>1 DEF ExecInv, ExecTypes, StartsAreApart, OneSits, ActiveSittings,
                IndexErrorNeedsTwoSpaces, PassedOnce, Passed
<1>7. ASSUME UNCHANGED execVars PROVE ExecInv'
  BY <1>7 DEF execVars, ExecInv, ExecTypes, StartsAreApart, OneSits, ActiveSittings,
              IndexErrorNeedsTwoSpaces, PassedOnce, Passed
<1> QED
  BY <1>1, <1>2, <1>3, <1>4, <1>5, <1>6, <1>7, <1>8 DEF ExecNext

\* A member sits over one task at a time, in whatever spaces sessions are
\* started at once; the error of the index is met only by starts in two
\* spaces; and a task that is verified or done has exactly one passed
\* verification (execution/service.py, evidence_service.py).
THEOREM StudyKeepsOrder == ExecSpec => []StudyIsOrderly
<1>1. ExecInit => ExecInv
  BY ExecInvInit
<1>2. ExecInv /\ [ExecNext]_execVars => ExecInv'
  BY ExecInvStep
<1>3. ExecInv => StudyIsOrderly
  <2> SUFFICES ASSUME ExecInv PROVE StudyIsOrderly
    OBVIOUS
  <2>1. ASSUME NEW S, \A x, y \in S : x = y PROVE Cardinality(S) <= 1
    <3>1. CASE S = {}
      BY <3>1, FS_EmptySet
    <3>2. ASSUME NEW x \in S PROVE Cardinality(S) <= 1
      <4>1. S = {x}
        BY <2>1
      <4> QED
        BY <4>1, FS_Singleton
    <3> QED
      BY <3>1, <3>2
  <2>2. OneActiveSitting
    BY <2>1 DEF ExecInv, OneSits, OneActiveSitting
  <2> QED
    BY <2>2 DEF ExecInv, StudyIsOrderly
<1> QED
  BY <1>1, <1>2, <1>3, PTL DEF ExecSpec

\* A verdict that passed stands, and a task or session that has ended does not
\* come back: reopening, resubmitting and closing leave the past alone.  A
\* verdict that asks for more work is replaced only by a reviewer that read
\* the verification before it was given.
THEOREM StudyOutcomesAreFinal == ExecSpec => [][ExecOutcomeIsFinal]_execVars
<1>1. ExecInit => ExecInv
  BY ExecInvInit
<1>2. ExecInv /\ [ExecNext]_execVars => ExecInv'
  BY ExecInvStep
<1>3. ExecInv /\ [ExecNext]_execVars => [ExecOutcomeIsFinal]_execVars
  <2> SUFFICES ASSUME ExecInv, ExecNext PROVE ExecOutcomeIsFinal
    OBVIOUS
  <2> DEFINE KeepsVerdicts == \A e \in evidence :
               e.verdict # "pending" /\ e \notin evidence' =>
                 e.verdict # "passed" /\ \E r \in Reviewer : deciding[r] = e.id /\ deciding'[r] = 0
             KeepsTasks == \A k \in Assignment :
                             /\ assignment[k] \in {"done", "cancelled"} => assignment'[k] = assignment[k]
                             /\ assignment[k] = "verified" => assignment'[k] \in {"verified", "done"}
             KeepsSittings == \A s \in Sitting :
                                sitting[s].status \in {"completed", "abandoned"} => sitting'[s] = sitting[s]
  <2> SUFFICES KeepsVerdicts /\ KeepsTasks /\ KeepsSittings
    BY DEF ExecOutcomeIsFinal
  <2>1. ASSUME NEW k \in Assignment, NEW status \in TaskStates, Turns(k, status),
               assignment[k] \notin {"done", "cancelled"},
               assignment[k] = "verified" => status = "done"
        PROVE  KeepsTasks
    BY <2>1, TurnsOne DEF ExecInv
  <2>2. ASSUME NEW k \in Assignment, NEW planned \in BOOLEAN, CreateTask(k, planned)
        PROVE  KeepsVerdicts /\ KeepsTasks /\ KeepsSittings
    BY <2>1, <2>2 DEF CreateTask, TaskStates, Absent
  <2>3. ASSUME NEW k \in Assignment, NEW status \in TaskStates, TransitionTask(k, status)
        PROVE  KeepsVerdicts /\ KeepsTasks /\ KeepsSittings
    <3>1. assignment[k] \in TaskStates /\ status \in Transitions[assignment[k]] /\ Turns(k, status)
          /\ UNCHANGED <<sitting, evidence>>
      BY <2>3 DEF TransitionTask, Existing, ExecInv, ExecTypes
    <3>2. assignment[k] \notin {"done", "cancelled", "verified"}
      BY <3>1 DEF Transitions, TaskStates
    <3> QED
      BY <2>1, <3>1, <3>2
  <2>4. ASSUME NEW k \in Assignment, NEW s \in Sitting, BeginSitting(s, k)
        PROVE  KeepsVerdicts /\ KeepsTasks /\ KeepsSittings
    BY <2>4 DEF BeginSitting
  <2>5. ASSUME NEW k \in Assignment, SubmitEvidence(k)
        PROVE  KeepsVerdicts /\ KeepsTasks /\ KeepsSittings
    BY <2>1, <2>5 DEF SubmitEvidence, TaskStates
  <2>6. ASSUME NEW k \in Assignment, CloseTask(k) PROVE KeepsVerdicts /\ KeepsTasks /\ KeepsSittings
    BY <2>1, <2>6 DEF CloseTask, TaskStates
  <2>7. ASSUME NEW o \in starting, InsertSitting(o) PROVE KeepsVerdicts /\ KeepsTasks /\ KeepsSittings
    <3>1. /\ o.sitting \in Sitting /\ o.task \in Assignment /\ assignment[o.task] \in {"planned", "in_progress"}
          /\ evidence' = evidence /\ "in_progress" \in TaskStates
      BY <2>7 DEF InsertSitting, ExecInv, ExecTypes, StartsAreApart, StartT, TaskStates
    <3>2. CASE Admits(o.sitting)
      <4>1. KeepsTasks
        BY <2>1, <2>7, <3>1, <3>2 DEF InsertSitting
      <4>2. KeepsSittings
        BY <2>7, <3>2 DEF InsertSitting, Admits, NoSitting, ExecInv, ExecTypes
      <4> QED
        BY <3>1, <4>1, <4>2
    <3>3. CASE ~Admits(o.sitting)
      BY <2>7, <3>1, <3>3 DEF InsertSitting
    <3> QED
      BY <3>2, <3>3
  <2>8. ASSUME NEW s \in Sitting, NEW outcome \in {"completed", "abandoned"}, FinishSession(s, outcome)
        PROVE  KeepsVerdicts /\ KeepsTasks /\ KeepsSittings
    BY <2>8 DEF FinishSession, ExecInv, ExecTypes
  <2>9. ASSUME NEW r \in Reviewer, NEW e \in evidence, NEW verdict \in Decisions, Decide(r, e, verdict)
        PROVE  KeepsVerdicts /\ KeepsTasks /\ KeepsSittings
    <3>1. /\ e.task \in Assignment /\ assignment[e.task] = "submitted"
          /\ deciding[r] = e.id /\ deciding'[r] = 0 /\ UNCHANGED sitting
      BY <2>9 DEF Decide, Decidable, ExecInv, ExecTypes, EvidenceT
    <3>2. e.verdict # "passed"
      BY <3>1 DEF ExecInv, PassedOnce, Passed
    <3>3. KeepsVerdicts
      BY <2>9, <3>1, <3>2 DEF Decide
    <3>4. KeepsTasks
      BY <2>1, <2>9, <3>1 DEF Decide, TaskStates
    <3> QED
      BY <3>1, <3>3, <3>4
  <2>10. ASSUME NEW r \in Reviewer, (\E e \in evidence : ReadVerification(r, e)) \/ Undecided(r)
         PROVE  KeepsVerdicts /\ KeepsTasks /\ KeepsSittings
    BY <2>10 DEF ReadVerification, Undecided
  <2> QED
    BY <2>2, <2>3, <2>4, <2>5, <2>6, <2>7, <2>8, <2>9, <2>10 DEF ExecNext
<1> QED
  BY <1>1, <1>2, <1>3, PTL DEF ExecSpec

-----------------------------------------------------------------------------
(* Quotas.                                                                 *)

QuotaInv ==
  /\ ExecInv
  /\ IsFiniteSet(Existing) /\ Cardinality(Existing) <= TaskQuota
  /\ \A k \in Assignment : Cardinality(EvidenceIn(HomeOf[k])) <= EvidenceQuota

\* A quota is looked at under the lock of the space, so what comes in between
\* a look and a write adds nothing to it.
LEMMA QuotaStep == ASSUME QuotaInv, [ExecNext]_execVars PROVE QuotaInv'
<1>0. ExecInv' /\ ExecInv /\ TaskQuota \in Nat /\ EvidenceQuota \in Nat
      /\ Cardinality(Existing) \in Nat
  BY ExecInvStep, ExecConstants, FS_CardinalityType DEF QuotaInv
<1>1. ASSUME NEW S, IsFiniteSet(S), NEW x, NEW n \in Nat, Cardinality(S) < n
      PROVE  IsFiniteSet(S \cup {x}) /\ Cardinality(S \cup {x}) <= n
  <2>1. CASE x \in S
    <3>1. S \cup {x} = S
      BY <2>1
    <3>2. Cardinality(S) \in Nat
      BY <1>1, FS_CardinalityType
    <3> QED
      BY <1>1, <3>1, <3>2
  <2>2. CASE x \notin S
    <3>1. IsFiniteSet(S \cup {x}) /\ Cardinality(S \cup {x}) = Cardinality(S) + 1
      BY <1>1, <2>2, FS_AddElement
    <3>2. Cardinality(S) \in Nat /\ Cardinality(S) < n
      BY <1>1, FS_CardinalityType
    <3>3. ASSUME NEW c \in Nat, c < n PROVE c + 1 <= n
      BY <3>3
    <3>4. Cardinality(S) + 1 <= n
      BY <3>2, <3>3
    <3> QED
      BY <3>1, <3>4
  <2> QED
    BY <2>1, <2>2
<1>2. ASSUME evidence' = evidence
      PROVE  \A k \in Assignment : Cardinality(EvidenceIn(HomeOf[k])') <= EvidenceQuota
  BY <1>2 DEF QuotaInv, EvidenceIn
<1>3. ASSUME Existing' = Existing PROVE IsFiniteSet(Existing') /\ Cardinality(Existing') <= TaskQuota
  BY <1>3 DEF QuotaInv
<1>4. ASSUME NEW k \in Assignment, NEW status \in TaskStates, Turns(k, status)
      PROVE  Existing' = Existing \cup {k}
  BY <1>0, <1>4, TurnsOne DEF ExecInv, Existing, TaskStates, Absent
<1>5. \A k \in Assignment : assignment[k] \in TaskStates => k \in Existing
  BY DEF Existing, TaskStates, Absent
<1>6. ASSUME NEW k \in Assignment, NEW planned \in BOOLEAN, CreateTask(k, planned) PROVE QuotaInv'
  <2>1. Existing' = Existing \cup {k} /\ evidence' = evidence /\ Cardinality(Existing) < TaskQuota
    BY <1>4, <1>6 DEF CreateTask, TaskStates
  <2> QED
    BY <1>0, <1>1, <1>2, <2>1 DEF QuotaInv
<1>7. ASSUME NEW k \in Existing, NEW status \in TaskStates, Turns(k, status), evidence' = evidence
      PROVE  QuotaInv'
  <2>1. Existing' = Existing
    BY <1>4, <1>7 DEF Existing
  <2> QED
    BY <1>0, <1>2, <1>3, <1>7, <2>1 DEF QuotaInv
<1>8. ASSUME assignment' = assignment, evidence' = evidence PROVE QuotaInv'
  BY <1>0, <1>2, <1>3, <1>8 DEF QuotaInv, Existing
<1>9. ASSUME NEW k \in Assignment, SubmitEvidence(k) PROVE QuotaInv'
  <2> DEFINE e == [id |-> Cardinality(evidence) + 1, task |-> k, verdict |-> "pending"]
  <2>1. /\ evidence' = evidence \cup {e} /\ e.task = k /\ Existing' = Existing
        /\ Cardinality(EvidenceIn(HomeOf[k])) < EvidenceQuota
    BY <1>4, <1>5, <1>9 DEF SubmitEvidence, TaskStates, Existing, Absent
  <2> HIDE DEF e
  <2>2. ASSUME NEW j \in Assignment PROVE Cardinality(EvidenceIn(HomeOf[j])') <= EvidenceQuota
    <3>1. CASE HomeOf[j] = HomeOf[k]
      <4>1. EvidenceIn(HomeOf[j])' = EvidenceIn(HomeOf[j]) \cup {e}
        BY <2>1, <3>1 DEF EvidenceIn
      <4>2. IsFiniteSet(EvidenceIn(HomeOf[j]))
        BY <1>0, FS_Subset DEF EvidenceIn, ExecInv, ExecTypes
      <4> QED
        BY <1>0, <1>1, <2>1, <3>1, <4>1, <4>2
    <3>2. CASE HomeOf[j] # HomeOf[k]
      <4>1. EvidenceIn(HomeOf[j])' = EvidenceIn(HomeOf[j])
        BY <2>1, <3>2 DEF EvidenceIn
      <4> QED
        BY <4>1 DEF QuotaInv
    <3> QED
      BY <3>1, <3>2
  <2> QED
    BY <1>0, <1>3, <2>1, <2>2 DEF QuotaInv
<1>10. ASSUME NEW r \in Reviewer, NEW e \in evidence, NEW verdict \in Decisions, Decide(r, e, verdict)
       PROVE  QuotaInv'
  <2> DEFINE f == [e EXCEPT !.verdict = verdict]
  <2>1. /\ evidence' = (evidence \ {e}) \cup {f} /\ e \in EvidenceT
        /\ assignment[e.task] = "submitted" /\ IsFiniteSet(evidence)
    BY <1>0, <1>10 DEF Decide, Decidable, ExecInv, ExecTypes
  <2>2. f.task = e.task /\ e.task \in Assignment
    BY <2>1 DEF EvidenceT
  <2>3. Existing' = Existing
    BY <1>4, <1>10, <2>1, <2>2 DEF Decide, TaskStates, Existing, Absent
  <2> HIDE DEF f
  <2>4. ASSUME NEW j \in Assignment PROVE Cardinality(EvidenceIn(HomeOf[j])') <= EvidenceQuota
    <3> DEFINE S == EvidenceIn(HomeOf[j])
    <3>1. IsFiniteSet(S) /\ Cardinality(S) <= EvidenceQuota /\ Cardinality(S) \in Nat
      BY <2>1, FS_Subset, FS_CardinalityType DEF EvidenceIn, QuotaInv
    <3>2. CASE e \in S
      <4>1. EvidenceIn(HomeOf[j])' = (S \ {e}) \cup {f}
        BY <2>1, <2>2, <3>2 DEF EvidenceIn
      <4> HIDE DEF S
      <4>2. IsFiniteSet(S \ {e}) /\ Cardinality(S \ {e}) = Cardinality(S) - 1
        BY <3>1, <3>2, FS_RemoveElement
      <4>3. Cardinality(S \ {e}) < EvidenceQuota
        BY <1>0, <3>1, <4>2
      <4> QED
        BY <1>0, <1>1, <4>1, <4>2, <4>3
    <3>3. CASE e \notin S
      <4>1. EvidenceIn(HomeOf[j])' = S
        BY <2>1, <2>2, <3>3 DEF EvidenceIn
      <4> QED
        BY <3>1, <4>1
    <3> QED
      BY <3>2, <3>3
  <2> QED
    BY <1>0, <1>3, <2>3, <2>4 DEF QuotaInv
<1>11. ASSUME NEW o \in starting, InsertSitting(o) PROVE QuotaInv'
  <2>1. o.task \in Existing /\ evidence' = evidence /\ "in_progress" \in TaskStates
    BY <1>0, <1>11 DEF InsertSitting, ExecInv, ExecTypes, StartsAreApart, StartT, Existing, Absent, TaskStates
  <2> QED
    BY <1>7, <1>8, <1>11, <2>1 DEF InsertSitting
<1> QED
  BY <1>6, <1>7, <1>8, <1>9, <1>10, <1>11
     DEF ExecNext, execVars, ReadVerification, Undecided, TransitionTask, BeginSitting, CloseTask, FinishSession, TaskStates, Existing, Absent

\* Every row has its type, no goal has more tasks than its quota and no space
\* more evidence, however requests overlap.
THEOREM QuotasAreKept == ExecSpec => []ExecTypeOK
<1>1. ExecInit => QuotaInv
  <2> SUFFICES ASSUME ExecInit PROVE QuotaInv
    OBVIOUS
  <2>1. Existing = {} /\ evidence = {}
    BY DEF ExecInit, Existing
  <2>2. \A k \in Assignment : EvidenceIn(HomeOf[k]) = {}
    BY <2>1 DEF EvidenceIn
  <2> QED
    BY <2>1, <2>2, ExecInvInit, ExecConstants, FS_EmptySet DEF QuotaInv
<1>2. QuotaInv /\ [ExecNext]_execVars => QuotaInv'
  BY QuotaStep
<1>3. QuotaInv => ExecTypeOK
  BY DEF QuotaInv, ExecInv, ExecTypes, ExecTypeOK, SittingT
<1> QED
  BY <1>1, <1>2, <1>3, PTL DEF ExecSpec

-----------------------------------------------------------------------------
(* What is learned (Memory).                                               *)

IdT == Learner \cup {"none"}
PatternT == [id : IdT, version : Nat \ {0}, count : Nat, latest : Nat, status : {"open", "resolved"}]
ScheduleT == [id : IdT, version : Nat \ {0}, status : {"due", "scheduled"}, days : 0..2]
MasteryT == [id : IdT, version : Nat \ {0}, level : 0..2]
ReviewT == [status : {"none", "draft", "completed"}, version : Nat, made : Nat, findings : Nat, sealed : Nat]
EventT == [what : {"right", "wrong", "confirm"}, by : 0..2]
SeenT == [pattern : PatternT \cup {NoRecord}, schedule : ScheduleT \cup {NoRecord},
          mastery : MasteryT \cup {NoRecord}, review : ReviewT]
Asked == {"none", "right", "wrong", "mode", "retire", "remove", "resolve", "confirm", "review", "finding", "complete"}
HeldT == PatternT \cup MasteryT \cup ReviewT \cup {NoRecord}
RequestT == [what : Asked, arg : 0..2, held : HeldT]

LearnTypes ==
  /\ topicLive \in BOOLEAN /\ quizItem \in [live : BOOLEAN, mode : 0..2]
  /\ history \in Seq(EventT)
  /\ pattern \in PatternT \cup {NoRecord} /\ schedule \in ScheduleT \cup {NoRecord}
  /\ mastery \in MasteryT \cup {NoRecord} /\ review \in ReviewT
  /\ known \in [Learner -> SeenT] /\ request \in [Learner -> RequestT]

\* What a request has seen and locked in its first half stays until the second.
RequestsHold ==
  /\ \A d \in Learner :
       /\ request[d].what \in Verdicts => quizItem.live /\ request[d].arg = quizItem.mode
       /\ request[d].what = "finding" => review.status = "draft"
       /\ known[d].pattern.version > 0 \/ request[d].what = "resolve" => pattern # NoRecord
  /\ ~topicLive => ~quizItem.live

PatternIsMade == WrongAnswers # {} => pattern # NoRecord
Kind(events, what) == {i \in DOMAIN events : events[i].what \in what}
Confirms == Kind(history, {"confirm"})
LatestAreThere ==
  /\ Scheduling # {} => LatestOf(Scheduling) \in Scheduling
  /\ mastery.version > 0 => LatestOf(Confirms) \in Confirms

LearnInv == LearnTypes /\ RequestsHold /\ PatternIsMade /\ LatestAreThere /\ LearningIsRecorded

\* The last of a set of numbers is the one that no other exceeds.
LEMMA LatestIs ==
  ASSUME NEW S \in SUBSET Nat, NEW n \in S, \A j \in S : j <= n
  PROVE  LatestOf(S) = n
<1>1. \A i \in S : (\A j \in S : j <= i) => i = n
  OBVIOUS
<1> QED
  BY <1>1 DEF LatestOf

\* One more event: it is the last, and of its kind.
LEMMA HistoryGrows ==
  ASSUME NEW events \in Seq(EventT), NEW e \in EventT, NEW W
  PROVE  /\ Append(events, e) \in Seq(EventT)
         /\ Len(Append(events, e)) = Len(events) + 1
         /\ Append(events, e)[Len(events) + 1] = e
         /\ \A i \in DOMAIN events : i \in Nat /\ i <= Len(events) /\ Append(events, e)[i] = events[i]
         /\ DOMAIN Append(events, e) = DOMAIN events \cup {Len(events) + 1}
         /\ Kind(Append(events, e), W) = IF e.what \in W THEN Kind(events, W) \cup {Len(events) + 1}
                                         ELSE Kind(events, W)
<1>1. /\ Append(events, e) \in Seq(EventT) /\ Len(Append(events, e)) = Len(events) + 1
      /\ Append(events, e)[Len(events) + 1] = e /\ Len(events) \in Nat /\ DOMAIN events = 1..Len(events)
      /\ \A i \in 1..Len(events) : Append(events, e)[i] = events[i]
  OBVIOUS
<1>2. DOMAIN Append(events, e) = 1..(Len(events) + 1)
  BY <1>1
<1>3. DOMAIN Append(events, e) = DOMAIN events \cup {Len(events) + 1}
  BY <1>1, <1>2
<1> DEFINE longer == Append(events, e)
           n == Len(events) + 1
<1>4. /\ longer[n] = e /\ DOMAIN longer = DOMAIN events \cup {n}
      /\ \A i \in DOMAIN events : longer[i] = events[i] /\ i # n
  BY <1>1, <1>3
<1> HIDE DEF longer, n
<1>5. Kind(longer, W) = IF e.what \in W THEN Kind(events, W) \cup {n} ELSE Kind(events, W)
  BY <1>4 DEF Kind
<1> QED
  BY <1>1, <1>3, <1>5 DEF longer, n

\* A kind of events is finite, and one more of it is one more.
LEMMA KindCounts ==
  ASSUME NEW events \in Seq(EventT), NEW W
  PROVE  /\ IsFiniteSet(Kind(events, W)) /\ Cardinality(Kind(events, W)) \in Nat
         /\ Kind(events, W) \subseteq Nat
         /\ Len(events) + 1 \notin Kind(events, W)
         /\ \A i \in Kind(events, W) : i <= Len(events)
         /\ Cardinality(Kind(events, W) \cup {Len(events) + 1}) = Cardinality(Kind(events, W)) + 1
<1>1. DOMAIN events = 1..Len(events) /\ Len(events) \in Nat
  OBVIOUS
<1>2. IsFiniteSet(1..Len(events)) /\ Kind(events, W) \subseteq 1..Len(events)
  BY <1>1, FS_Interval DEF Kind
<1>3. IsFiniteSet(Kind(events, W))
  BY <1>2, FS_Subset
<1>4. Len(events) + 1 \notin Kind(events, W) /\ Kind(events, W) \subseteq Nat
      /\ \A i \in Kind(events, W) : i <= Len(events)
  BY <1>1, <1>2
<1> QED
  BY <1>3, <1>4, FS_AddElement, FS_CardinalityType

\* The parts of the history are kinds of events.
LEMMA Kinds ==
  ASSUME LearnTypes
  PROVE  /\ WrongAnswers = Kind(history, {"wrong"}) /\ Scheduling = Kind(history, {"wrong", "confirm"})
         /\ {i \in DOMAIN history : history[i].what = "confirm"} = Confirms
<1>1. \A i \in DOMAIN history : history[i] \in EventT
  BY DEF LearnTypes
<1>2. \A i \in DOMAIN history : history[i].what \in {"right", "wrong", "confirm"}
  BY <1>1 DEF EventT
<1> QED
  BY <1>2 DEF WrongAnswers, Scheduling, Confirms, Kind

\* What stays when nothing is learned.
LEMMA LearnedRests ==
  /\ UNCHANGED <<history, pattern>> => (PatternCounts => PatternCounts') /\ (PatternIsMade => PatternIsMade')
  /\ UNCHANGED <<history, schedule, mastery>> =>
       (ScheduleFollows => ScheduleFollows') /\ (LatestAreThere => LatestAreThere')
  /\ UNCHANGED <<history, quizItem>> /\ ModeIsLocked => ModeIsLocked'
  /\ UNCHANGED <<history, topicLive>> /\ HistoryKeepsTopic => HistoryKeepsTopic'
  /\ UNCHANGED review /\ ReviewIsSealed => ReviewIsSealed'
<1>1. UNCHANGED <<history, pattern>> => (PatternCounts => PatternCounts') /\ (PatternIsMade => PatternIsMade')
  BY DEF PatternCounts, PatternIsMade, WrongAnswers
<1>2. UNCHANGED <<history, schedule, mastery>> =>
        (ScheduleFollows => ScheduleFollows') /\ (LatestAreThere => LatestAreThere')
  BY DEF ScheduleFollows, LatestAreThere, Scheduling, Confirms, Kind
<1>3. UNCHANGED <<history, quizItem>> /\ ModeIsLocked => ModeIsLocked'
  BY DEF ModeIsLocked
<1>4. UNCHANGED <<history, topicLive>> /\ HistoryKeepsTopic => HistoryKeepsTopic'
  BY DEF HistoryKeepsTopic
<1>5. UNCHANGED review /\ ReviewIsSealed => ReviewIsSealed'
  BY DEF ReviewIsSealed
<1> QED
  BY <1>1, <1>2, <1>3, <1>4, <1>5

LEMMA RequestEnds ==
  ASSUME LearnTypes, NEW d \in Learner, EndRequest(d)
  PROVE  /\ known' = known /\ request' \in [Learner -> RequestT] /\ request'[d] = NoRequest
         /\ \A e \in Learner : e # d => request'[e] = request[e]
         /\ \A e \in Learner : request'[e].what # "none" => e # d /\ request'[e] = request[e]
<1>1. NoRequest \in RequestT /\ NoRequest.what = "none"
  BY DEF NoRequest, RequestT, Asked, HeldT
<1> QED
  BY <1>1 DEF EndRequest, LearnTypes

LEMMA RefreshKeeps == ASSUME LearnInv, NEW d \in Learner, Refresh(d) PROVE LearnInv'
<1>1. UNCHANGED <<older, topicLive, quizItem, history, pattern, schedule, mastery, review, request>>
      /\ known' = [known EXCEPT ![d] = LearnedRows]
  BY DEF Refresh
<1>2. LearnedRows \in SeenT /\ LearnedRows.pattern = pattern
  BY DEF LearnInv, LearnTypes, LearnedRows, SeenT
<1>3. NoRecord.version = 0
  BY DEF NoRecord
<1>4. /\ known' \in [Learner -> SeenT] /\ known'[d].pattern = pattern
      /\ \A e \in Learner : e # d => known'[e] = known[e]
  BY <1>1, <1>2 DEF LearnInv, LearnTypes
<1>5. LearnTypes'
  BY <1>1, <1>4 DEF LearnInv, LearnTypes
<1>6. RequestsHold'
  BY <1>1, <1>3, <1>4 DEF LearnInv, RequestsHold
<1> QED
  BY <1>1, <1>5, <1>6, LearnedRests DEF LearnInv, LearningIsRecorded

\* A request begins with what it has seen and locked.
Seen(what, arg) ==
  /\ what \in Verdicts => quizItem.live /\ arg = quizItem.mode
  /\ what = "finding" => review.status = "draft"
  /\ what = "resolve" => pattern # NoRecord
LEMMA BeginRequestKeeps ==
  ASSUME LearnInv, NEW d \in Learner, NEW what \in Asked, NEW arg \in 0..2, NEW held \in HeldT,
         Seen(what, arg), BeginRequest(d, what, arg, held)
  PROVE  LearnInv'
<1> DEFINE mine == [what |-> what, arg |-> arg, held |-> IF d \in older THEN NoRecord ELSE held]
<1>1. /\ UNCHANGED <<older, topicLive, quizItem, history, pattern, schedule, mastery, review, known>>
      /\ request' = [request EXCEPT ![d] = mine]
  BY DEF BeginRequest
<1>2. mine \in RequestT /\ mine.what = what /\ mine.arg = arg
  BY DEF RequestT, HeldT
<1> HIDE DEF mine
<1>3. /\ request' \in [Learner -> RequestT] /\ request'[d] = mine
      /\ \A e \in Learner : e # d => request'[e] = request[e]
  BY <1>1, <1>2 DEF LearnInv, LearnTypes
<1>4. LearnTypes'
  BY <1>1, <1>3 DEF LearnInv, LearnTypes
<1>5. RequestsHold'
  BY <1>1, <1>2, <1>3 DEF LearnInv, RequestsHold, Seen
<1> QED
  BY <1>1, <1>4, <1>5, LearnedRests DEF LearnInv, LearningIsRecorded

LEMMA AskKeeps ==
  ASSUME LearnInv, NEW d \in Learner,
         \/ \E what \in Verdicts : AskAnswer(d, what)
         \/ AskResolve(d) \/ AskReview(d) \/ AskFinding(d) \/ AskComplete(d)
         \/ \E level \in 1..2 : AskConfirm(d, level)
         \/ \E what \in OfSpace, mode \in 0..1 : AskOfSpace(d, what, mode)
  PROVE  LearnInv'
<1>1. /\ pattern \in HeldT /\ mastery \in HeldT /\ review \in HeldT /\ NoRecord \in HeldT
      /\ quizItem.mode \in 0..2 /\ 0 \in 0..2
  BY DEF LearnInv, LearnTypes, HeldT
<1>2. ASSUME NEW what \in Verdicts, AskAnswer(d, what) PROVE LearnInv'
  <2>1. what \in Asked /\ Seen(what, quizItem.mode) /\ BeginRequest(d, what, quizItem.mode, NoRecord)
    BY <1>2 DEF AskAnswer, Asked, Verdicts, Seen
  <2> QED
    BY <1>1, <2>1, BeginRequestKeeps
<1>3. ASSUME AskResolve(d) PROVE LearnInv'
  <2>1. "resolve" \in Asked /\ Seen("resolve", 0) /\ BeginRequest(d, "resolve", 0, pattern)
    BY <1>3 DEF AskResolve, Asked, Verdicts, Seen, LearnInv, RequestsHold
  <2> QED
    BY <1>1, <2>1, BeginRequestKeeps
<1>4. ASSUME AskReview(d) PROVE LearnInv'
  <2>1. "review" \in Asked /\ Seen("review", 0) /\ BeginRequest(d, "review", 0, NoRecord)
    BY <1>4 DEF AskReview, Asked, Verdicts, Seen
  <2> QED
    BY <1>1, <2>1, BeginRequestKeeps
<1>5. ASSUME AskFinding(d) PROVE LearnInv'
  <2>1. "finding" \in Asked /\ Seen("finding", 0) /\ BeginRequest(d, "finding", 0, NoRecord)
    BY <1>5 DEF AskFinding, Asked, Verdicts, Seen
  <2> QED
    BY <1>1, <2>1, BeginRequestKeeps
<1>6. ASSUME AskComplete(d) PROVE LearnInv'
  <2>1. "complete" \in Asked /\ Seen("complete", 0) /\ BeginRequest(d, "complete", 0, review)
    BY <1>6 DEF AskComplete, Asked, Verdicts, Seen
  <2> QED
    BY <1>1, <2>1, BeginRequestKeeps
<1>7. ASSUME NEW level \in 1..2, AskConfirm(d, level) PROVE LearnInv'
  <2>1. "confirm" \in Asked /\ level \in 0..2 /\ Seen("confirm", level) /\ BeginRequest(d, "confirm", level, mastery)
    BY <1>7 DEF AskConfirm, Asked, Verdicts, Seen
  <2> QED
    BY <1>1, <2>1, BeginRequestKeeps
<1>8. ASSUME NEW what \in OfSpace, NEW mode \in 0..1, AskOfSpace(d, what, mode) PROVE LearnInv'
  <2>1. what \in Asked /\ mode \in 0..2 /\ Seen(what, mode) /\ BeginRequest(d, what, mode, NoRecord)
    BY <1>8 DEF AskOfSpace, Asked, Verdicts, OfSpace, Seen
  <2> QED
    BY <1>1, <2>1, BeginRequestKeeps
<1> QED
  BY <1>2, <1>3, <1>4, <1>5, <1>6, <1>7, <1>8

\* The kinds of the history with one more event.
LEMMA KindsGrow ==
  ASSUME LearnTypes, NEW e \in EventT, history' = Append(history, e), NEW n, n = Len(history) + 1
  PROVE  /\ history' \in Seq(EventT) /\ n \in Nat /\ Len(history') = n /\ history'[n] = e
         /\ DOMAIN history' = DOMAIN history \cup {n} /\ n \notin DOMAIN history
         /\ \A i \in DOMAIN history : history'[i] = history[i]
         /\ WrongAnswers' = (IF e.what = "wrong" THEN WrongAnswers \cup {n} ELSE WrongAnswers)
         /\ Scheduling' = (IF e.what # "right" THEN Scheduling \cup {n} ELSE Scheduling)
         /\ Confirms' = (IF e.what = "confirm" THEN Confirms \cup {n} ELSE Confirms)
         /\ {i \in DOMAIN history : history[i].what = "confirm"}' = Confirms'
         /\ Cardinality(WrongAnswers \cup {n}) = Cardinality(WrongAnswers) + 1
         /\ WrongAnswers = {} => Cardinality(WrongAnswers) = 0
         /\ Cardinality(WrongAnswers) \in Nat
         /\ LatestOf(WrongAnswers \cup {n}) = n /\ LatestOf(Scheduling \cup {n}) = n
         /\ LatestOf(Confirms \cup {n}) = n
<1> DEFINE W == {"wrong"}
           V == {"wrong", "confirm"}
           C == {"confirm"}
<1>1. /\ history \in Seq(EventT) /\ e.what \in {"right", "wrong", "confirm"}
      /\ Len(history) \in Nat /\ DOMAIN history = 1..Len(history)
  BY DEF LearnTypes, EventT
<1>2. /\ e.what \in W <=> e.what = "wrong"
      /\ e.what \in V <=> e.what # "right"
      /\ e.what \in C <=> e.what = "confirm"
  BY <1>1
<1>3. WrongAnswers = Kind(history, W) /\ Scheduling = Kind(history, V) /\ Confirms = Kind(history, C)
  BY Kinds DEF Confirms
<1>4. \A i \in DOMAIN history' : history'[i] \in EventT
  BY <1>1
<1>5. \A i \in DOMAIN history' : history'[i].what \in {"right", "wrong", "confirm"}
  BY <1>4 DEF EventT
<1>6. /\ WrongAnswers' = Kind(history', W) /\ Scheduling' = Kind(history', V) /\ Confirms' = Kind(history', C)
      /\ {i \in DOMAIN history : history[i].what = "confirm"}' = Confirms'
  BY <1>5 DEF WrongAnswers, Scheduling, Confirms, Kind
<1> HIDE DEF W, V, C
<1>7. /\ history' \in Seq(EventT) /\ Len(history') = n /\ history'[n] = e /\ n \in Nat
      /\ DOMAIN history' = DOMAIN history \cup {n} /\ n \notin DOMAIN history
      /\ \A i \in DOMAIN history : history'[i] = history[i]
      /\ Kind(history', W) = IF e.what \in W THEN Kind(history, W) \cup {n} ELSE Kind(history, W)
  BY <1>1, HistoryGrows
<1>8. Kind(history', V) = IF e.what \in V THEN Kind(history, V) \cup {n} ELSE Kind(history, V)
  BY <1>1, HistoryGrows
<1>9. Kind(history', C) = IF e.what \in C THEN Kind(history, C) \cup {n} ELSE Kind(history, C)
  BY <1>1, HistoryGrows
<1>10. Cardinality(WrongAnswers \cup {n}) = Cardinality(WrongAnswers) + 1 /\ Cardinality(WrongAnswers) \in Nat
  BY <1>1, <1>3, KindCounts
<1>11. \A S \in {WrongAnswers, Scheduling, Confirms} : LatestOf(S \cup {n}) = n
  <2> SUFFICES ASSUME NEW S \in {WrongAnswers, Scheduling, Confirms} PROVE LatestOf(S \cup {n}) = n
    OBVIOUS
  <2>1. S \subseteq 1..Len(history)
    BY <1>1, <1>3 DEF Kind
  <2>2. S \cup {n} \in SUBSET Nat /\ n \in S \cup {n} /\ \A j \in S \cup {n} : j <= n
    BY <1>1, <1>7, <2>1
  <2> QED
    BY <2>2, LatestIs
<1>12. WrongAnswers = {} => Cardinality(WrongAnswers) = 0
  BY FS_EmptySet
<1> QED
  BY <1>2, <1>3, <1>6, <1>7, <1>8, <1>9, <1>10, <1>11, <1>12, Zenon

\* An answer, right or wrong, or a confirmation: pattern, schedule and mastery
\* follow it.
LEMMA AnswerFollows ==
  ASSUME LearnInv, NEW e \in EventT, history' = Append(history, e), e.what # "confirm",
         mastery' = mastery, mastery'.version \in Nat,
         IF e.what = "wrong"
         THEN /\ pattern' # NoRecord /\ pattern'.latest = Len(history')
              /\ pattern'.count = IF pattern = NoRecord THEN 1 ELSE pattern.count + 1
              /\ schedule'.status = "due" /\ schedule'.days = 1
         ELSE UNCHANGED <<pattern, schedule>>
  PROVE  PatternCounts' /\ PatternIsMade' /\ ScheduleFollows' /\ LatestAreThere'
<1> DEFINE n == Len(history) + 1
<1>1. LearnTypes /\ PatternCounts /\ PatternIsMade /\ ScheduleFollows /\ LatestAreThere
  BY DEF LearnInv, LearningIsRecorded
<1>2. \A i \in Confirms : i \in DOMAIN history
  BY DEF Confirms, Kind
<1>3. \A i \in Scheduling : i \in DOMAIN history
  BY DEF Scheduling
<1> HIDE DEF n
<1>4. n = Len(history) + 1
  BY DEF n
<1>5. PatternCounts' /\ PatternIsMade'
  <2>1. CASE e.what = "wrong"
    <3>1. WrongAnswers' = WrongAnswers \cup {n} /\ Len(history') = n
      BY <1>1, <1>4, <2>1, KindsGrow
    <3>2. Cardinality(WrongAnswers') = Cardinality(WrongAnswers) + 1 /\ LatestOf(WrongAnswers') = n
      BY <1>1, <1>4, <2>1, <3>1, KindsGrow
    <3>3. pattern'.count = Cardinality(WrongAnswers) + 1
      <4>1. CASE WrongAnswers = {}
        <5>1. Cardinality(WrongAnswers) = 0
          BY <4>1, FS_EmptySet
        <5> QED
          BY <1>1, <2>1, <4>1, <5>1 DEF PatternCounts
      <4>2. CASE WrongAnswers # {}
        BY <1>1, <2>1, <4>2 DEF PatternCounts, PatternIsMade
      <4> QED
        BY <4>1, <4>2
    <3> QED
      BY <2>1, <3>1, <3>2, <3>3 DEF PatternCounts, PatternIsMade
  <2>2. CASE e.what # "wrong"
    <3>1. WrongAnswers' = WrongAnswers
      BY <1>1, <1>4, <2>2, KindsGrow
    <3> QED
      BY <1>1, <2>2, <3>1 DEF PatternCounts, PatternIsMade
  <2> QED
    BY <2>1, <2>2
<1>6. /\ {i \in DOMAIN history : history[i].what = "confirm"}' = Confirms'
      /\ {i \in DOMAIN history : history[i].what = "confirm"} = Confirms
      /\ Confirms' = Confirms /\ \A i \in DOMAIN history : history'[i] = history[i]
  BY <1>1, <1>4, KindsGrow, Kinds
<1>7. /\ mastery'.version > 0 => mastery'.level = history'[LatestOf(Confirms')].by
      /\ mastery'.version > 0 => LatestOf(Confirms') \in Confirms'
  <2>1. mastery.version > 0 => mastery.level = history[LatestOf(Confirms)].by
    BY <1>1, <1>6 DEF ScheduleFollows
  <2> QED
    BY <1>1, <1>2, <1>6, <2>1 DEF LatestAreThere
<1>8. CASE e.what = "wrong"
  <2>1. Scheduling' = Scheduling \cup {n} /\ history'[n] = e
    BY <1>1, <1>4, <1>8, KindsGrow
  <2>2. LatestOf(Scheduling') = n
    BY <1>1, <1>4, <1>8, <2>1, KindsGrow
  <2>3. /\ Scheduling' # {} /\ LatestOf(Scheduling') \in Scheduling'
        /\ history'[LatestOf(Scheduling')].what = "wrong" /\ schedule'.status = "due" /\ schedule'.days = 1
    BY <1>8, <2>1, <2>2
  <2>4. LatestAreThere'
    BY <1>7, <2>3 DEF LatestAreThere
  <2>5. ScheduleFollows'
    BY <1>6, <1>7, <2>3 DEF ScheduleFollows
  <2> QED
    BY <1>5, <2>4, <2>5
<1>9. CASE e.what # "wrong"
  <2>1. Scheduling' = Scheduling /\ schedule' = schedule
    <3>1. e.what = "right"
      BY <1>9 DEF EventT
    <3> QED
      BY <1>1, <1>4, <3>1, KindsGrow
  <2>2. Scheduling # {} => history'[LatestOf(Scheduling)] = history[LatestOf(Scheduling)]
    BY <1>1, <1>3, <1>6 DEF LatestAreThere
  <2> QED
    BY <1>1, <1>5, <1>6, <1>7, <2>1, <2>2 DEF ScheduleFollows, LatestAreThere
<1> QED
  BY <1>8, <1>9

LEMMA ConfirmFollows ==
  ASSUME LearnInv, NEW e \in EventT, history' = Append(history, e), e.what = "confirm",
         pattern' = pattern, mastery'.level = e.by,
         schedule'.status = "scheduled", schedule'.days = e.by
  PROVE  PatternCounts' /\ PatternIsMade' /\ ScheduleFollows' /\ LatestAreThere'
<1> DEFINE n == Len(history) + 1
<1>1. LearnTypes /\ PatternCounts /\ PatternIsMade
  BY DEF LearnInv, LearningIsRecorded
<1> HIDE DEF n
<1>2. n = Len(history) + 1
  BY DEF n
<1>3. /\ WrongAnswers' = WrongAnswers /\ Scheduling' = Scheduling \cup {n} /\ Confirms' = Confirms \cup {n}
      /\ history'[n] = e /\ {i \in DOMAIN history : history[i].what = "confirm"}' = Confirms'
  BY <1>1, <1>2, KindsGrow
<1>4. LatestOf(Scheduling \cup {n}) = n /\ LatestOf(Confirms \cup {n}) = n
  BY <1>1, <1>2, KindsGrow
<1>5. PatternCounts' /\ PatternIsMade'
  BY <1>1, <1>3 DEF PatternCounts, PatternIsMade
<1> QED
  BY <1>3, <1>4, <1>5 DEF ScheduleFollows, LatestAreThere

LEMMA RecordKeeps == ASSUME LearnInv, NEW d \in Learner, RecordAnswer(d) PROVE LearnInv'
<1> DEFINE e == [what |-> request[d].what, by |-> request[d].arg]
           wrong == request[d].what = "wrong"
<1>1. /\ request[d].what \in Verdicts /\ history' = Append(history, e)
      /\ IF wrong
         THEN /\ pattern' = [id |-> OfferedId(d, known[d].pattern), version |-> pattern.version + 1,
                             count |-> IF pattern = NoRecord THEN 1 ELSE pattern.count + 1,
                             latest |-> Len(history'), status |-> "open"]
              /\ schedule' = NextDue(d, "due", 1)
         ELSE UNCHANGED <<pattern, schedule>>
      /\ EndRequest(d) /\ UNCHANGED <<topicLive, quizItem, mastery, review>>
  BY DEF RecordAnswer
<1>2. /\ LearnTypes /\ quizItem.live /\ request[d].arg = quizItem.mode /\ topicLive
      /\ request[d] \in RequestT /\ known[d] \in SeenT
  BY <1>1 DEF LearnInv, RequestsHold, LearnTypes
<1>3. /\ e \in EventT /\ e.what = request[d].what /\ e.by = quizItem.mode /\ e.what # "confirm"
  BY <1>1, <1>2 DEF EventT, Verdicts, RequestT
<1> HIDE DEF e
<1>4. history' \in Seq(EventT) /\ Len(history') \in Nat
  BY <1>1, <1>2, <1>3 DEF LearnTypes
<1>5. /\ OfferedId(d, known[d].pattern) \in IdT /\ OfferedId(d, known[d].schedule) \in IdT
  BY <1>2 DEF OfferedId, IdT, SeenT, PatternT, ScheduleT, NoRecord
<1>8. /\ pattern' \in PatternT \cup {NoRecord} /\ schedule' \in ScheduleT \cup {NoRecord}
      /\ pattern' = pattern \/ pattern' # NoRecord
      /\ IF e.what = "wrong"
         THEN /\ pattern' # NoRecord /\ pattern'.latest = Len(history')
              /\ pattern'.count = IF pattern = NoRecord THEN 1 ELSE pattern.count + 1
              /\ schedule'.status = "due" /\ schedule'.days = 1
         ELSE UNCHANGED <<pattern, schedule>>
  <2>1. CASE wrong
    <3>1. pattern.version + 1 \in Nat \ {0} /\ schedule.version + 1 \in Nat \ {0}
      BY <1>2 DEF LearnTypes, PatternT, ScheduleT, NoRecord
    <3>2. (IF pattern = NoRecord THEN 1 ELSE pattern.count + 1) \in Nat
      BY <1>2 DEF LearnTypes, PatternT
    <3>3. pattern' \in PatternT /\ pattern'.latest = Len(history') /\ pattern' # NoRecord
          /\ pattern'.count = IF pattern = NoRecord THEN 1 ELSE pattern.count + 1
      BY <1>1, <1>4, <1>5, <2>1, <3>1, <3>2 DEF PatternT, NoRecord
    <3>4. schedule' \in ScheduleT /\ schedule'.status = "due" /\ schedule'.days = 1
      BY <1>1, <1>5, <2>1, <3>1 DEF ScheduleT, NextDue
    <3> QED
      BY <1>3, <2>1, <3>3, <3>4
  <2>2. CASE ~wrong
    BY <1>1, <1>2, <1>3, <2>2 DEF LearnTypes
  <2> QED
    BY <2>1, <2>2
<1>9. /\ known' = known /\ request' \in [Learner -> RequestT]
      /\ \A x \in Learner : request'[x].what # "none" => request'[x] = request[x]
  BY <1>1, <1>2, RequestEnds
<1>10. LearnTypes'
  BY <1>1, <1>2, <1>4, <1>8, <1>9 DEF LearnTypes
<1>11. RequestsHold'
  <2>1. \A x \in Learner :
          /\ request'[x].what \in Verdicts => quizItem'.live /\ request'[x].arg = quizItem'.mode
          /\ request'[x].what = "finding" => review'.status = "draft"
          /\ known'[x].pattern.version > 0 \/ request'[x].what = "resolve" => pattern' # NoRecord
    BY <1>1, <1>8, <1>9 DEF LearnInv, RequestsHold, Verdicts
  <2> QED
    BY <1>1, <1>2, <2>1 DEF RequestsHold
<1>12. mastery' = mastery /\ mastery'.version \in Nat
  BY <1>1, <1>2 DEF LearnTypes, MasteryT, NoRecord
<1>13. PatternCounts' /\ PatternIsMade' /\ ScheduleFollows' /\ LatestAreThere'
  BY <1>1, <1>3, <1>8, <1>12, AnswerFollows
<1>14. ModeIsLocked'
  <2> DEFINE n == Len(history) + 1
  <2> HIDE DEF n
  <2>1. /\ DOMAIN history' = DOMAIN history \cup {n} /\ history'[n] = e
        /\ \A i \in DOMAIN history : history'[i] = history[i]
    BY <1>1, <1>2, <1>3, KindsGrow DEF n
  <2> QED
    BY <1>1, <1>3, <2>1 DEF LearnInv, LearningIsRecorded, ModeIsLocked
<1>15. HistoryKeepsTopic' /\ ReviewIsSealed'
  BY <1>1, <1>2 DEF LearnInv, LearningIsRecorded, HistoryKeepsTopic, ReviewIsSealed
<1> QED
  BY <1>10, <1>11, <1>13, <1>14, <1>15 DEF LearnInv, LearningIsRecorded

LEMMA ResolveKeeps == ASSUME LearnInv, NEW d \in Learner, ResolveErrorPattern(d) PROVE LearnInv'
<1> DEFINE v == LoadedRow(d, pattern).version + 1
<1>1. /\ pattern' = [pattern EXCEPT !.status = "resolved", !.version = v] /\ request[d].what = "resolve"
      /\ EndRequest(d) /\ UNCHANGED <<topicLive, quizItem, history, schedule, mastery, review>>
  BY DEF ResolveErrorPattern
<1>2. /\ LearnTypes /\ pattern \in PatternT /\ request[d].held \in HeldT
  BY <1>1 DEF LearnInv, RequestsHold, LearnTypes, RequestT
<1>3. v \in Nat \ {0}
  <2>1. LoadedRow(d, pattern).version \in Nat
    BY <1>2 DEF LoadedRow, HeldT, PatternT, MasteryT, ReviewT, NoRecord
  <2> QED
    BY <2>1
<1> HIDE DEF v
<1>4. /\ pattern' \in PatternT /\ pattern'.count = pattern.count /\ pattern'.latest = pattern.latest
      /\ pattern # NoRecord /\ pattern' # NoRecord
  <2>1. /\ pattern' \in PatternT /\ pattern'.count = pattern.count /\ pattern'.latest = pattern.latest
    BY <1>1, <1>2, <1>3 DEF PatternT
  <2>2. \A p \in PatternT : p.version # 0
    BY DEF PatternT
  <2>3. NoRecord.version = 0
    BY DEF NoRecord
  <2> QED
    BY <1>2, <2>1, <2>2, <2>3
<1>5. /\ known' = known /\ request' \in [Learner -> RequestT]
      /\ \A x \in Learner : request'[x].what # "none" => request'[x] = request[x]
  BY <1>1, <1>2, RequestEnds
<1>6. LearnTypes'
  BY <1>1, <1>2, <1>4, <1>5 DEF LearnTypes
<1>7. RequestsHold'
  BY <1>1, <1>4, <1>5 DEF LearnInv, RequestsHold, Verdicts
<1>8. WrongAnswers' = WrongAnswers
  BY <1>1 DEF WrongAnswers
<1>9. PatternCounts' /\ PatternIsMade'
  BY <1>4, <1>8 DEF LearnInv, LearningIsRecorded, PatternCounts, PatternIsMade
<1> QED
  BY <1>1, <1>6, <1>7, <1>9, LearnedRests DEF LearnInv, LearningIsRecorded

LEMMA ConfirmKeeps == ASSUME LearnInv, NEW d \in Learner, ConfirmMastery(d) PROVE LearnInv'
<1> DEFINE e == [what |-> "confirm", by |-> request[d].arg]
           v == LoadedRow(d, mastery).version + 1
<1>1. /\ request[d].what = "confirm" /\ topicLive /\ history' = Append(history, e)
      /\ mastery' = [id |-> OfferedId(d, known[d].mastery), version |-> v, level |-> request[d].arg]
      /\ schedule' = NextDue(d, "scheduled", request[d].arg)
      /\ EndRequest(d) /\ UNCHANGED <<topicLive, quizItem, pattern, review>>
  BY DEF ConfirmMastery
<1>2. LearnTypes /\ request[d] \in RequestT /\ known[d] \in SeenT
  BY DEF LearnInv, LearnTypes
<1>3. e \in EventT /\ e.what = "confirm" /\ e.by = request[d].arg /\ request[d].arg \in 0..2
  BY <1>2 DEF EventT, RequestT
<1> HIDE DEF e
<1>4. v \in Nat \ {0}
  <2>1. LoadedRow(d, mastery).version \in Nat
    BY <1>2 DEF LoadedRow, LearnTypes, RequestT, HeldT, PatternT, MasteryT, ReviewT, NoRecord
  <2> QED
    BY <2>1
<1> HIDE DEF v
<1>5. OfferedId(d, known[d].mastery) \in IdT /\ OfferedId(d, known[d].schedule) \in IdT
  BY <1>2 DEF OfferedId, IdT, SeenT, MasteryT, ScheduleT, NoRecord
<1>6. schedule.version + 1 \in Nat \ {0}
  BY <1>2 DEF LearnTypes, ScheduleT, NoRecord
<1>7. mastery' \in MasteryT /\ mastery'.level = e.by
  BY <1>1, <1>3, <1>4, <1>5 DEF MasteryT
<1>8. schedule' \in ScheduleT /\ schedule'.status = "scheduled" /\ schedule'.days = e.by
  BY <1>1, <1>3, <1>5, <1>6 DEF ScheduleT, NextDue
<1>9. history' \in Seq(EventT)
  BY <1>1, <1>2, <1>3 DEF LearnTypes
<1>10. /\ known' = known /\ request' \in [Learner -> RequestT]
       /\ \A x \in Learner : request'[x].what # "none" => request'[x] = request[x]
  BY <1>1, <1>2, RequestEnds
<1>11. LearnTypes'
  BY <1>1, <1>2, <1>7, <1>8, <1>9, <1>10 DEF LearnTypes
<1>12. RequestsHold'
  BY <1>1, <1>10 DEF LearnInv, RequestsHold, Verdicts
<1>13. PatternCounts' /\ PatternIsMade' /\ ScheduleFollows' /\ LatestAreThere'
  BY <1>1, <1>3, <1>7, <1>8, ConfirmFollows
<1>14. ModeIsLocked'
  <2> DEFINE n == Len(history) + 1
  <2> HIDE DEF n
  <2>1. /\ DOMAIN history' = DOMAIN history \cup {n} /\ history'[n] = e
        /\ \A i \in DOMAIN history : history'[i] = history[i]
    BY <1>1, <1>2, <1>3, KindsGrow DEF n
  <2> QED
    BY <1>1, <1>3, <2>1 DEF LearnInv, LearningIsRecorded, ModeIsLocked
<1>15. HistoryKeepsTopic' /\ ReviewIsSealed'
  BY <1>1 DEF LearnInv, LearningIsRecorded, HistoryKeepsTopic, ReviewIsSealed
<1> QED
  BY <1>11, <1>12, <1>13, <1>14, <1>15 DEF LearnInv, LearningIsRecorded

\* The item and its topic change only while no answer is under way.
LEMMA ItemKeeps ==
  ASSUME LearnInv, NEW d \in Learner, UpdateQuizItem(d) \/ RetireItem(d) \/ RemoveTopic(d)
  PROVE  LearnInv'
<1>1. /\ EndRequest(d) /\ UNCHANGED <<history, pattern, schedule, mastery, review>>
      /\ request[d].what \in {"mode", "retire", "remove"}
  BY DEF UpdateQuizItem, RetireItem, RemoveTopic
<1>2. LearnTypes /\ request[d] \in RequestT
  BY DEF LearnInv, LearnTypes
<1>3. /\ known' = known /\ request' \in [Learner -> RequestT]
      /\ \A x \in Learner : request'[x].what # "none" => x # d /\ request'[x] = request[x]
  BY <1>1, <1>2, RequestEnds
<1>4. ~topicLive => history = <<>> /\ ~quizItem.live
  BY DEF LearnInv, RequestsHold, LearningIsRecorded, HistoryKeepsTopic
<1>5. CASE UpdateQuizItem(d)
  <2>1. /\ ~RowLocked(d, Verdicts) /\ quizItem.live /\ topicLive' = topicLive
        /\ request[d].arg # quizItem.mode => \A i \in DOMAIN history : history[i].what = "confirm"
        /\ quizItem' = [quizItem EXCEPT !.mode = request[d].arg]
    BY <1>5 DEF UpdateQuizItem
  <2>2. quizItem' \in [live : BOOLEAN, mode : 0..2] /\ quizItem'.mode = request[d].arg /\ quizItem'.live
    BY <1>2, <2>1 DEF LearnTypes, RequestT
  <2>3. \A x \in Learner : request'[x].what \notin Verdicts
    BY <1>3, <2>1 DEF RowLocked, Verdicts
  <2>4. LearnTypes' /\ RequestsHold' /\ ModeIsLocked' /\ HistoryKeepsTopic'
    <3>1. LearnTypes'
      BY <1>1, <1>2, <1>3, <2>1, <2>2 DEF LearnTypes
    <3>2. RequestsHold'
      BY <1>1, <1>3, <1>4, <2>1, <2>2, <2>3 DEF LearnInv, RequestsHold
    <3>3. ModeIsLocked' /\ HistoryKeepsTopic'
      BY <1>1, <1>4, <2>1, <2>2 DEF LearnInv, LearningIsRecorded, ModeIsLocked, HistoryKeepsTopic
    <3> QED
      BY <3>1, <3>2, <3>3
  <2> QED
    BY <1>1, <2>4, LearnedRests DEF LearnInv, LearningIsRecorded
<1>6. CASE RetireItem(d)
  <2>1. /\ ~RowLocked(d, Verdicts) /\ topicLive' = topicLive /\ quizItem' = [quizItem EXCEPT !.live = FALSE]
    BY <1>6 DEF RetireItem
  <2>2. quizItem' \in [live : BOOLEAN, mode : 0..2] /\ quizItem'.mode = quizItem.mode /\ ~quizItem'.live
    BY <1>2, <2>1 DEF LearnTypes
  <2>3. \A x \in Learner : request'[x].what \notin Verdicts
    BY <1>3, <2>1 DEF RowLocked, Verdicts
  <2>4. LearnTypes'
    BY <1>1, <1>2, <1>3, <2>1, <2>2 DEF LearnTypes
  <2>5. RequestsHold'
    BY <1>1, <1>3, <2>1, <2>2, <2>3 DEF LearnInv, RequestsHold
  <2>6. ModeIsLocked' /\ HistoryKeepsTopic'
    BY <1>1, <1>4, <2>1, <2>2 DEF LearnInv, LearningIsRecorded, ModeIsLocked, HistoryKeepsTopic
  <2> QED
    BY <1>1, <2>4, <2>5, <2>6, LearnedRests DEF LearnInv, LearningIsRecorded
<1>7. CASE RemoveTopic(d)
  <2>1. ~quizItem.live /\ history = <<>> /\ topicLive' = FALSE /\ quizItem' = quizItem
    BY <1>7 DEF RemoveTopic
  <2>2. LearnTypes'
    BY <1>1, <1>2, <1>3, <2>1 DEF LearnTypes
  <2>3. RequestsHold'
    BY <1>1, <1>3, <2>1 DEF LearnInv, RequestsHold, Verdicts
  <2>4. ModeIsLocked' /\ HistoryKeepsTopic'
    BY <1>1, <2>1 DEF LearnInv, LearningIsRecorded, ModeIsLocked, HistoryKeepsTopic
  <2> QED
    BY <1>1, <2>2, <2>3, <2>4, LearnedRests DEF LearnInv, LearningIsRecorded
<1> QED
  BY <1>5, <1>6, <1>7

LEMMA ReviewKeeps ==
  ASSUME LearnInv, NEW d \in Learner, CreateAuditReview(d) \/ AddReviewFinding(d) \/ CompleteAuditReview(d)
  PROVE  LearnInv'
<1>1. EndRequest(d) /\ UNCHANGED <<topicLive, quizItem, history, pattern, schedule, mastery>>
  BY DEF CreateAuditReview, AddReviewFinding, CompleteAuditReview
<1>2. LearnTypes /\ review \in ReviewT /\ request[d].held \in HeldT
  BY DEF LearnInv, LearnTypes, RequestT
<1>3. /\ known' = known /\ request' \in [Learner -> RequestT]
      /\ \A x \in Learner : request'[x].what # "none" => x # d /\ request'[x] = request[x]
  BY <1>1, <1>2, RequestEnds
<1>4. ASSUME review' \in ReviewT, ReviewIsSealed',
             review'.status = "draft" \/ \A x \in Learner \ {d} : request[x].what # "finding"
      PROVE  LearnInv'
  <2>1. LearnTypes'
    BY <1>1, <1>2, <1>3, <1>4 DEF LearnTypes
  <2>2. RequestsHold'
    BY <1>1, <1>3, <1>4 DEF LearnInv, RequestsHold, Verdicts
  <2> QED
    BY <1>1, <1>4, <2>1, <2>2, LearnedRests DEF LearnInv, LearningIsRecorded
<1>5. CASE CreateAuditReview(d)
  <2>1. review' = [review EXCEPT !.status = "draft", !.version = 1, !.made = 1]
    <3>1. review.made + 1 = 1 /\ review' = [review EXCEPT !.status = "draft", !.version = 1, !.made = review.made + 1]
      BY <1>2, <1>5 DEF CreateAuditReview, ReviewT
    <3> QED
      BY <3>1
  <2>2. review' \in ReviewT /\ review'.status = "draft" /\ review'.made = 1
    BY <1>2, <2>1 DEF ReviewT
  <2>3. ReviewIsSealed'
    BY <2>2 DEF ReviewIsSealed
  <2> QED
    BY <1>4, <2>2, <2>3
<1>6. CASE AddReviewFinding(d)
  <2>1. review.status = "draft" /\ review' = [review EXCEPT !.findings = @ + 1]
    BY <1>6 DEF AddReviewFinding, LearnInv, RequestsHold
  <2>2. review' \in ReviewT /\ review'.status = "draft" /\ review'.made = review.made
    BY <1>2, <2>1 DEF ReviewT
  <2>3. ReviewIsSealed'
    BY <2>2 DEF LearnInv, LearningIsRecorded, ReviewIsSealed
  <2> QED
    BY <1>4, <2>2, <2>3
<1>7. CASE CompleteAuditReview(d)
  <2> DEFINE v == LoadedRow(d, review).version + 1
  <2>1. /\ review' = [review EXCEPT !.status = "completed", !.version = v, !.sealed = review.findings]
        /\ ~RowLocked(d, {"finding"})
    BY <1>7 DEF CompleteAuditReview
  <2>2. LoadedRow(d, review).version \in Nat
    BY <1>2 DEF LoadedRow, HeldT, PatternT, MasteryT, ReviewT, NoRecord
  <2>3. v \in Nat
    BY <2>2
  <2> HIDE DEF v
  <2>4. review' \in ReviewT /\ review'.made = review.made /\ review'.sealed = review'.findings
    BY <1>2, <2>1, <2>3 DEF ReviewT
  <2>5. ReviewIsSealed'
    BY <2>4 DEF LearnInv, LearningIsRecorded, ReviewIsSealed
  <2>6. \A x \in Learner \ {d} : request[x].what # "finding"
    BY <2>1 DEF RowLocked
  <2> QED
    BY <1>4, <2>4, <2>5, <2>6
<1> QED
  BY <1>5, <1>6, <1>7

LEMMA UndoKeeps == ASSUME LearnInv, NEW d \in Learner, UndoRequest(d) PROVE LearnInv'
<1>1. EndRequest(d) /\ UNCHANGED <<topicLive, quizItem, history, pattern, schedule, mastery, review>>
  BY DEF UndoRequest
<1>2. /\ known' = known /\ request' \in [Learner -> RequestT]
      /\ \A x \in Learner : request'[x].what # "none" => request'[x] = request[x]
  BY <1>1, RequestEnds DEF LearnInv
<1>3. LearnTypes'
  BY <1>1, <1>2 DEF LearnInv, LearnTypes
<1>4. RequestsHold'
  BY <1>1, <1>2 DEF LearnInv, RequestsHold, Verdicts
<1> QED
  BY <1>1, <1>3, <1>4, LearnedRests DEF LearnInv, LearningIsRecorded

LEMMA LearnInvInit == ASSUME MemoryInit PROVE LearnInv
<1>1. review \in ReviewT /\ review.status = "none" /\ review.made = 0
  BY DEF MemoryInit, ReviewT
<1>2. NoRequest \in RequestT /\ NoRequest.what = "none" /\ NoRecord.version = 0
  BY DEF NoRequest, RequestT, Asked, HeldT, NoRecord
<1> DEFINE blank == [pattern |-> NoRecord, schedule |-> NoRecord, mastery |-> NoRecord, review |-> review]
<1>3. blank \in SeenT /\ blank.pattern = NoRecord
  BY <1>1 DEF SeenT
<1>4. /\ topicLive = TRUE /\ quizItem = [live |-> TRUE, mode |-> 0] /\ history = <<>>
      /\ pattern = NoRecord /\ schedule = NoRecord /\ mastery = NoRecord
      /\ known = [d \in Learner |-> blank] /\ request = [d \in Learner |-> NoRequest]
  BY DEF MemoryInit
<1> HIDE DEF blank
<1>5. LearnTypes
  BY <1>1, <1>2, <1>3, <1>4 DEF LearnTypes
<1>6. RequestsHold
  BY <1>2, <1>3, <1>4 DEF RequestsHold, Verdicts
<1>7. DOMAIN history = {}
  BY <1>4
<1>8. WrongAnswers = {} /\ Scheduling = {}
  BY <1>7 DEF WrongAnswers, Scheduling
<1> QED
  BY <1>1, <1>2, <1>4, <1>5, <1>6, <1>7, <1>8 DEF LearnInv, PatternIsMade, LatestAreThere, LearningIsRecorded,
     PatternCounts, ScheduleFollows, ModeIsLocked, HistoryKeepsTopic, ReviewIsSealed

LEMMA LearnInvStep == ASSUME LearnInv, [MemoryNext]_memoryVars PROVE LearnInv'
<1>1. ASSUME NEW d \in Learner, Refresh(d) \/ UndoRequest(d) PROVE LearnInv'
  BY <1>1, RefreshKeeps, UndoKeeps
<1>2. ASSUME NEW d \in Learner,
             \/ \E what \in Verdicts : AskAnswer(d, what)
             \/ AskResolve(d) \/ AskReview(d) \/ AskFinding(d) \/ AskComplete(d)
             \/ \E level \in 1..2 : AskConfirm(d, level)
             \/ \E what \in OfSpace, mode \in 0..1 : AskOfSpace(d, what, mode)
      PROVE  LearnInv'
  BY <1>2, AskKeeps
<1>3. ASSUME NEW d \in Learner, RecordAnswer(d) \/ ResolveErrorPattern(d) \/ ConfirmMastery(d) PROVE LearnInv'
  BY <1>3, RecordKeeps, ResolveKeeps, ConfirmKeeps
<1>4. ASSUME NEW d \in Learner, UpdateQuizItem(d) \/ RetireItem(d) \/ RemoveTopic(d) PROVE LearnInv'
  BY <1>4, ItemKeeps
<1>5. ASSUME NEW d \in Learner, CreateAuditReview(d) \/ AddReviewFinding(d) \/ CompleteAuditReview(d)
      PROVE  LearnInv'
  BY <1>5, ReviewKeeps
<1>6. ASSUME UNCHANGED memoryVars PROVE LearnInv'
  <2>1. UNCHANGED <<topicLive, quizItem, history, pattern, schedule, mastery, review, known, request>>
    BY <1>6 DEF memoryVars
  <2>2. LearnTypes' /\ RequestsHold'
    BY <2>1 DEF LearnInv, LearnTypes, RequestsHold
  <2> QED
    BY <2>1, <2>2, LearnedRests DEF LearnInv, LearningIsRecorded
<1> QED
  BY <1>1, <1>2, <1>3, <1>4, <1>5, <1>6 DEF MemoryNext

\* The error pattern counts the wrong answers, the schedule follows the last
\* of them or the last confirmation, every answer was judged by the mode the
\* item has, and a completed review has the findings it was completed with,
\* whatever requests of old and new routes overlap (memory/service.py).
THEOREM LearningIsKept == MemorySpec => []LearningIsRecorded
<1>1. MemoryInit => LearnInv
  BY LearnInvInit
<1>2. LearnInv /\ [MemoryNext]_memoryVars => LearnInv'
  BY LearnInvStep
<1>3. LearnInv => LearningIsRecorded
  BY DEF LearnInv
<1> QED
  BY <1>1, <1>2, <1>3, PTL DEF MemorySpec

-----------------------------------------------------------------------------
(* Nothing unseen is replaced.                                             *)

\* What a device knows is the row or an earlier version of it, and what a
\* handler has loaded is the row, when all devices go the same way.
Knows(shown, row) == shown.version <= row.version /\ (shown.version = row.version => shown = row)
SameWay == older \in {{}, Learner}
SeenInv ==
  /\ older \subseteq Learner
  /\ SameWay =>
       /\ \A d \in Learner :
            /\ Knows(known[d].pattern, pattern) /\ Knows(known[d].mastery, mastery)
            /\ d \in older => request[d].held = NoRecord
            /\ d \notin older =>
                 /\ request[d].what = "resolve" => request[d].held = pattern
                 /\ request[d].what = "confirm" => request[d].held = mastery
                 /\ request[d].what = "complete" => request[d].held = review
       /\ \A d, e \in Learner \ older : request[d] # NoRequest /\ request[e] # NoRequest => d = e

\* A row that a handler has loaded is the present one.
LEMMA LoadedIsRow ==
  ASSUME LearnInv, SeenInv, SameWay, NEW d \in Learner
  PROVE  /\ request[d].what = "resolve" => LoadedRow(d, pattern) = pattern
         /\ request[d].what = "confirm" => LoadedRow(d, mastery) = mastery
         /\ request[d].what = "complete" => LoadedRow(d, review) = review
<1>1. NoRecord.version = 0
  BY DEF NoRecord
<1> QED
  BY <1>1 DEF SeenInv, LoadedRow

LEMMA RowVersions ==
  /\ \A p \in PatternT \cup {NoRecord} : p.version \in Nat
  /\ \A m \in MasteryT \cup {NoRecord} : m.version \in Nat
  /\ \A r \in ReviewT : r.version \in Nat
  BY DEF PatternT, MasteryT, ReviewT, NoRecord
LEMMA KnownVersions ==
  ASSUME LearnTypes
  PROVE  /\ pattern.version \in Nat /\ mastery.version \in Nat /\ review.version \in Nat
         /\ \A d \in Learner : known[d].pattern.version \in Nat /\ known[d].mastery.version \in Nat
         /\ \A d \in Learner : known[d].review.version \in Nat
<1>2. \A s \in SeenT : /\ s.pattern \in PatternT \cup {NoRecord} /\ s.mastery \in MasteryT \cup {NoRecord}
                       /\ s.review \in ReviewT
  BY DEF SeenT
<1> QED
  BY <1>2, RowVersions DEF LearnTypes

\* A request ends: no other is on its way by push, and rows get new versions.
LEMMA EndSees ==
  ASSUME LearnTypes, LearnTypes', SeenInv, NEW d \in Learner, EndRequest(d), request[d] # NoRequest,
         SameWay => /\ pattern' = pattern \/ pattern'.version > pattern.version
                    /\ mastery' = mastery \/ mastery'.version > mastery.version
  PROVE  SeenInv'
<1>1. /\ known' = known /\ older' = older /\ request'[d] = NoRequest
      /\ \A e \in Learner : e # d => request'[e] = request[e]
  BY RequestEnds DEF EndRequest
<1>2. NoRequest.held = NoRecord /\ NoRequest.what = "none"
  BY DEF NoRequest
<1>3. SameWay' <=> SameWay
  BY <1>1 DEF SameWay
<1>4. ASSUME SameWay
      PROVE  \A e \in Learner : Knows(known[e].pattern, pattern') /\ Knows(known[e].mastery, mastery')
  <2>1. /\ pattern.version \in Nat /\ mastery.version \in Nat
        /\ pattern'.version \in Nat /\ mastery'.version \in Nat
        /\ \A e \in Learner : known[e].pattern.version \in Nat /\ known[e].mastery.version \in Nat
    BY KnownVersions, RowVersions DEF LearnTypes
  <2> QED
    BY <1>4, <2>1 DEF SeenInv, Knows
<1>5. ASSUME SameWay, NEW e \in Learner, e \notin older PROVE request'[e] = NoRequest
  <2>1. d \notin older
    BY <1>5 DEF SameWay
  <2> QED
    BY <1>1, <1>5, <2>1 DEF SeenInv
<1>6. ASSUME SameWay, NEW e \in Learner
      PROVE  /\ e \in older => request'[e].held = NoRecord
             /\ e \notin older => request'[e].what \notin {"resolve", "confirm", "complete"}
  BY <1>1, <1>2, <1>5, <1>6 DEF SeenInv
<1>7. ASSUME SameWay, NEW e \in Learner \ older, NEW f \in Learner \ older PROVE request'[e] = NoRequest
  BY <1>5, <1>7
<1> QED
  BY <1>1, <1>3, <1>4, <1>6, <1>7 DEF SeenInv

LEMMA BeginSees ==
  ASSUME LearnTypes, SeenInv, NEW d \in Learner, NEW what, NEW arg, NEW held, BeginRequest(d, what, arg, held),
         /\ what = "resolve" => held = pattern
         /\ what = "confirm" => held = mastery
         /\ what = "complete" => held = review
  PROVE  SeenInv'
<1> DEFINE mine == [what |-> what, arg |-> arg, held |-> IF d \in older THEN NoRecord ELSE held]
<1>1. /\ UNCHANGED <<older, pattern, mastery, review, known>> /\ request' = [request EXCEPT ![d] = mine]
      /\ d \in older \/ \A e \in Learner \ older : request[e] = NoRequest
      /\ mine.what = what /\ (d \in older => mine.held = NoRecord) /\ (d \notin older => mine.held = held)
  BY DEF BeginRequest
<1> HIDE DEF mine
<1>2. /\ request'[d] = mine /\ \A e \in Learner : e # d => request'[e] = request[e]
  BY <1>1 DEF LearnTypes
<1>3. SameWay' <=> SameWay
  BY <1>1 DEF SameWay
<1>4. ASSUME SameWay, NEW e \in Learner
      PROVE  /\ Knows(known[e].pattern, pattern) /\ Knows(known[e].mastery, mastery)
             /\ e \in older => request'[e].held = NoRecord
             /\ e \notin older =>
                  /\ request'[e].what = "resolve" => request'[e].held = pattern
                  /\ request'[e].what = "confirm" => request'[e].held = mastery
                  /\ request'[e].what = "complete" => request'[e].held = review
  BY <1>1, <1>2, <1>4 DEF SeenInv
<1>5. ASSUME SameWay, NEW e \in Learner \ older, NEW f \in Learner \ older,
             request'[e] # NoRequest, request'[f] # NoRequest
      PROVE  e = f
  BY <1>1, <1>2, <1>5 DEF SeenInv
<1> QED
  BY <1>1, <1>3, <1>4, <1>5 DEF SeenInv

LEMMA RefreshSees == ASSUME LearnTypes, SeenInv, NEW d \in Learner, Refresh(d) PROVE SeenInv'
<1>1. /\ UNCHANGED <<older, pattern, mastery, review, request>> /\ known' = [known EXCEPT ![d] = LearnedRows]
      /\ LearnedRows.pattern = pattern /\ LearnedRows.mastery = mastery
  BY DEF Refresh, LearnedRows
<1>2. /\ known'[d] = LearnedRows /\ \A e \in Learner : e # d => known'[e] = known[e]
  BY <1>1 DEF LearnTypes
<1>3. pattern.version <= pattern.version /\ mastery.version <= mastery.version
  BY KnownVersions
<1>4. SameWay => \A e \in Learner : Knows(known'[e].pattern, pattern) /\ Knows(known'[e].mastery, mastery)
  BY <1>1, <1>2, <1>3 DEF SeenInv, Knows
<1>5. SameWay' <=> SameWay
  BY <1>1 DEF SameWay
<1> QED
  BY <1>1, <1>4, <1>5 DEF SeenInv

\* What an action writes over the rows, and what its user knew of them.
Writes(d) ==
  /\ EndRequest(d) /\ request[d] # NoRequest
  /\ SameWay =>
       /\ pattern' = pattern \/ pattern'.version > pattern.version
       /\ mastery' = mastery \/ mastery'.version > mastery.version
       /\ mastery' # mastery => known[d].mastery = mastery
       /\ pattern' # pattern /\ pattern'.status = "resolved" => known[d].pattern = pattern
       /\ review' # review /\ review'.status = "completed" => known[d].review.version = review.version

LEMMA RequestsWrite ==
  ASSUME LearnInv, SeenInv, NEW d \in Learner,
         \/ RecordAnswer(d) \/ ResolveErrorPattern(d) \/ ConfirmMastery(d)
         \/ UpdateQuizItem(d) \/ RetireItem(d) \/ RemoveTopic(d)
         \/ CreateAuditReview(d) \/ AddReviewFinding(d) \/ CompleteAuditReview(d) \/ UndoRequest(d)
  PROVE  Writes(d)
<1>1. NoRequest.what = "none"
  BY DEF NoRequest
<1>2. /\ pattern.version \in Nat /\ mastery.version \in Nat /\ review.version \in Nat
      /\ LearnTypes /\ known[d].pattern.version \in Nat /\ known[d].mastery.version \in Nat
  BY KnownVersions DEF LearnInv
<1>3. CASE RecordAnswer(d)
  <2>1. EndRequest(d) /\ request[d] # NoRequest /\ mastery' = mastery /\ review' = review
    BY <1>1, <1>3 DEF RecordAnswer, Verdicts
  <2>2. pattern' = pattern \/ (pattern'.version = pattern.version + 1 /\ pattern'.status = "open")
    BY <1>3 DEF RecordAnswer
  <2> QED
    BY <1>2, <2>1, <2>2 DEF Writes
<1>4. CASE ResolveErrorPattern(d)
  <2>1. /\ EndRequest(d) /\ request[d] # NoRequest /\ mastery' = mastery /\ review' = review
        /\ request[d].what = "resolve" /\ LoadedRow(d, pattern).version = known[d].pattern.version
        /\ pattern' = [pattern EXCEPT !.status = "resolved", !.version = LoadedRow(d, pattern).version + 1]
    BY <1>1, <1>4 DEF ResolveErrorPattern
  <2>2. pattern \in PatternT
    BY <2>1 DEF LearnInv, LearnTypes, RequestsHold
  <2>3. ASSUME SameWay PROVE known[d].pattern = pattern /\ pattern'.version = pattern.version + 1
    <3>1. LoadedRow(d, pattern) = pattern
      BY <2>1, <2>3, LoadedIsRow
    <3>2. pattern' = [pattern EXCEPT !.status = "resolved", !.version = pattern.version + 1]
      BY <2>1, <3>1
    <3>3. pattern'.version = pattern.version + 1
      BY <2>2, <3>2 DEF PatternT
    <3> QED
      BY <2>1, <2>3, <3>1, <3>3 DEF SeenInv, Knows
  <2> QED
    BY <1>2, <2>1, <2>3 DEF Writes
<1>5. CASE ConfirmMastery(d)
  <2>1. /\ EndRequest(d) /\ request[d] # NoRequest /\ pattern' = pattern /\ review' = review
        /\ request[d].what = "confirm" /\ LoadedRow(d, mastery).version = known[d].mastery.version
        /\ mastery'.version = LoadedRow(d, mastery).version + 1
    BY <1>1, <1>5 DEF ConfirmMastery
  <2>2. ASSUME SameWay PROVE known[d].mastery = mastery /\ mastery'.version = mastery.version + 1
    <3>1. LoadedRow(d, mastery) = mastery
      BY <2>1, <2>2, LoadedIsRow
    <3> QED
      BY <2>1, <2>2, <3>1 DEF SeenInv, Knows
  <2> QED
    BY <1>2, <2>1, <2>2 DEF Writes
<1>6. CASE UpdateQuizItem(d) \/ RetireItem(d) \/ RemoveTopic(d)
  <2>1. EndRequest(d) /\ request[d] # NoRequest /\ pattern' = pattern /\ mastery' = mastery /\ review' = review
    BY <1>1, <1>6 DEF UpdateQuizItem, RetireItem, RemoveTopic
  <2> QED
    BY <2>1 DEF Writes
<1>7. CASE CreateAuditReview(d) \/ AddReviewFinding(d)
  <2>1. EndRequest(d) /\ request[d] # NoRequest /\ pattern' = pattern /\ mastery' = mastery
    BY <1>1, <1>7 DEF CreateAuditReview, AddReviewFinding
  <2>2. review'.status = "draft"
    BY <1>2, <1>7 DEF CreateAuditReview, AddReviewFinding, LearnInv, RequestsHold, LearnTypes, ReviewT
  <2> QED
    BY <2>1, <2>2 DEF Writes
<1>8. CASE CompleteAuditReview(d)
  <2>1. /\ EndRequest(d) /\ request[d] # NoRequest /\ pattern' = pattern /\ mastery' = mastery
        /\ request[d].what = "complete" /\ LoadedRow(d, review).version = known[d].review.version
    BY <1>1, <1>8 DEF CompleteAuditReview
  <2>2. SameWay => LoadedRow(d, review) = review
    BY <2>1, LoadedIsRow
  <2> QED
    BY <2>1, <2>2 DEF Writes
<1>9. CASE UndoRequest(d)
  BY <1>9 DEF UndoRequest, Writes
<1> QED
  BY <1>3, <1>4, <1>5, <1>6, <1>7, <1>8, <1>9

\* An action writes over rows for the one device whose request it ends.
LEMMA MemoryWrites ==
  ASSUME LearnInv, SeenInv, MemoryNext
  PROVE  \/ UNCHANGED <<pattern, mastery, review>> /\ SeenInv'
         \/ \E d \in Learner : Writes(d)
<1>1. ASSUME NEW d \in Learner, Refresh(d) PROVE UNCHANGED <<pattern, mastery, review>> /\ SeenInv'
  BY <1>1, RefreshSees DEF Refresh, LearnInv
<1>2. ASSUME NEW d \in Learner, NEW what, NEW arg, NEW held, BeginRequest(d, what, arg, held),
             /\ what = "resolve" => held = pattern
             /\ what = "confirm" => held = mastery
             /\ what = "complete" => held = review
      PROVE  UNCHANGED <<pattern, mastery, review>> /\ SeenInv'
  BY <1>2, BeginSees DEF BeginRequest, LearnInv
<1>3. ASSUME NEW d \in Learner, NEW what \in Verdicts, AskAnswer(d, what)
      PROVE  UNCHANGED <<pattern, mastery, review>> /\ SeenInv'
  BY <1>2, <1>3 DEF AskAnswer, Verdicts
<1>4. ASSUME NEW d \in Learner, AskResolve(d) PROVE UNCHANGED <<pattern, mastery, review>> /\ SeenInv'
  BY <1>2, <1>4 DEF AskResolve
<1>5. ASSUME NEW d \in Learner, AskReview(d) PROVE UNCHANGED <<pattern, mastery, review>> /\ SeenInv'
  BY <1>2, <1>5 DEF AskReview
<1>6. ASSUME NEW d \in Learner, AskFinding(d) PROVE UNCHANGED <<pattern, mastery, review>> /\ SeenInv'
  BY <1>2, <1>6 DEF AskFinding
<1>7. ASSUME NEW d \in Learner, AskComplete(d) PROVE UNCHANGED <<pattern, mastery, review>> /\ SeenInv'
  BY <1>2, <1>7 DEF AskComplete
<1>8. ASSUME NEW d \in Learner, NEW level \in 1..2, AskConfirm(d, level)
      PROVE  UNCHANGED <<pattern, mastery, review>> /\ SeenInv'
  BY <1>2, <1>8 DEF AskConfirm
<1>9. ASSUME NEW d \in Learner, NEW what \in OfSpace, NEW mode \in 0..1, AskOfSpace(d, what, mode)
      PROVE  UNCHANGED <<pattern, mastery, review>> /\ SeenInv'
  BY <1>2, <1>9 DEF AskOfSpace, OfSpace
<1> QED
  BY <1>1, <1>3, <1>4, <1>5, <1>6, <1>7, <1>8, <1>9, RequestsWrite DEF MemoryNext

LEMMA SeenInvStep == ASSUME LearnInv, LearnInv', SeenInv, [MemoryNext]_memoryVars PROVE SeenInv'
<1>1. ASSUME NEW d \in Learner, Writes(d) PROVE SeenInv'
  BY <1>1, EndSees DEF Writes, LearnInv
<1>2. CASE UNCHANGED memoryVars
  BY <1>2 DEF memoryVars, SeenInv, SameWay
<1> QED
  BY <1>1, <1>2, MemoryWrites

\* No error pattern is resolved, no mastery confirmed and no review completed
\* over a version its user has not seen, as long as all devices write by the
\* new routes or all by the old ones.
THEOREM UnseenIsNotReplaced == MemorySpec => [][NothingUnseenIsReplaced]_memoryVars
<1>1. MemoryInit => LearnInv /\ SeenInv
  <2> SUFFICES ASSUME MemoryInit PROVE SeenInv
    BY LearnInvInit
  <2>1. NoRequest.held = NoRecord /\ NoRequest.what = "none" /\ NoRecord.version = 0
    BY DEF NoRequest, NoRecord
  <2> QED
    BY <2>1 DEF MemoryInit, SeenInv, Knows
<1>2. LearnInv /\ SeenInv /\ [MemoryNext]_memoryVars => LearnInv' /\ SeenInv'
  BY LearnInvStep, SeenInvStep
<1>3. LearnInv /\ SeenInv /\ [MemoryNext]_memoryVars => [NothingUnseenIsReplaced]_memoryVars
  <2> SUFFICES ASSUME LearnInv, SeenInv, MemoryNext PROVE NothingUnseenIsReplaced
    OBVIOUS
  <2>1. ASSUME NEW d \in Learner, Writes(d) PROVE NothingUnseenIsReplaced
    <3>1. \A e \in Learner : e # d => request'[e] = request[e]
      BY <2>1, RequestEnds DEF Writes, LearnInv
    <3> QED
      BY <2>1, <3>1 DEF Writes, SameWay, NothingUnseenIsReplaced
  <2>2. CASE UNCHANGED <<pattern, mastery, review>>
    BY <2>2 DEF NothingUnseenIsReplaced
  <2> QED
    BY <2>1, <2>2, MemoryWrites
<1> QED
  BY <1>1, <1>2, <1>3, PTL DEF MemorySpec

-----------------------------------------------------------------------------
(* The outline of a space (Outline).                                       *)

ExamRows == DOMAIN ParentOf
PlanKinds == {"publish", "edit", "revise", "task", "delete_goal"}
PlannerT == [what : {"none", "under", "delete_exam", "need", "delete_topic"} \cup PlanKinds, arg : ExamRows,
             holds : SUBSET (ExamRows \cup {"space", "goal"}),
             seen : [version : Nat, phases : SUBSET Phase]]
OutlineTypes ==
  /\ examRow \in [ExamRows -> {"none", "live", "gone"}]
  /\ planner \in [Planner -> PlannerT]
  /\ goal \in [status : {"none", "draft", "active", "gone"}, version : Nat]
  /\ phases \subseteq Phase /\ phaseOf \in [Errand -> Phase \cup {"absent", "gone"}]
  /\ topics \subseteq Subject /\ needs \subseteq Subject \X Subject

\* Row locks exclude; what a request found when it took them still holds.
LocksExclude == \A v, w \in Planner : v # w => planner[v].holds \cap planner[w].holds = {}
ParentIsHeld ==
  \A w \in Planner : planner[w].what = "under" =>
    /\ planner[w].arg # Exam /\ examRow[ParentOf[planner[w].arg]] = "live"
    /\ ParentOf[planner[w].arg] \in planner[w].holds
ExamIsHeld == \A w \in Planner : planner[w].what = "delete_exam" => Exam \in planner[w].holds
GoalIsHeld ==
  \A w \in Planner : planner[w].what \in PlanKinds =>
    "goal" \in planner[w].holds /\ goal.status \in {"draft", "active"}

\* Nothing is live below something that is not.
TreeIsWhole == \A r \in ExamRows : examRow[r] = "live" => examRow[ParentOf[r]] = "live"
WeightsFit == WeightSum(LiveRows("subject")) <= 100

\* A row that was counted and not yet inserted is one of its request.
Counted(kind) == {w \in Planner : planner[w].what = "under" /\ KindOf[planner[w].arg] = kind}
RowCount(kind) == Cardinality(LiveRows(kind)) + Cardinality(Counted(kind))
RowsAreCounted == \A kind \in ChildKinds \ {"subject"} : RowCount(kind) <= RowQuota + Cardinality(Planner) - 1

\* Before there is a goal there is no task; then each has one of its phases.
TasksHavePhases ==
  /\ goal.status = "none" => \A e \in Errand : phaseOf[e] = "absent"
  /\ PlanIsWhole

OutlineInv ==
  /\ OutlineTypes
  /\ LocksExclude /\ ParentIsHeld /\ ExamIsHeld /\ GoalIsHeld
  /\ TreeIsWhole /\ WeightsFit /\ RowsAreCounted
  /\ TasksHavePhases
  /\ PrerequisitesAreSound

\* A request that is there goes on or ends; what it does, to which row, and
\* the locks it has taken stay with it until it ends.
GoesOn(v) ==
  /\ planner'[v].what = planner[v].what /\ planner'[v].arg = planner[v].arg
  /\ planner[v].holds \subseteq planner'[v].holds
Calm == \A v \in Planner : planner'[v].what = "none" \/ GoesOn(v)

LEMMA OutlineDomains ==
  /\ IsFiniteSet(Planner) /\ IsFiniteSet(ExamRows) /\ Cardinality(Planner) \in Nat
  /\ RowQuota \in Nat \ {0} /\ Exam \in ExamRows
BY OutlineConstants, FS_CardinalityType DEF ExamRows

\* The sum over no rows is zero: the fold ends at once.
LEMMA NoWeights == WeightSum({}) = 0
<1> DEFINE iter[s \in SUBSET {}] ==
      IF s = {} THEN 0 ELSE LET x == CHOOSE x \in s : TRUE IN WeightOf[x] + iter[s \ {x}]
<1>1. WeightSum({}) = iter[{}]
  BY DEF WeightSum, MapThenSumSet, MapThenFoldSet
<1>2. iter = [s \in SUBSET {} |->
      IF s = {} THEN 0 ELSE LET x == CHOOSE x \in s : TRUE IN WeightOf[x] + iter[s \ {x}]]
  <2> DEFINE g == [s \in SUBSET {} |-> 0]
  <2>1. g = [s \in SUBSET {} |->
      IF s = {} THEN 0 ELSE LET x == CHOOSE x \in s : TRUE IN WeightOf[x] + g[s \ {x}]]
    OBVIOUS
  <2> HIDE DEF g
  <2> QED
    BY <2>1
<1> HIDE DEF iter
<1> QED
  BY <1>1, <1>2

LEMMA CountsAreNumbers ==
  ASSUME NEW kind
  PROVE  /\ IsFiniteSet(LiveRows(kind)) /\ IsFiniteSet(Counted(kind))
         /\ Cardinality(LiveRows(kind)) \in Nat /\ Cardinality(Counted(kind)) \in Nat
         /\ Cardinality(Counted(kind)) <= Cardinality(Planner)
<1>1. LiveRows(kind) \subseteq ExamRows /\ Counted(kind) \subseteq Planner
  BY DEF LiveRows, ExamRows, Counted
<1>2. /\ IsFiniteSet(LiveRows(kind)) /\ IsFiniteSet(Counted(kind))
      /\ Cardinality(Counted(kind)) <= Cardinality(Planner)
  BY <1>1, OutlineDomains, FS_Subset
<1> QED
  BY <1>2, FS_CardinalityType

\* Fewer live rows and fewer requests count for less.
LEMMA CountsShrink ==
  ASSUME RowsAreCounted,
         \A kind \in ChildKinds \ {"subject"} :
           LiveRows(kind)' \subseteq LiveRows(kind) /\ Counted(kind)' \subseteq Counted(kind)
  PROVE  RowsAreCounted'
<1> SUFFICES ASSUME NEW kind \in ChildKinds \ {"subject"}
             PROVE  (RowCount(kind) <= RowQuota + Cardinality(Planner) - 1)'
  BY DEF RowsAreCounted
<1> DEFINE a == Cardinality(LiveRows(kind))
           b == Cardinality(Counted(kind))
           c == Cardinality(LiveRows(kind)')
           d == Cardinality(Counted(kind)')
<1>1. IsFiniteSet(LiveRows(kind)) /\ IsFiniteSet(Counted(kind)) /\ a \in Nat /\ b \in Nat
  BY CountsAreNumbers
<1>2. c <= a /\ d <= b /\ c \in Nat /\ d \in Nat
  BY <1>1, FS_Subset, FS_CardinalityType
<1>3. a + b <= RowQuota + Cardinality(Planner) - 1
  BY DEF RowsAreCounted, RowCount
<1>4. RowQuota \in Nat /\ Cardinality(Planner) \in Nat
  BY OutlineDomains
<1>5. RowCount(kind)' = c + d
  BY DEF RowCount
<1> HIDE DEF a, b, c, d
<1>6. c + d <= RowQuota + Cardinality(Planner) - 1
  BY <1>1, <1>2, <1>3, <1>4
<1> QED
  BY <1>5, <1>6

\* What is said of the rows does not change while they do not, whatever ends.
LEMMA CalmKeepsRows ==
  ASSUME OutlineInv, planner' \in [Planner -> PlannerT], Calm, UNCHANGED examRow
  PROVE  ParentIsHeld' /\ ExamIsHeld' /\ TreeIsWhole' /\ WeightsFit' /\ RowsAreCounted'
<1>1. ParentIsHeld' /\ ExamIsHeld' /\ TreeIsWhole'
  <2>1. ASSUME NEW w \in Planner, planner'[w].what \in {"under", "delete_exam"} PROVE GoesOn(w)
    BY <2>1 DEF Calm, GoesOn
  <2>2. ParentIsHeld'
    <3>1. ASSUME NEW w \in Planner, planner'[w].what = "under"
          PROVE  /\ planner'[w].arg # Exam /\ examRow'[ParentOf[planner'[w].arg]] = "live"
                 /\ ParentOf[planner'[w].arg] \in planner'[w].holds
      BY <2>1, <3>1 DEF OutlineInv, GoesOn, ParentIsHeld
    <3> QED
      BY <3>1 DEF ParentIsHeld
  <2>3. ExamIsHeld'
    BY <2>1 DEF OutlineInv, GoesOn, ExamIsHeld
  <2> QED
    BY <2>2, <2>3 DEF OutlineInv, TreeIsWhole
<1>2. \A kind : LiveRows(kind)' = LiveRows(kind)
  BY DEF LiveRows
<1>3. WeightsFit'
  BY <1>2 DEF OutlineInv, WeightsFit
<1>4. \A kind : Counted(kind)' \subseteq Counted(kind)
  BY DEF Counted, Calm, GoesOn
<1>5. RowsAreCounted'
  BY <1>2, <1>4, CountsShrink DEF OutlineInv
<1> QED
  BY <1>1, <1>3, <1>5

LEMMA CalmKeepsGoal ==
  ASSUME OutlineInv, Calm, UNCHANGED goal
  PROVE  GoalIsHeld'
<1>1. ASSUME NEW w \in Planner, planner'[w].what \in PlanKinds
      PROVE  "goal" \in planner'[w].holds /\ goal'.status \in {"draft", "active"}
  <2>1. GoesOn(w)
    BY <1>1 DEF Calm, PlanKinds, GoesOn
  <2> QED
    BY <1>1, <2>1 DEF OutlineInv, GoesOn, GoalIsHeld
<1> QED
  BY <1>1 DEF GoalIsHeld

\* The steps of requests.
LEMMA ConcludeMoves ==
  ASSUME OutlineInv, NEW w \in Planner, NEW what, Conclude(w, what)
  PROVE  /\ planner' \in [Planner -> PlannerT] /\ Calm /\ LocksExclude'
         /\ planner[w].what = what /\ planner'[w].what = "none"
         /\ \A v \in Planner \ {w} : planner'[v] = planner[v]
<1> DEFINE desk == AtDesk(planner[w].seen)
<1>1. planner \in [Planner -> PlannerT] /\ planner[w] \in PlannerT /\ LocksExclude
  BY DEF OutlineInv, OutlineTypes
<1>2. desk \in PlannerT /\ desk.what = "none" /\ desk.holds = {}
  <2> DEFINE seen == planner[w].seen
  <2>1. seen \in [version : Nat, phases : SUBSET Phase]
    BY <1>1 DEF PlannerT
  <2>2. desk = [what |-> "none", arg |-> Exam, holds |-> {}, seen |-> seen]
    BY DEF AtDesk
  <2> HIDE DEF seen, desk
  <2> QED
    BY <2>1, <2>2, OutlineDomains DEF PlannerT
<1>3. planner' = [planner EXCEPT ![w] = desk] /\ planner[w].what = what
  BY DEF Conclude
<1> HIDE DEF desk
<1>4. /\ planner' \in [Planner -> PlannerT] /\ planner'[w] = desk
      /\ \A v \in Planner \ {w} : planner'[v] = planner[v]
  BY <1>1, <1>2, <1>3
<1> QED
  BY <1>1, <1>2, <1>3, <1>4 DEF Calm, GoesOn, LocksExclude

LEMMA RowsStay ==
  ASSUME OutlineInv, NEW w \in Planner, NEW what, Conclude(w, what), UNCHANGED <<examRow, topics, needs>>,
         goal' \in [status : {"none", "draft", "active", "gone"}, version : Nat],
         phases' \subseteq Phase, phaseOf' \in [Errand -> Phase \cup {"absent", "gone"}],
         GoalIsHeld', TasksHavePhases'
  PROVE  OutlineInv'
<1>1. planner' \in [Planner -> PlannerT] /\ Calm /\ LocksExclude'
  BY ConcludeMoves
<1>2. ParentIsHeld' /\ ExamIsHeld' /\ TreeIsWhole' /\ WeightsFit' /\ RowsAreCounted'
  BY <1>1, CalmKeepsRows
<1>3. OutlineTypes'
  BY <1>1 DEF OutlineInv, OutlineTypes
<1>4. PrerequisitesAreSound'
  BY DEF OutlineInv, PrerequisitesAreSound, LeadsTo, FollowsEdges
<1> QED
  BY <1>1, <1>2, <1>3, <1>4 DEF OutlineInv

LEMMA PlanStays ==
  ASSUME OutlineInv, UNCHANGED <<goal, phases, phaseOf>>
  PROVE  TasksHavePhases'
BY DEF OutlineInv, TasksHavePhases, PlanIsWhole

LEMMA GraphStays ==
  ASSUME OutlineInv, UNCHANGED <<topics, needs>>
  PROVE  PrerequisitesAreSound'
BY DEF OutlineInv, PrerequisitesAreSound, LeadsTo, FollowsEdges

\* A request that starts finds what it holds as its invariants say.
Wanted(what, arg, rows) ==
  /\ what = "under" =>
       arg # Exam /\ examRow[ParentOf[arg]] = "live" /\ ParentOf[arg] \in rows /\ RowFits(arg)
  /\ what = "delete_exam" => Exam \in rows
  /\ what \in PlanKinds => "goal" \in rows /\ goal.status \in {"draft", "active"}

LEMMA HoldMoves ==
  ASSUME OutlineInv, NEW w \in Planner, NEW what, NEW arg \in ExamRows, NEW rows, Hold(w, what, arg, rows),
         what \in {"under", "delete_exam", "need", "delete_topic"} \cup PlanKinds,
         rows \subseteq ExamRows \cup {"space", "goal"}
  PROVE  /\ planner' \in [Planner -> PlannerT] /\ LocksExclude'
         /\ planner[w].what = "none"
         /\ planner'[w].what = what /\ planner'[w].arg = arg /\ planner'[w].holds = rows
         /\ \A v \in Planner \ {w} : planner'[v] = planner[v]
<1> DEFINE next == [planner[w] EXCEPT !.what = what, !.arg = arg, !.holds = rows]
<1>1. planner \in [Planner -> PlannerT] /\ planner[w] \in PlannerT /\ LocksExclude
  BY DEF OutlineInv, OutlineTypes
<1>2. next \in PlannerT /\ next.what = what /\ next.arg = arg /\ next.holds = rows
  BY <1>1 DEF PlannerT
<1>3. planner' = [planner EXCEPT ![w] = next] /\ planner[w].what = "none"
      /\ \A v \in Planner \ {w} : rows \cap planner[v].holds = {}
  BY DEF Hold, Unlocked
<1> HIDE DEF next
<1>4. /\ planner' \in [Planner -> PlannerT] /\ planner'[w] = next
      /\ \A v \in Planner \ {w} : planner'[v] = planner[v]
  BY <1>1, <1>2, <1>3
<1>5. LocksExclude'
  BY <1>1, <1>2, <1>3, <1>4 DEF LocksExclude
<1> QED
  BY <1>2, <1>3, <1>4, <1>5

LEMMA HoldKeeps ==
  ASSUME OutlineInv, NEW w \in Planner, NEW what, NEW arg \in ExamRows, NEW rows, Hold(w, what, arg, rows),
         what \in {"under", "delete_exam", "need", "delete_topic"} \cup PlanKinds,
         rows \subseteq ExamRows \cup {"space", "goal"}, Wanted(what, arg, rows)
  PROVE  OutlineInv'
<1>1. /\ planner' \in [Planner -> PlannerT] /\ LocksExclude'
      /\ planner[w].what = "none"
      /\ planner'[w].what = what /\ planner'[w].arg = arg /\ planner'[w].holds = rows
      /\ \A v \in Planner \ {w} : planner'[v] = planner[v]
  BY HoldMoves
<1>2. UNCHANGED <<examRow, goal, phases, phaseOf, topics, needs>>
  BY DEF Hold
<1>3. OutlineTypes'
  BY <1>1, <1>2 DEF OutlineInv, OutlineTypes
<1>4. ParentIsHeld' /\ ExamIsHeld' /\ GoalIsHeld'
  <2>1. ParentIsHeld'
    <3>1. ASSUME NEW v \in Planner, planner'[v].what = "under"
          PROVE  /\ planner'[v].arg # Exam /\ examRow[ParentOf[planner'[v].arg]] = "live"
                 /\ ParentOf[planner'[v].arg] \in planner'[v].holds
      BY <1>1, <3>1 DEF OutlineInv, ParentIsHeld, Wanted
    <3> QED
      BY <1>2, <3>1 DEF ParentIsHeld
  <2>2. ExamIsHeld'
    BY <1>1 DEF OutlineInv, ExamIsHeld, Wanted
  <2>3. GoalIsHeld'
    <3>1. ASSUME NEW v \in Planner, planner'[v].what \in PlanKinds
          PROVE  "goal" \in planner'[v].holds /\ goal.status \in {"draft", "active"}
      BY <1>1, <3>1 DEF OutlineInv, GoalIsHeld, Wanted
    <3> QED
      BY <1>2, <3>1 DEF GoalIsHeld
  <2> QED
    BY <2>1, <2>2, <2>3
<1>5. TreeIsWhole' /\ WeightsFit'
  BY <1>2 DEF OutlineInv, TreeIsWhole, WeightsFit, LiveRows
<1>6. RowsAreCounted'
  <2>1. \A kind : LiveRows(kind)' = LiveRows(kind)
    BY <1>2 DEF LiveRows
  <2>2. CASE what # "under"
    <3>1. \A kind : Counted(kind)' \subseteq Counted(kind)
      BY <1>1, <2>2 DEF Counted
    <3> QED
      BY <2>1, <3>1, CountsShrink DEF OutlineInv
  <2>3. CASE what = "under"
    <3>1. ASSUME NEW kind \in ChildKinds \ {"subject"}
          PROVE  Cardinality(LiveRows(kind)) + Cardinality(Counted(kind)') <= RowQuota + Cardinality(Planner) - 1
      <4>1. CASE KindOf[arg] = kind
        <5> DEFINE a == Cardinality(LiveRows(kind))
                   b == Cardinality(Counted(kind)')
        <5>1. Counted(kind)' \subseteq Planner
          BY DEF Counted
        <5>2. b <= Cardinality(Planner) /\ b \in Nat /\ Cardinality(Planner) \in Nat
          BY <5>1, OutlineDomains, FS_Subset, FS_CardinalityType
        <5>3. a \in Nat
          BY CountsAreNumbers
        <5>4. a < RowQuota /\ RowQuota \in Nat
          BY <2>3, <3>1, <4>1, OutlineDomains DEF Wanted, RowFits
        <5> HIDE DEF a, b
        <5>5. a + b <= RowQuota + Cardinality(Planner) - 1
          BY <5>2, <5>3, <5>4
        <5> QED
          BY <5>5 DEF a, b
      <4>2. CASE KindOf[arg] # kind
        <5>1. Counted(kind)' = Counted(kind)
          BY <1>1, <4>2 DEF Counted
        <5> QED
          BY <3>1, <5>1 DEF OutlineInv, RowsAreCounted, RowCount
      <4> QED
        BY <4>1, <4>2
    <3> QED
      BY <2>1, <3>1 DEF RowsAreCounted, RowCount
  <2> QED
    BY <2>2, <2>3
<1>7. TasksHavePhases' /\ PrerequisitesAreSound'
  BY <1>2, PlanStays, GraphStays
<1> QED
  BY <1>1, <1>3, <1>4, <1>5, <1>6, <1>7 DEF OutlineInv

\* The four kinds of requests take their locks.
LEMMA OutlineAskKeeps ==
  ASSUME OutlineInv, NEW w \in Planner,
         \/ \E r \in DOMAIN ParentOf : AskUnder(w, r)
         \/ AskNoExam(w)
         \/ \E what \in {"publish", "edit", "revise", "task", "delete_goal"} : AskOfGoal(w, what)
         \/ \E what \in {"need", "delete_topic"} : AskOfTopics(w, what)
  PROVE  OutlineInv'
<1>1. ASSUME NEW r \in DOMAIN ParentOf, AskUnder(w, r) PROVE OutlineInv'
  <2>1. /\ r # Exam /\ examRow[ParentOf[r]] = "live" /\ RowFits(r)
        /\ Hold(w, "under", r, {ParentOf[r]}) /\ ParentOf[r] \in ExamRows
    BY <1>1, OutlineConstants DEF AskUnder, ExamRows
  <2>2. Wanted("under", r, {ParentOf[r]})
    BY <2>1 DEF Wanted, PlanKinds
  <2> QED
    BY <2>1, <2>2, HoldKeeps DEF ExamRows
<1>2. ASSUME AskNoExam(w) PROVE OutlineInv'
  <2>1. Hold(w, "delete_exam", Exam, {Exam, "space"})
    BY <1>2 DEF AskNoExam
  <2>2. Wanted("delete_exam", Exam, {Exam, "space"})
    BY DEF Wanted, PlanKinds
  <2> QED
    BY <2>1, <2>2, HoldKeeps, OutlineDomains
<1>3. ASSUME NEW what \in PlanKinds, AskOfGoal(w, what) PROVE OutlineInv'
  <2> DEFINE rows == IF what = "delete_goal" THEN {"goal", "space"} ELSE {"goal"}
  <2>1. Hold(w, what, Exam, rows) /\ goal.status \in {"draft", "active"}
    BY <1>3 DEF AskOfGoal
  <2>2. "goal" \in rows /\ rows \subseteq ExamRows \cup {"space", "goal"}
    OBVIOUS
  <2> HIDE DEF rows
  <2>3. Wanted(what, Exam, rows)
    BY <1>3, <2>1, <2>2 DEF Wanted, PlanKinds
  <2> QED
    BY <2>1, <2>2, <2>3, HoldKeeps, OutlineDomains
<1>4. ASSUME NEW what \in {"need", "delete_topic"}, AskOfTopics(w, what) PROVE OutlineInv'
  <2>1. Hold(w, what, Exam, {"space"})
    BY <1>4 DEF AskOfTopics
  <2>2. Wanted(what, Exam, {"space"})
    BY <1>4 DEF Wanted, PlanKinds
  <2> QED
    BY <2>1, <2>2, HoldKeeps, OutlineDomains
<1> QED
  BY <1>1, <1>2, <1>3, <1>4 DEF PlanKinds

\* Rows are created one by one.
LEMMA CreateUnderKeeps ==
  ASSUME OutlineInv, NEW w \in Planner, CreateUnder(w)
  PROVE  OutlineInv'
<1> DEFINE r == planner[w].arg
<1>1. /\ Conclude(w, "under") /\ examRow[r] = "none" /\ SubjectFits(r)
      /\ examRow' = [examRow EXCEPT ![r] = "live"]
      /\ UNCHANGED <<goal, phases, phaseOf, topics, needs>>
  BY DEF CreateUnder
<1>2. /\ planner' \in [Planner -> PlannerT] /\ Calm /\ LocksExclude'
      /\ planner[w].what = "under" /\ planner'[w].what = "none"
      /\ \A v \in Planner \ {w} : planner'[v] = planner[v]
  BY <1>1, ConcludeMoves
<1>3. /\ examRow \in [ExamRows -> {"none", "live", "gone"}] /\ r \in ExamRows
      /\ r # Exam /\ examRow[ParentOf[r]] = "live" /\ ParentOf[r] \in ExamRows
  BY <1>2, OutlineConstants DEF OutlineInv, OutlineTypes, PlannerT, ParentIsHeld, ExamRows
<1> HIDE DEF r
<1>4. /\ examRow' \in [ExamRows -> {"none", "live", "gone"}] /\ examRow'[r] = "live"
      /\ \A s \in ExamRows \ {r} : examRow'[s] = examRow[s]
  BY <1>1, <1>3
<1>5. OutlineTypes'
  BY <1>1, <1>2, <1>4 DEF OutlineInv, OutlineTypes
<1>6. ParentIsHeld' /\ ExamIsHeld' /\ GoalIsHeld'
  <2>1. ASSUME NEW v \in Planner, planner'[v].what = "under"
        PROVE  /\ planner'[v].arg # Exam /\ examRow'[ParentOf[planner'[v].arg]] = "live"
               /\ ParentOf[planner'[v].arg] \in planner'[v].holds
    <3>1. planner'[v] = planner[v] /\ planner[v].arg \in ExamRows
      BY <1>2, <2>1 DEF OutlineInv, OutlineTypes, PlannerT
    <3>2. ParentOf[planner[v].arg] \in ExamRows
      BY <3>1, OutlineConstants DEF ExamRows
    <3> QED
      BY <1>1, <1>3, <1>4, <2>1, <3>1, <3>2 DEF OutlineInv, ParentIsHeld
  <2>2. ParentIsHeld'
    BY <2>1 DEF ParentIsHeld
  <2>3. ExamIsHeld'
    BY <1>2 DEF OutlineInv, ExamIsHeld
  <2> QED
    BY <1>1, <1>2, <2>2, <2>3, CalmKeepsGoal
<1>7. TreeIsWhole'
  BY <1>3, <1>4, OutlineConstants DEF OutlineInv, TreeIsWhole, ExamRows
<1>8. \A kind : LiveRows(kind)' = IF KindOf[r] = kind THEN LiveRows(kind) \cup {r} ELSE LiveRows(kind)
  BY <1>3, <1>4 DEF LiveRows, ExamRows
<1>9. WeightsFit'
  <2>1. CASE KindOf[r] = "subject"
    <3>1. LiveRows("subject")' = LiveRows("subject") \cup {r}
      BY <1>8, <2>1
    <3>2. WeightSum(LiveRows("subject") \cup {r}) <= 100
      BY <1>1, <2>1 DEF SubjectFits
    <3> QED
      BY <3>1, <3>2 DEF WeightsFit
  <2>2. CASE KindOf[r] # "subject"
    <3>1. LiveRows("subject")' = LiveRows("subject")
      BY <1>8, <2>2
    <3> QED
      BY <3>1 DEF OutlineInv, WeightsFit
  <2> QED
    BY <2>1, <2>2
<1>10. RowsAreCounted'
  <2>1. ASSUME NEW kind \in ChildKinds \ {"subject"}
        PROVE  Cardinality(LiveRows(kind)') + Cardinality(Counted(kind)') <= RowQuota + Cardinality(Planner) - 1
    <3>1. Cardinality(LiveRows(kind)) + Cardinality(Counted(kind)) <= RowQuota + Cardinality(Planner) - 1
      BY <2>1 DEF OutlineInv, RowsAreCounted, RowCount
    <3>2. CASE KindOf[r] = kind
      <4>1. LiveRows(kind)' = LiveRows(kind) \cup {r} /\ r \notin LiveRows(kind)
        BY <1>1, <1>8, <3>2 DEF LiveRows
      <4>2. Counted(kind)' = Counted(kind) \ {w} /\ w \in Counted(kind)
        BY <1>2, <3>2 DEF Counted, r
      <4> DEFINE a == Cardinality(LiveRows(kind))
                 b == Cardinality(Counted(kind))
      <4>3. a \in Nat /\ b \in Nat /\ IsFiniteSet(LiveRows(kind)) /\ IsFiniteSet(Counted(kind))
        BY CountsAreNumbers
      <4>4. Cardinality(LiveRows(kind)') = a + 1
        BY <4>1, <4>3, FS_AddElement
      <4>5. Cardinality(Counted(kind)') = b - 1
        BY <4>2, <4>3, FS_RemoveElement
      <4> HIDE DEF a, b
      <4>6. (a + 1) + (b - 1) = a + b
        BY <4>3
      <4> QED
        BY <3>1, <4>4, <4>5, <4>6 DEF a, b
    <3>3. CASE KindOf[r] # kind
      <4>1. LiveRows(kind)' = LiveRows(kind)
        BY <1>8, <3>3
      <4>2. Counted(kind)' = Counted(kind)
        BY <1>2, <3>3 DEF Counted, r
      <4> QED
        BY <3>1, <4>1, <4>2
    <3> QED
      BY <3>2, <3>3
  <2> QED
    BY <2>1 DEF RowsAreCounted, RowCount
<1>11. TasksHavePhases' /\ PrerequisitesAreSound'
  BY <1>1, PlanStays, GraphStays
<1> QED
  BY <1>2, <1>5, <1>6, <1>7, <1>9, <1>10, <1>11 DEF OutlineInv

\* The exam itself, and rows locked by its deletion.
LEMMA CreateExamKeeps ==
  ASSUME OutlineInv, NEW w \in Planner, CreateExam(w)
  PROVE  OutlineInv'
<1>1. /\ examRow[Exam] = "none" /\ examRow' = [examRow EXCEPT ![Exam] = "live"]
      /\ UNCHANGED <<goal, phases, phaseOf, topics, needs, planner>>
  BY DEF CreateExam
<1>2. examRow \in [ExamRows -> {"none", "live", "gone"}] /\ Exam \in ExamRows
  BY OutlineDomains DEF OutlineInv, OutlineTypes
<1>3. /\ examRow' \in [ExamRows -> {"none", "live", "gone"}] /\ examRow'[Exam] = "live"
      /\ \A s \in ExamRows \ {Exam} : examRow'[s] = examRow[s]
  BY <1>1, <1>2
<1>4. OutlineTypes'
  BY <1>1, <1>3 DEF OutlineInv, OutlineTypes
<1>5. LocksExclude' /\ ExamIsHeld' /\ GoalIsHeld'
  BY <1>1 DEF OutlineInv, LocksExclude, ExamIsHeld, GoalIsHeld
<1>6. ParentIsHeld'
  <2>1. ASSUME NEW v \in Planner, planner[v].what = "under"
        PROVE  examRow'[ParentOf[planner[v].arg]] = "live"
    <3>1. planner[v].arg \in ExamRows /\ examRow[ParentOf[planner[v].arg]] = "live"
      BY <2>1 DEF OutlineInv, OutlineTypes, PlannerT, ParentIsHeld
    <3>2. ParentOf[planner[v].arg] \in ExamRows
      BY <3>1, OutlineConstants DEF ExamRows
    <3> QED
      BY <1>3, <3>1, <3>2
  <2> QED
    BY <1>1, <2>1 DEF OutlineInv, ParentIsHeld
<1>7. TreeIsWhole'
  BY <1>2, <1>3, OutlineConstants DEF OutlineInv, TreeIsWhole, ExamRows
<1>8. \A kind \in ChildKinds : LiveRows(kind)' = LiveRows(kind)
  BY <1>3, OutlineConstants DEF LiveRows, ExamRows
<1>9. WeightsFit' /\ RowsAreCounted'
  <2>1. LiveRows("subject")' = LiveRows("subject")
    BY <1>8 DEF ChildKinds
  <2>2. \A kind : Counted(kind)' = Counted(kind)
    BY <1>1 DEF Counted
  <2> QED
    BY <1>8, <2>1, <2>2, CountsShrink DEF OutlineInv, WeightsFit
<1>10. TasksHavePhases' /\ PrerequisitesAreSound'
  BY <1>1, PlanStays, GraphStays
<1> QED
  BY <1>4, <1>5, <1>6, <1>7, <1>9, <1>10 DEF OutlineInv

LEMMA LockChildrenKeeps ==
  ASSUME OutlineInv, NEW w \in Planner, LockChildren(w)
  PROVE  OutlineInv'
<1> DEFINE wider == planner[w].holds \cup Below({Exam})
           next == [planner[w] EXCEPT !.holds = wider]
<1>1. /\ planner' = [planner EXCEPT ![w] = next]
      /\ \A r \in Below({Exam}) : Unlocked(w, r)
      /\ UNCHANGED <<examRow, goal, phases, phaseOf, topics, needs>>
  BY DEF LockChildren
<1>2. planner \in [Planner -> PlannerT] /\ planner[w] \in PlannerT /\ LocksExclude
  BY DEF OutlineInv, OutlineTypes
<1>3. wider \subseteq ExamRows \cup {"space", "goal"} /\ planner[w].holds \subseteq wider
  BY <1>2 DEF PlannerT, Below, ExamRows
<1>4. \A v \in Planner \ {w} : wider \cap planner[v].holds = {}
  BY <1>1, <1>2 DEF LocksExclude, Unlocked
<1> HIDE DEF wider
<1>5. /\ next \in PlannerT /\ next.what = planner[w].what /\ next.arg = planner[w].arg
      /\ next.holds = wider
  BY <1>2, <1>3 DEF PlannerT
<1> HIDE DEF next
<1>6. /\ planner' \in [Planner -> PlannerT] /\ planner'[w] = next
      /\ \A v \in Planner \ {w} : planner'[v] = planner[v]
  BY <1>1, <1>2, <1>5
<1>7. Calm /\ LocksExclude'
  BY <1>2, <1>3, <1>4, <1>5, <1>6 DEF Calm, GoesOn, LocksExclude
<1>8. OutlineTypes'
  BY <1>1, <1>6 DEF OutlineInv, OutlineTypes
<1>9. ParentIsHeld' /\ ExamIsHeld' /\ TreeIsWhole' /\ WeightsFit' /\ RowsAreCounted' /\ GoalIsHeld'
  BY <1>1, <1>6, <1>7, CalmKeepsRows, CalmKeepsGoal
<1>10. TasksHavePhases' /\ PrerequisitesAreSound'
  BY <1>1, PlanStays, GraphStays
<1> QED
  BY <1>7, <1>8, <1>9, <1>10 DEF OutlineInv

\* Everything that is live goes with the exam, and nobody else holds any of it.
LEMMA DeleteExamKeeps ==
  ASSUME OutlineInv, NEW w \in Planner, DeleteExam(w)
  PROVE  OutlineInv'
<1> DEFINE scope == planner[w].holds \cup Below(planner[w].holds)
<1>1. /\ Below({Exam}) \subseteq planner[w].holds /\ Conclude(w, "delete_exam")
      /\ examRow' = [r \in ExamRows |-> IF r \in scope THEN "gone" ELSE examRow[r]]
      /\ UNCHANGED <<goal, phases, phaseOf, topics, needs>>
  BY DEF DeleteExam, ExamRows
<1>2. /\ planner' \in [Planner -> PlannerT] /\ Calm /\ LocksExclude'
      /\ planner[w].what = "delete_exam" /\ planner'[w].what = "none"
      /\ \A v \in Planner \ {w} : planner'[v] = planner[v]
  BY <1>1, ConcludeMoves
<1>3. examRow \in [ExamRows -> {"none", "live", "gone"}] /\ Exam \in planner[w].holds
  BY <1>2 DEF OutlineInv, OutlineTypes, ExamIsHeld
<1>4. OutlineTypes'
  BY <1>1, <1>2, <1>3 DEF OutlineInv, OutlineTypes
<1>5. ASSUME NEW s \in ExamRows, s # Exam, ParentOf[s] = Exam, examRow[s] = "live"
      PROVE  s \in planner[w].holds
  BY <1>1, <1>5 DEF Below, ExamRows
<1>6. ASSUME NEW r \in ExamRows, examRow[r] = "live" PROVE r \in scope
  <2>1. /\ ParentOf[r] \in ExamRows /\ examRow[ParentOf[r]] = "live"
        /\ r = Exam \/ ParentOf[r] = Exam \/ (ParentOf[r] # Exam /\ ParentOf[ParentOf[r]] = Exam)
    BY <1>6, OutlineConstants DEF OutlineInv, TreeIsWhole, ExamRows
  <2>2. CASE r = Exam \/ ParentOf[r] = Exam
    BY <1>3, <1>5, <1>6, <2>2
  <2>3. CASE r # Exam /\ ParentOf[r] # Exam /\ ParentOf[ParentOf[r]] = Exam
    <3>1. ParentOf[r] \in planner[w].holds
      BY <1>5, <2>1, <2>3
    <3> QED
      BY <1>6, <2>3, <3>1 DEF Below, ExamRows
  <2> QED
    BY <2>1, <2>2, <2>3
<1>7. \A r \in ExamRows : examRow'[r] # "live"
  BY <1>1, <1>6
<1>8. ASSUME NEW v \in Planner, planner'[v].what = "under" PROVE FALSE
  <2> DEFINE up == ParentOf[planner[v].arg]
  <2>1. v # w /\ planner'[v] = planner[v]
    BY <1>2, <1>8
  <2>2. /\ planner[v].arg \in ExamRows /\ planner[v].arg # Exam /\ examRow[up] = "live"
        /\ up \in planner[v].holds
    BY <1>8, <2>1 DEF OutlineInv, OutlineTypes, PlannerT, ParentIsHeld
  <2>3. up \in ExamRows /\ (up = Exam \/ ParentOf[up] = Exam)
    BY <2>2, OutlineConstants DEF ExamRows
  <2>4. up \in planner[w].holds
    BY <1>3, <1>5, <2>2, <2>3
  <2>5. planner[v].holds \cap planner[w].holds = {}
    BY <2>1 DEF OutlineInv, LocksExclude
  <2> QED
    BY <2>2, <2>4, <2>5
<1> HIDE DEF scope
<1>9. ParentIsHeld' /\ TreeIsWhole'
  BY <1>7, <1>8 DEF ParentIsHeld, TreeIsWhole
<1>10. ExamIsHeld'
  BY <1>2 DEF OutlineInv, ExamIsHeld
<1>11. GoalIsHeld'
  BY <1>1, <1>2, CalmKeepsGoal
<1>12. \A kind : LiveRows(kind)' = {}
  BY <1>7 DEF LiveRows, ExamRows
<1>13. WeightsFit'
  BY <1>12, NoWeights DEF WeightsFit
<1>14. RowsAreCounted'
  <2>1. \A kind : Counted(kind)' \subseteq Counted(kind)
    BY <1>2 DEF Counted, Calm, GoesOn
  <2> QED
    BY <1>12, <2>1, CountsShrink DEF OutlineInv
<1>15. TasksHavePhases' /\ PrerequisitesAreSound'
  BY <1>1, PlanStays, GraphStays
<1> QED
  BY <1>2, <1>4, <1>9, <1>10, <1>11, <1>13, <1>14, <1>15 DEF OutlineInv

LEMMA ReadGoalsKeeps ==
  ASSUME OutlineInv, NEW w \in Planner, ReadGoals(w)
  PROVE  OutlineInv'
<1> DEFINE view == [version |-> goal.version, phases |-> phases]
           next == [planner[w] EXCEPT !.seen = view]
<1>1. /\ planner' = [planner EXCEPT ![w] = next]
      /\ UNCHANGED <<examRow, goal, phases, phaseOf, topics, needs>>
  BY DEF ReadGoals
<1>2. planner \in [Planner -> PlannerT] /\ planner[w] \in PlannerT /\ LocksExclude
  BY DEF OutlineInv, OutlineTypes
<1>3. view \in [version : Nat, phases : SUBSET Phase]
  BY DEF OutlineInv, OutlineTypes
<1> HIDE DEF view
<1>4. /\ next \in PlannerT /\ next.what = planner[w].what /\ next.arg = planner[w].arg
      /\ next.holds = planner[w].holds
  BY <1>2, <1>3 DEF PlannerT
<1> HIDE DEF next
<1>5. /\ planner' \in [Planner -> PlannerT] /\ planner'[w] = next
      /\ \A v \in Planner \ {w} : planner'[v] = planner[v]
  BY <1>1, <1>2, <1>4
<1>6. Calm /\ LocksExclude'
  BY <1>2, <1>4, <1>5 DEF Calm, GoesOn, LocksExclude
<1>7. OutlineTypes'
  BY <1>1, <1>5 DEF OutlineInv, OutlineTypes
<1>8. ParentIsHeld' /\ ExamIsHeld' /\ TreeIsWhole' /\ WeightsFit' /\ RowsAreCounted' /\ GoalIsHeld'
  BY <1>1, <1>5, <1>6, CalmKeepsRows, CalmKeepsGoal
<1>9. TasksHavePhases' /\ PrerequisitesAreSound'
  BY <1>1, PlanStays, GraphStays
<1> QED
  BY <1>6, <1>7, <1>8, <1>9 DEF OutlineInv

\* The goal, its phases and its tasks: a request that holds the goal is alone
\* with it.
LEMMA GoalIsOne ==
  ASSUME OutlineInv, NEW w \in Planner, planner[w].what \in PlanKinds
  PROVE  /\ goal.status \in {"draft", "active"} /\ phases # {}
         /\ \A v \in Planner \ {w} : planner[v].what \notin PlanKinds
BY DEF OutlineInv, GoalIsHeld, LocksExclude, TasksHavePhases, PlanIsWhole

LEMMA GoalIsLeft ==
  ASSUME OutlineInv, NEW w \in Planner, planner[w].what \in PlanKinds, planner'[w].what = "none",
         \A v \in Planner \ {w} : planner'[v] = planner[v]
  PROVE  GoalIsHeld'
<1>1. \A v \in Planner \ {w} : planner'[v].what \notin PlanKinds
  BY GoalIsOne
<1>2. planner'[w].what \notin PlanKinds
  BY DEF PlanKinds
<1>3. \A v \in Planner : planner'[v].what \notin PlanKinds
  BY <1>1, <1>2
<1> QED
  BY <1>3 DEF GoalIsHeld

LEMMA PlanMoves ==
  ASSUME OutlineInv, NEW w \in Planner,
         \/ Publish(w) \/ UpdateGoal(w) \/ DeleteGoal(w)
         \/ \E wanted \in SUBSET Phase : RevisePhases(w, wanted)
         \/ \E e \in Errand, p \in Phase : AddTask(w, e, p)
  PROVE  OutlineInv'
<1>1. /\ goal \in [status : {"none", "draft", "active", "gone"}, version : Nat]
      /\ phases \subseteq Phase /\ phaseOf \in [Errand -> Phase \cup {"absent", "gone"}]
      /\ TasksHavePhases
  BY DEF OutlineInv, OutlineTypes
<1> DEFINE n == goal.version + 1
<1>2. n \in Nat
  BY <1>1
<1>3. "absent" \notin Phase /\ "gone" \notin Phase
  BY OutlineConstants
<1> HIDE DEF n
<1>4. CASE Publish(w)
  <2>1. /\ Conclude(w, "publish") /\ phases # {} /\ goal' = [status |-> "active", version |-> n]
        /\ UNCHANGED <<examRow, phases, phaseOf, topics, needs>>
    BY <1>4 DEF Publish, n
  <2>2. /\ planner[w].what = "publish" /\ planner'[w].what = "none"
        /\ \A v \in Planner \ {w} : planner'[v] = planner[v]
    BY <2>1, ConcludeMoves
  <2>3. goal' \in [status : {"none", "draft", "active", "gone"}, version : Nat] /\ goal'.status = "active"
    BY <1>2, <2>1
  <2>4. planner[w].what \in PlanKinds /\ GoalIsHeld'
    <3>1. planner[w].what \in PlanKinds
      BY <2>2 DEF PlanKinds
    <3> QED
      BY <2>2, <3>1, GoalIsLeft
  <2>5. TasksHavePhases'
    BY <1>1, <2>1, <2>3 DEF TasksHavePhases, PlanIsWhole
  <2> QED
    BY <1>1, <2>1, <2>3, <2>4, <2>5, RowsStay
<1>5. CASE UpdateGoal(w)
  <2>1. /\ Conclude(w, "edit") /\ goal' = [goal EXCEPT !.version = n]
        /\ UNCHANGED <<examRow, phases, phaseOf, topics, needs>>
    BY <1>5 DEF UpdateGoal, n
  <2>2. /\ planner[w].what = "edit" /\ planner'[w].what = "none"
        /\ \A v \in Planner \ {w} : planner'[v] = planner[v]
    BY <2>1, ConcludeMoves
  <2>3. goal' \in [status : {"none", "draft", "active", "gone"}, version : Nat] /\ goal'.status = goal.status
    BY <1>1, <1>2, <2>1
  <2>4. planner[w].what \in PlanKinds /\ GoalIsHeld'
    <3>1. planner[w].what \in PlanKinds
      BY <2>2 DEF PlanKinds
    <3> QED
      BY <2>2, <3>1, GoalIsLeft
  <2>5. TasksHavePhases'
    BY <1>1, <2>1, <2>3 DEF TasksHavePhases, PlanIsWhole
  <2> QED
    BY <1>1, <2>1, <2>3, <2>4, <2>5, RowsStay
<1>6. CASE DeleteGoal(w)
  <2>1. /\ Conclude(w, "delete_goal") /\ goal' = [status |-> "gone", version |-> n]
        /\ phaseOf' = [e \in Errand |-> IF phaseOf[e] = "absent" THEN "absent" ELSE "gone"]
        /\ UNCHANGED <<examRow, phases, topics, needs>>
    BY <1>6 DEF DeleteGoal, n
  <2>2. /\ planner[w].what = "delete_goal" /\ planner'[w].what = "none"
        /\ \A v \in Planner \ {w} : planner'[v] = planner[v]
    BY <2>1, ConcludeMoves
  <2>3. goal' \in [status : {"none", "draft", "active", "gone"}, version : Nat] /\ goal'.status = "gone"
        /\ phaseOf' \in [Errand -> Phase \cup {"absent", "gone"}]
    BY <1>2, <2>1
  <2>4. planner[w].what \in PlanKinds /\ GoalIsHeld'
    <3>1. planner[w].what \in PlanKinds
      BY <2>2 DEF PlanKinds
    <3> QED
      BY <2>2, <3>1, GoalIsLeft
  <2>5. TasksHavePhases'
    BY <1>1, <1>3, <2>1, <2>3 DEF TasksHavePhases, PlanIsWhole
  <2> QED
    BY <1>1, <2>1, <2>3, <2>4, <2>5, RowsStay
<1>7. ASSUME NEW kept \in SUBSET Phase, RevisePhases(w, kept) PROVE OutlineInv'
  <2>1. /\ Conclude(w, "revise") /\ kept # {} /\ \A e \in Errand : phaseOf[e] \notin phases \ kept
        /\ phases' = kept /\ goal' = [goal EXCEPT !.version = n]
        /\ UNCHANGED <<examRow, phaseOf, topics, needs>>
    BY <1>7 DEF RevisePhases, n
  <2>2. /\ planner[w].what = "revise" /\ planner'[w].what = "none"
        /\ \A v \in Planner \ {w} : planner'[v] = planner[v]
    BY <2>1, ConcludeMoves
  <2>3. goal' \in [status : {"none", "draft", "active", "gone"}, version : Nat] /\ goal'.status = goal.status
    BY <1>1, <1>2, <2>1
  <2>4. planner[w].what \in PlanKinds /\ GoalIsHeld'
    <3>1. planner[w].what \in PlanKinds
      BY <2>2 DEF PlanKinds
    <3> QED
      BY <2>2, <3>1, GoalIsLeft
  <2>5. goal.status \in {"draft", "active"}
    BY <2>4, GoalIsOne
  <2>6. TasksHavePhases'
    BY <1>1, <2>1, <2>3, <2>5 DEF TasksHavePhases, PlanIsWhole
  <2> QED
    BY <1>1, <2>1, <2>3, <2>4, <2>6, RowsStay
<1>8. ASSUME NEW e \in Errand, NEW p \in Phase, AddTask(w, e, p) PROVE OutlineInv'
  <2>1. /\ Conclude(w, "task") /\ p \in phases /\ phaseOf' = [phaseOf EXCEPT ![e] = p]
        /\ UNCHANGED <<examRow, goal, phases, topics, needs>>
    BY <1>8 DEF AddTask
  <2>2. Calm /\ planner[w].what \in PlanKinds
    BY <2>1, ConcludeMoves DEF PlanKinds
  <2>3. GoalIsHeld' /\ goal.status \in {"draft", "active"}
    BY <2>1, <2>2, CalmKeepsGoal, GoalIsOne
  <2>4. /\ phaseOf' \in [Errand -> Phase \cup {"absent", "gone"}] /\ phaseOf'[e] = p
        /\ \A f \in Errand \ {e} : phaseOf'[f] = phaseOf[f]
    BY <1>1, <2>1
  <2>5. TasksHavePhases'
    BY <1>1, <2>1, <2>3, <2>4 DEF TasksHavePhases, PlanIsWhole
  <2> QED
    BY <1>1, <2>1, <2>3, <2>4, <2>5, RowsStay
<1> QED
  BY <1>4, <1>5, <1>6, <1>7, <1>8

\* A goal is created with its plan, before there is a task.
LEMMA CreateGoalKeeps ==
  ASSUME OutlineInv, NEW w \in Planner, NEW wanted \in SUBSET Phase, CreateGoal(w, wanted)
  PROVE  OutlineInv'
<1>1. /\ goal.status = "none" /\ wanted # {} /\ goal' = [status |-> "draft", version |-> 1]
      /\ phases' = wanted /\ UNCHANGED <<examRow, phaseOf, topics, needs, planner>>
  BY DEF CreateGoal
<1>2. \A e \in Errand : phaseOf[e] = "absent"
  BY <1>1 DEF OutlineInv, TasksHavePhases
<1>3. \A v \in Planner : planner[v].what \notin PlanKinds
  BY <1>1 DEF OutlineInv, GoalIsHeld
<1>4. goal'.status = "draft" /\ goal' \in [status : {"none", "draft", "active", "gone"}, version : Nat]
  BY <1>1
<1>5. OutlineTypes'
  BY <1>1, <1>4 DEF OutlineInv, OutlineTypes
<1>6. /\ LocksExclude' /\ ParentIsHeld' /\ ExamIsHeld' /\ GoalIsHeld' /\ TreeIsWhole' /\ WeightsFit'
  BY <1>1, <1>3 DEF OutlineInv, LocksExclude, ParentIsHeld, ExamIsHeld, GoalIsHeld, TreeIsWhole,
    WeightsFit, LiveRows
<1>7. RowsAreCounted'
  BY <1>1, CountsShrink DEF OutlineInv, LiveRows, Counted
<1>8. TasksHavePhases'
  BY <1>1, <1>2, <1>4 DEF TasksHavePhases, PlanIsWhole
<1> QED
  BY <1>1, <1>5, <1>6, <1>7, <1>8, GraphStays DEF OutlineInv

\* Prerequisites: a set that holds the end of an edge, not its start, and
\* follows every edge, shows that the edge is on no cycle.
Shows(e, S) == S \subseteq Subject /\ e[2] \in S /\ e[1] \notin S /\ FollowsEdges(S)

LEMMA EdgesAreShown ==
  ASSUME OutlineTypes, NEW e \in needs
  PROVE  e[1] \notin LeadsTo(e[2]) <=> \E S \in SUBSET Subject : Shows(e, S)
<1>1. e[1] \in Subject /\ e[2] \in Subject
  BY DEF OutlineTypes
<1> QED
  BY <1>1 DEF LeadsTo, Shows

\* What a topic leads to follows every edge.
LEMMA LeadsToFollows ==
  ASSUME OutlineTypes, NEW t \in Subject
  PROVE  t \in LeadsTo(t) /\ LeadsTo(t) \subseteq Subject /\ FollowsEdges(LeadsTo(t))
<1>1. \A e \in needs : e[1] \in Subject /\ e[2] \in Subject
  BY DEF OutlineTypes
<1>2. t \in LeadsTo(t) /\ LeadsTo(t) \subseteq Subject
  BY DEF LeadsTo
<1>3. ASSUME NEW e \in needs, e[1] \in LeadsTo(t) PROVE e[2] \in LeadsTo(t)
  <2>1. ASSUME NEW S \in SUBSET Subject, t \in S, FollowsEdges(S) PROVE e[2] \in S
    <3>1. e[1] \in S
      BY <1>3, <2>1 DEF LeadsTo
    <3> QED
      BY <2>1, <3>1 DEF FollowsEdges
  <2> QED
    BY <1>1, <2>1 DEF LeadsTo
<1> QED
  BY <1>2, <1>3 DEF FollowsEdges

\* A new edge whose end does not lead to its start closes no cycle.
LEMMA NewEdgeIsShown ==
  ASSUME OutlineInv, OutlineTypes', NEW from \in Subject, NEW to \in Subject, from \notin LeadsTo(to),
         needs' = needs \cup {<<from, to>>}
  PROVE  \A e \in needs' : e[1] \notin LeadsTo(e[2])'
<1> DEFINE L == LeadsTo(to)
<1>1. to \in L /\ from \notin L /\ L \subseteq Subject /\ FollowsEdges(L)
  BY LeadsToFollows DEF OutlineInv
<1> HIDE DEF L
<1>2. ASSUME NEW S \in SUBSET Subject, FollowsEdges(S), from \in S => to \in S
      PROVE  \A e \in needs' : e[1] \in S => e[2] \in S
  BY <1>2 DEF FollowsEdges
<1>3. ASSUME NEW e \in needs'
      PROVE  \E S \in SUBSET Subject :
               /\ e[2] \in S /\ e[1] \notin S /\ \A d \in needs' : d[1] \in S => d[2] \in S
  <2>1. CASE e = <<from, to>>
    <3>1. e[2] \in L /\ e[1] \notin L
      BY <1>1, <2>1
    <3>2. \A d \in needs' : d[1] \in L => d[2] \in L
      BY <1>1, <1>2
    <3> QED
      BY <1>1, <3>1, <3>2
  <2>2. CASE e \in needs
    <3>1. PICK S \in SUBSET Subject : Shows(e, S)
      BY <2>2, EdgesAreShown DEF OutlineInv, PrerequisitesAreSound
    <3>2. e[2] \in S /\ e[1] \notin S /\ FollowsEdges(S)
      BY <3>1 DEF Shows
    <3>3. CASE from \notin S
      BY <1>2, <3>2, <3>3
    <3>4. CASE from \in S /\ e[1] \notin L
      <4>1. FollowsEdges(S \cup L) /\ to \in S \cup L
        BY <1>1, <3>2 DEF FollowsEdges
      <4>2. S \cup L \in SUBSET Subject /\ e[2] \in S \cup L /\ e[1] \notin S \cup L
        BY <1>1, <3>2, <3>4
      <4> QED
        BY <1>2, <4>1, <4>2
    <3>5. CASE e[1] \in L
      <4>1. FollowsEdges(S \cap L) /\ from \notin S \cap L
        BY <1>1, <3>2 DEF FollowsEdges
      <4>2. S \cap L \in SUBSET Subject /\ e[2] \in S \cap L /\ e[1] \notin S \cap L
        BY <1>1, <2>2, <3>2, <3>5 DEF FollowsEdges
      <4> QED
        BY <1>2, <4>1, <4>2
    <3> QED
      BY <3>3, <3>4, <3>5
  <2> QED
    BY <2>1, <2>2
<1>4. \A e \in needs' : e[1] \in Subject
  BY DEF OutlineTypes
<1> QED
  BY <1>3, <1>4 DEF LeadsTo, FollowsEdges

LEMMA GraphMoves ==
  ASSUME OutlineInv, NEW w \in Planner,
         \/ \E from, to \in Subject : AddDependency(w, from, to) \/ DeleteDependency(w, <<from, to>>)
         \/ \E t \in Subject : DeleteTopic(w, t)
  PROVE  OutlineInv'
<1>1. /\ needs \subseteq Subject \X Subject /\ topics \subseteq Subject
      /\ \A e \in needs : {e[1], e[2]} \subseteq topics /\ e[1] \notin LeadsTo(e[2])
  BY DEF OutlineInv, OutlineTypes, PrerequisitesAreSound
<1>2. ASSUME NEW what, Conclude(w, what), UNCHANGED <<examRow, goal, phases, phaseOf>>,
             needs' \subseteq Subject \X Subject, topics' \subseteq Subject
      PROVE  /\ OutlineTypes'
             /\ PrerequisitesAreSound' => OutlineInv'
  <2>1. planner' \in [Planner -> PlannerT] /\ Calm /\ LocksExclude'
    BY <1>2, ConcludeMoves
  <2>2. ParentIsHeld' /\ ExamIsHeld' /\ TreeIsWhole' /\ WeightsFit' /\ RowsAreCounted' /\ GoalIsHeld'
    BY <1>2, <2>1, CalmKeepsRows, CalmKeepsGoal
  <2>3. TasksHavePhases'
    BY <1>2, PlanStays
  <2>4. OutlineTypes'
    BY <1>2, <2>1 DEF OutlineInv, OutlineTypes
  <2> QED
    BY <2>1, <2>2, <2>3, <2>4 DEF OutlineInv
<1>3. ASSUME NEW from \in Subject, NEW to \in Subject, AddDependency(w, from, to) PROVE OutlineInv'
  <2>1. /\ Conclude(w, "need") /\ {from, to} \subseteq topics /\ from \notin LeadsTo(to)
        /\ needs' = needs \cup {<<from, to>>} /\ UNCHANGED <<examRow, goal, phases, phaseOf, topics>>
    BY <1>3 DEF AddDependency
  <2>2. needs' \subseteq Subject \X Subject /\ topics' \subseteq Subject
    BY <1>1, <2>1
  <2>3. OutlineTypes' /\ (PrerequisitesAreSound' => OutlineInv')
    BY <1>2, <2>1, <2>2
  <2>4. \A e \in needs' : e[1] \notin LeadsTo(e[2])'
    BY <2>1, <2>3, NewEdgeIsShown
  <2>5. \A e \in needs' : {e[1], e[2]} \subseteq topics'
    BY <1>1, <2>1
  <2> QED
    BY <2>3, <2>4, <2>5 DEF PrerequisitesAreSound
<1>4. ASSUME NEW e \in Subject \X Subject, DeleteDependency(w, e) PROVE OutlineInv'
  <2>1. /\ Conclude(w, "delete_topic") /\ needs' = needs \ {e}
        /\ UNCHANGED <<examRow, goal, phases, phaseOf, topics>>
    BY <1>4 DEF DeleteDependency
  <2>2. needs' \subseteq Subject \X Subject /\ topics' \subseteq Subject
    BY <1>1, <2>1
  <2>3. OutlineTypes' /\ (PrerequisitesAreSound' => OutlineInv')
    BY <1>2, <2>1, <2>2
  <2>4. ASSUME NEW d \in needs' PROVE d[1] \notin LeadsTo(d[2])'
    <3>1. PICK S \in SUBSET Subject : Shows(d, S)
      BY <1>1, <2>1, EdgesAreShown DEF OutlineInv
    <3>2. \A c \in needs' : c[1] \in S => c[2] \in S
      BY <2>1, <3>1 DEF Shows, FollowsEdges
    <3> QED
      BY <3>1, <3>2 DEF Shows, LeadsTo, FollowsEdges
  <2>5. \A d \in needs' : {d[1], d[2]} \subseteq topics'
    BY <1>1, <2>1
  <2> QED
    BY <2>3, <2>4, <2>5 DEF PrerequisitesAreSound
<1>5. ASSUME NEW t \in Subject, DeleteTopic(w, t) PROVE OutlineInv'
  <2>1. /\ Conclude(w, "delete_topic") /\ topics' = topics \ {t} /\ \A e \in needs : t \notin {e[1], e[2]}
        /\ UNCHANGED <<examRow, goal, phases, phaseOf, needs>>
    BY <1>5 DEF DeleteTopic
  <2>2. needs' \subseteq Subject \X Subject /\ topics' \subseteq Subject
    BY <1>1, <2>1
  <2>3. OutlineTypes' /\ (PrerequisitesAreSound' => OutlineInv')
    BY <1>2, <2>1, <2>2
  <2>4. \A e \in needs' : e[1] \notin LeadsTo(e[2])'
    BY <1>1, <2>1 DEF LeadsTo, FollowsEdges
  <2>5. \A e \in needs' : {e[1], e[2]} \subseteq topics'
    BY <1>1, <2>1
  <2> QED
    BY <2>3, <2>4, <2>5 DEF PrerequisitesAreSound
<1> QED
  BY <1>3, <1>4, <1>5

LEMMA OutlineInvInit == ASSUME OutlineInit PROVE OutlineInv
<1>1. /\ examRow = [r \in ExamRows |-> "none"] /\ goal = [status |-> "none", version |-> 0] /\ phases = {}
      /\ phaseOf = [e \in Errand |-> "absent"] /\ topics = Subject /\ needs = {}
      /\ planner = [w \in Planner |-> AtDesk(NoPlan)]
  BY DEF OutlineInit, ExamRows
<1>2. /\ AtDesk(NoPlan) \in PlannerT /\ AtDesk(NoPlan).what = "none" /\ AtDesk(NoPlan).holds = {}
  BY OutlineDomains DEF AtDesk, NoPlan, PlannerT
<1>3. /\ planner \in [Planner -> PlannerT]
      /\ \A w \in Planner : planner[w].what = "none" /\ planner[w].holds = {}
  BY <1>1, <1>2
<1>4. OutlineTypes
  BY <1>1, <1>3 DEF OutlineTypes
<1>5. LocksExclude /\ ParentIsHeld /\ ExamIsHeld /\ GoalIsHeld /\ TreeIsWhole
  BY <1>1, <1>3, OutlineConstants
  DEF LocksExclude, ParentIsHeld, ExamIsHeld, GoalIsHeld, TreeIsWhole, ExamRows, PlanKinds
<1>6. \A kind : LiveRows(kind) = {} /\ Counted(kind) = {}
  BY <1>1, <1>3 DEF LiveRows, Counted, ExamRows
<1>7. WeightsFit
  BY <1>6, NoWeights DEF WeightsFit
<1>8. RowsAreCounted
  <2>1. \A kind : RowCount(kind) = 0
    BY <1>6, FS_EmptySet DEF RowCount
  <2>2. RowQuota \in Nat \ {0} /\ Cardinality(Planner) \in Nat
    BY OutlineDomains
  <2> QED
    BY <2>1, <2>2 DEF RowsAreCounted
<1>9. TasksHavePhases /\ PrerequisitesAreSound
  BY <1>1, OutlineConstants DEF TasksHavePhases, PlanIsWhole, PrerequisitesAreSound
<1> QED
  BY <1>4, <1>5, <1>7, <1>8, <1>9 DEF OutlineInv

LEMMA OutlineInvStep == ASSUME OutlineInv, [OutlineNext]_outlineVars PROVE OutlineInv'
<1>1. ASSUME NEW w \in Planner, Withdraw(w) PROVE OutlineInv'
  <2>1. Conclude(w, planner[w].what) /\ UNCHANGED <<examRow, goal, phases, phaseOf, topics, needs>>
    BY <1>1 DEF Withdraw
  <2>2. Calm
    BY <2>1, ConcludeMoves
  <2>3. GoalIsHeld' /\ TasksHavePhases'
    BY <2>1, <2>2, CalmKeepsGoal, PlanStays
  <2> QED
    BY <2>1, <2>3, RowsStay DEF OutlineInv, OutlineTypes
<1>2. ASSUME UNCHANGED outlineVars PROVE OutlineInv'
  <2>1. UNCHANGED <<examRow, goal, phases, phaseOf, topics, needs, planner>>
    BY <1>2 DEF outlineVars
  <2>2. OutlineTypes' /\ LocksExclude' /\ Calm
    BY <2>1 DEF OutlineInv, OutlineTypes, LocksExclude, Calm, GoesOn
  <2>3. ParentIsHeld' /\ ExamIsHeld' /\ TreeIsWhole' /\ WeightsFit' /\ RowsAreCounted' /\ GoalIsHeld'
    BY <2>1, <2>2, CalmKeepsRows, CalmKeepsGoal DEF OutlineTypes
  <2> QED
    BY <2>1, <2>2, <2>3, PlanStays, GraphStays DEF OutlineInv
<1>3. ASSUME NEW w \in Planner,
             \/ Withdraw(w) \/ CreateExam(w) \/ (\E r \in DOMAIN ParentOf : AskUnder(w, r)) \/ CreateUnder(w)
             \/ AskNoExam(w) \/ LockChildren(w) \/ DeleteExam(w)
             \/ ReadGoals(w) \/ (\E wanted \in SUBSET Phase : CreateGoal(w, wanted) \/ RevisePhases(w, wanted))
             \/ \E what \in {"publish", "edit", "revise", "task", "delete_goal"} : AskOfGoal(w, what)
             \/ Publish(w) \/ UpdateGoal(w) \/ DeleteGoal(w)
             \/ \E e \in Errand, p \in Phase : AddTask(w, e, p)
             \/ \E what \in {"need", "delete_topic"} : AskOfTopics(w, what)
             \/ \E from, to \in Subject : AddDependency(w, from, to) \/ DeleteDependency(w, <<from, to>>)
             \/ \E t \in Subject : DeleteTopic(w, t)
      PROVE  OutlineInv'
  BY <1>1, <1>3, CreateExamKeeps, OutlineAskKeeps, CreateUnderKeeps, LockChildrenKeeps, DeleteExamKeeps,
     ReadGoalsKeeps, CreateGoalKeeps, PlanMoves, GraphMoves
<1> QED
  BY <1>2, <1>3 DEF OutlineNext

\* However requests of several users overlap, an exam is deleted with all of
\* its rows, its subjects weigh at most 100 percent and a quota is passed by no
\* more rows than others counted at the same time (exam/service.py,
\* sync/deletion.py); no task names a phase that is gone (planning/service.py);
\* and prerequisites have no cycle (memory/service.py).
THEOREM OutlineIsWhole == OutlineSpec => []OutlineIsSound
<1>1. OutlineInit => OutlineInv
  BY OutlineInvInit
<1>2. OutlineInv /\ [OutlineNext]_outlineVars => OutlineInv'
  BY OutlineInvStep
<1>3. OutlineInv => OutlineIsSound
  <2> SUFFICES ASSUME OutlineInv PROVE ExamIsWhole
    BY DEF OutlineInv, OutlineIsSound, TasksHavePhases
  <2>1. ASSUME NEW kind \in {"node", "mock", "score"}
        PROVE  Cardinality(LiveRows(kind)) <= RowQuota + Cardinality(Planner) - 1
    <3> DEFINE a == Cardinality(LiveRows(kind))
               b == Cardinality(Counted(kind))
    <3>1. a \in Nat /\ b \in Nat
      BY CountsAreNumbers
    <3>2. a + b <= RowQuota + Cardinality(Planner) - 1
      BY DEF OutlineInv, RowsAreCounted, RowCount, ChildKinds
    <3>3. RowQuota \in Nat /\ Cardinality(Planner) \in Nat
      BY OutlineDomains
    <3> HIDE DEF a, b
    <3>4. a <= RowQuota + Cardinality(Planner) - 1
      BY <3>1, <3>2, <3>3
    <3> QED
      BY <3>4 DEF a
  <2> QED
    BY <2>1 DEF OutlineInv, ExamIsWhole, TreeIsWhole, WeightsFit, ExamRows
<1> QED
  BY <1>1, <1>2, <1>3, PTL DEF OutlineSpec

\* A phase that is lost was seen by the user who removed it: whatever others
\* added since then makes the revision fail (planning/service.py).
THEOREM PhasesLostWereSeen == OutlineSpec => [][NoUnseenPhaseIsLost]_outlineVars
<1>1. OutlineInit => OutlineInv
  BY OutlineInvInit
<1>2. OutlineInv /\ [OutlineNext]_outlineVars => OutlineInv'
  BY OutlineInvStep
<1>3. OutlineInv /\ [OutlineNext]_outlineVars => [NoUnseenPhaseIsLost]_outlineVars
  <2> SUFFICES ASSUME OutlineInv, OutlineNext, NEW w \in Planner,
                      planner[w].what = "revise", planner'[w].what = "none"
               PROVE  phases \ phases' \subseteq planner[w].seen.phases
    BY DEF NoUnseenPhaseIsLost
  <2>1. CASE phases' = phases
    BY <2>1
  <2>2. ASSUME NEW v \in Planner, NEW wanted \in SUBSET Phase, CreateGoal(v, wanted) PROVE FALSE
    <3>1. planner' = planner
      BY <2>2 DEF CreateGoal
    <3> QED
      BY <3>1
  <2>3. ASSUME NEW v \in Planner, NEW kept \in SUBSET Phase, RevisePhases(v, kept)
        PROVE  phases \ phases' \subseteq planner[w].seen.phases
    <3>1. /\ Conclude(v, "revise") /\ phases' = kept /\ phases \ kept \subseteq planner[v].seen.phases
      BY <2>3 DEF RevisePhases
    <3>2. \A u \in Planner \ {v} : planner'[u] = planner[u]
      BY <3>1, ConcludeMoves
    <3>3. v = w
      BY <3>2
    <3> QED
      BY <3>1, <3>3
  <2>4. \A v \in Planner : Withdraw(v) \/ CreateExam(v) \/ CreateUnder(v) => phases' = phases
    BY DEF Withdraw, CreateExam, CreateUnder
  <2>5. \A v \in Planner : LockChildren(v) \/ DeleteExam(v) \/ ReadGoals(v) => phases' = phases
    BY DEF LockChildren, DeleteExam, ReadGoals
  <2>6. \A v \in Planner : Publish(v) \/ UpdateGoal(v) \/ DeleteGoal(v) => phases' = phases
    BY DEF Publish, UpdateGoal, DeleteGoal
  <2>7. \A v \in Planner : \A e \in Errand, p \in Phase : AddTask(v, e, p) => phases' = phases
    BY DEF AddTask
  <2>8. \A v \in Planner : \A from, to \in Subject :
          AddDependency(v, from, to) \/ DeleteDependency(v, <<from, to>>) => phases' = phases
    BY DEF AddDependency, DeleteDependency
  <2>9. \A v \in Planner : \A t \in Subject : DeleteTopic(v, t) => phases' = phases
    BY DEF DeleteTopic
  <2>10. \A v \in Planner : \A what, arg, rows : Hold(v, what, arg, rows) => phases' = phases
    BY DEF Hold
  <2>11. \A v \in Planner : \A r : AskUnder(v, r) => phases' = phases
    BY <2>10 DEF AskUnder
  <2>12. \A v \in Planner : AskNoExam(v) => phases' = phases
    BY <2>10 DEF AskNoExam
  <2>13. \A v \in Planner : \A what : AskOfGoal(v, what) => phases' = phases
    BY <2>10 DEF AskOfGoal
  <2>14. \A v \in Planner : \A what : AskOfTopics(v, what) => phases' = phases
    BY <2>10 DEF AskOfTopics
  <2>15. \/ phases' = phases
         \/ \E v \in Planner, wanted \in SUBSET Phase : CreateGoal(v, wanted) \/ RevisePhases(v, wanted)
    BY <2>4, <2>5, <2>6, <2>7, <2>8, <2>9, <2>11, <2>12, <2>13, <2>14 DEF OutlineNext
  <2> QED
    BY <2>1, <2>2, <2>3, <2>15
<1> QED
  BY <1>1, <1>2, <1>3, PTL DEF OutlineSpec
=============================================================================
