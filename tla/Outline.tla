------------------------------ MODULE Outline ------------------------------
(***************************************************************************)
(* What a space is built of: an exam with its subjects, syllabus nodes,    *)
(* mock exams and scores; a goal with the phases and tasks of its plan;    *)
(* topics and their prerequisites (exam/service.py, planning/service.py,   *)
(* memory/service.py, sync/deletion.py).                                   *)
(*                                                                         *)
(* The older routes take no lock of the workspace: requests overlap from   *)
(* their first row lock to their commit, and only deletions, which come by *)
(* push or online_routes, exclude each other.                              *)
(***************************************************************************)
EXTENDS Naturals, FiniteSets, FiniteSetsExt

CONSTANTS
  Planner,     \* requests at work
  Exam,        \* the row of the exam
  ParentOf,    \* the parent of every row below it
  KindOf,      \* its kind: subject, node, mock or score
  WeightOf,    \* weights of the subjects, of 100 percent
  RowQuota,    \* nodes, mock exams or scores of a user
  Phase,       \* phases a plan may get
  Errand,      \* tasks a goal may get
  ErrandQuota, \* task_per_goal_quota
  Subject,     \* topics
  MaxEdits     \* bound: versions of the goal

VARIABLES
  examRow,     \* per row of the exam: none, live or gone
  goal,        \* the goal: status and version
  phases,      \* the phases of its plan
  phaseOf,     \* per task: absent, gone, or its phase
  topics,      \* live topics
  needs,       \* pairs of a prerequisite and the topic that depends on it
  planner      \* per request: what it does, to which row, the row locks it holds,
               \* and the goal as its user has seen it
outlineVars == <<examRow, goal, phases, phaseOf, topics, needs, planner>>

\* Rows of an exam are a tree of three levels; subjects and mock exams are the
\* second.  "space" and "goal" name locks, "absent" and "gone" states of a task.
ChildKinds == {"subject", "node", "mock", "score"}
ASSUME OutlineConstants ==
  /\ IsFiniteSet(Planner) /\ IsFiniteSet(DOMAIN ParentOf) /\ RowQuota \in Nat \ {0} /\ MaxEdits \in Nat
  /\ Exam \in DOMAIN ParentOf /\ {"space", "goal"} \cap DOMAIN ParentOf = {}
  /\ \A r \in DOMAIN ParentOf \ {Exam} :
       /\ ParentOf[r] \in DOMAIN ParentOf /\ KindOf[r] \in ChildKinds
       /\ IF KindOf[r] \in {"subject", "mock"} THEN ParentOf[r] = Exam
          ELSE ParentOf[r] # Exam /\ ParentOf[ParentOf[r]] = Exam
  /\ ParentOf[Exam] = Exam /\ KindOf[Exam] \notin ChildKinds
  /\ {"absent", "gone"} \cap Phase = {}

NoPlan == [version |-> 0, phases |-> {}]
AtDesk(seen) == [what |-> "none", arg |-> Exam, holds |-> {}, seen |-> seen]
OutlineInit ==
  /\ examRow = [r \in DOMAIN ParentOf |-> "none"]
  /\ goal = [status |-> "none", version |-> 0] /\ phases = {}
  /\ phaseOf = [e \in Errand |-> "absent"]
  /\ topics = Subject /\ needs = {}
  /\ planner = [w \in Planner |-> AtDesk(NoPlan)]

Unlocked(w, r) == \A v \in Planner \ {w} : r \notin planner[v].holds
LiveRows(kind) == {r \in DOMAIN ParentOf : KindOf[r] = kind /\ examRow[r] = "live"}
Removals == {"delete_exam", "delete_goal", "delete_topic"}

\* The first half of a request: it locks a row, as FOR UPDATE, and holds it.
Hold(w, what, arg, rows) ==
  /\ planner[w].what = "none" /\ \A r \in rows : Unlocked(w, r)
  /\ what \in Removals => \A v \in Planner : planner[v].what \notin Removals
  /\ planner' = [planner EXCEPT ![w] = [@ EXCEPT !.what = what, !.arg = arg, !.holds = rows]]
  /\ UNCHANGED <<examRow, goal, phases, phaseOf, topics, needs>>
\* The second half ends with the commit, or undone and with an error.
Conclude(w, what) ==
  /\ planner[w].what = what
  /\ planner' = [planner EXCEPT ![w] = AtDesk(planner[w].seen)]
Withdraw(w) ==
  /\ planner[w].what # "none" /\ Conclude(w, planner[w].what)
  /\ UNCHANGED <<examRow, goal, phases, phaseOf, topics, needs>>

-----------------------------------------------------------------------------
\* create_exam locks the membership of the user, which stands for itself.
CreateExam(w) ==
  /\ examRow[Exam] = "none" /\ planner[w].what = "none"
  /\ examRow' = [examRow EXCEPT ![Exam] = "live"]
  /\ UNCHANGED <<goal, phases, phaseOf, topics, needs, planner>>

\* Weights of an exam may not exceed 100 percent.  The rows of a kind are those
\* of the user: a parent's lock keeps others from counting below that parent only.
WeightSum(R) == MapThenSumSet(LAMBDA r : WeightOf[r], R)
SubjectFits(r) == KindOf[r] = "subject" => WeightSum(LiveRows("subject") \cup {r}) <= 100
RowFits(r) == KindOf[r] \in ChildKinds \ {"subject"} => Cardinality(LiveRows(KindOf[r])) < RowQuota

\* Mutant: the parent is looked up without a lock.
AskUnderUnlocked(w, r) ==
  /\ r # Exam /\ examRow[r] = "none" /\ examRow[ParentOf[r]] = "live" /\ RowFits(r)
  /\ Hold(w, "under", r, {})
\* A subject or mock exam holds its exam, a syllabus node its subject, a score
\* its mock exam; then the rows are counted, and the row is inserted.
AskUnder(w, r) ==
  /\ r # Exam /\ examRow[r] = "none" /\ examRow[ParentOf[r]] = "live" /\ RowFits(r)
  /\ Hold(w, "under", r, {ParentOf[r]})
CreateUnder(w) ==
  LET r == planner[w].arg IN
  /\ Conclude(w, "under") /\ examRow[r] = "none" /\ SubjectFits(r)
  /\ examRow' = [examRow EXCEPT ![r] = "live"]
  /\ UNCHANGED <<goal, phases, phaseOf, topics, needs>>

\* A deletion locks the exam, then its children, then theirs, each query
\* seeing what was committed before it.
Below(rows) == {r \in DOMAIN ParentOf \ {Exam} : examRow[r] = "live" /\ ParentOf[r] \in rows}
AskNoExam(w) == examRow[Exam] = "live" /\ Hold(w, "delete_exam", Exam, {Exam, "space"})
LockChildren(w) ==
  /\ planner[w].what = "delete_exam" /\ ~Below({Exam}) \subseteq planner[w].holds
  /\ \A r \in Below({Exam}) : Unlocked(w, r)
  /\ planner' = [planner EXCEPT ![w].holds = @ \cup Below({Exam})]
  /\ UNCHANGED <<examRow, goal, phases, phaseOf, topics, needs>>
DeleteExam(w) ==
  LET scope == planner[w].holds \cup Below(planner[w].holds) IN
  /\ Below({Exam}) \subseteq planner[w].holds /\ Conclude(w, "delete_exam")
  /\ examRow' = [r \in DOMAIN ParentOf |-> IF r \in scope THEN "gone" ELSE examRow[r]]
  /\ UNCHANGED <<goal, phases, phaseOf, topics, needs>>

-----------------------------------------------------------------------------
\* Goals are read between requests; create holds the space.
ReadGoals(w) ==
  /\ planner[w].what = "none" /\ planner[w].seen # [version |-> goal.version, phases |-> phases]
  /\ planner' = [planner EXCEPT ![w].seen = [version |-> goal.version, phases |-> phases]]
  /\ UNCHANGED <<examRow, goal, phases, phaseOf, topics, needs>>
CreateGoal(w, wanted) ==
  /\ goal.status = "none" /\ planner[w].what = "none" /\ Unlocked(w, "space") /\ wanted # {}
  /\ goal' = [status |-> "draft", version |-> 1] /\ phases' = wanted
  /\ UNCHANGED <<examRow, phaseOf, topics, needs, planner>>

AskOfGoal(w, what) ==
  /\ goal.status \in {"draft", "active"}
  /\ Hold(w, what, Exam, IF what = "delete_goal" THEN {"goal", "space"} ELSE {"goal"})
AsSeen(w) == goal.version = planner[w].seen.version /\ goal.version < MaxEdits

Publish(w) ==
  /\ Conclude(w, "publish") /\ AsSeen(w) /\ goal.status = "draft" /\ phases # {}
  /\ goal' = [status |-> "active", version |-> goal.version + 1]
  /\ UNCHANGED <<examRow, phases, phaseOf, topics, needs>>

\* Its texts are replaced by PATCH.
UpdateGoal(w) ==
  /\ Conclude(w, "edit") /\ AsSeen(w)
  /\ goal' = [goal EXCEPT !.version = @ + 1]
  /\ UNCHANGED <<examRow, phases, phaseOf, topics, needs>>

\* revise_phases: every phase there is must be named, kept or removed; one that
\* a task names cannot be removed.
RevisePhases(w, kept) ==
  /\ Conclude(w, "revise") /\ AsSeen(w) /\ kept # {}
  /\ phases \ kept \subseteq planner[w].seen.phases
  /\ \A e \in Errand : phaseOf[e] \notin phases \ kept
  /\ phases' = kept /\ goal' = [goal EXCEPT !.version = @ + 1]
  /\ UNCHANGED <<examRow, phaseOf, topics, needs>>

AddTask(w, e, p) ==
  /\ Conclude(w, "task") /\ phaseOf[e] = "absent" /\ p \in phases
  /\ Cardinality({f \in Errand : phaseOf[f] \in phases}) < ErrandQuota
  /\ phaseOf' = [phaseOf EXCEPT ![e] = p]
  /\ UNCHANGED <<examRow, goal, phases, topics, needs>>

\* The tasks of a goal go with it.
DeleteGoal(w) ==
  /\ Conclude(w, "delete_goal")
  /\ goal' = [status |-> "gone", version |-> goal.version + 1]
  /\ phaseOf' = [e \in Errand |-> IF phaseOf[e] = "absent" THEN "absent" ELSE "gone"]
  /\ UNCHANGED <<examRow, phases, topics, needs>>

-----------------------------------------------------------------------------
\* Everything that a topic depends on, or leads to, is read under the lock of
\* the space.
AskOfTopics(w, what) == Hold(w, what, Exam, {"space"})
FollowsEdges(S) == \A e \in needs : e[1] \in S => e[2] \in S
LeadsTo(t) == {s \in Subject : \A S \in SUBSET Subject : t \in S /\ FollowsEdges(S) => s \in S}
AddDependency(w, from, to) ==
  /\ Conclude(w, "need") /\ {from, to} \subseteq topics /\ from # to
  /\ <<from, to>> \notin needs /\ from \notin LeadsTo(to)
  /\ needs' = needs \cup {<<from, to>>}
  /\ UNCHANGED <<examRow, goal, phases, phaseOf, topics>>
DeleteDependency(w, edge) ==
  /\ Conclude(w, "delete_topic") /\ edge \in needs
  /\ needs' = needs \ {edge}
  /\ UNCHANGED <<examRow, goal, phases, phaseOf, topics>>
DeleteTopic(w, t) ==
  /\ Conclude(w, "delete_topic") /\ t \in topics /\ \A e \in needs : t \notin {e[1], e[2]}
  /\ topics' = topics \ {t}
  /\ UNCHANGED <<examRow, goal, phases, phaseOf, needs>>

OutlineNext ==
  \E w \in Planner :
    \/ Withdraw(w) \/ CreateExam(w) \/ (\E r \in DOMAIN ParentOf : AskUnder(w, r)) \/ CreateUnder(w)
    \/ AskNoExam(w) \/ LockChildren(w) \/ DeleteExam(w)
    \/ ReadGoals(w) \/ (\E wanted \in SUBSET Phase : CreateGoal(w, wanted) \/ RevisePhases(w, wanted))
    \/ \E what \in {"publish", "edit", "revise", "task", "delete_goal"} : AskOfGoal(w, what)
    \/ Publish(w) \/ UpdateGoal(w) \/ DeleteGoal(w)
    \/ \E e \in Errand, p \in Phase : AddTask(w, e, p)
    \/ \E what \in {"need", "delete_topic"} : AskOfTopics(w, what)
    \/ \E from, to \in Subject : AddDependency(w, from, to) \/ DeleteDependency(w, <<from, to>>)
    \/ \E t \in Subject : DeleteTopic(w, t)

OutlineSpec == OutlineInit /\ [][OutlineNext]_outlineVars

-----------------------------------------------------------------------------
OutlineTypeOK ==
  /\ \A r \in DOMAIN ParentOf : examRow[r] \in {"none", "live", "gone"}
  /\ goal.version \in 0..MaxEdits + 1 /\ phases \subseteq Phase
  /\ topics \subseteq Subject /\ needs \subseteq Subject \X Subject

\* Nothing is live below something deleted, weights add up to at most 100, and
\* a quota is exceeded by no more rows than requests that counted together.
ExamIsWhole ==
  /\ \A r \in DOMAIN ParentOf : examRow[r] = "live" => examRow[ParentOf[r]] = "live"
  /\ WeightSum(LiveRows("subject")) <= 100
  /\ \A kind \in {"node", "mock", "score"} : Cardinality(LiveRows(kind)) <= RowQuota + Cardinality(Planner) - 1
\* A goal has a phase, every task has one of the phases, and none outlives it.
PlanIsWhole ==
  /\ goal.status \in {"draft", "active"} => phases # {}
  /\ \A e \in Errand : phaseOf[e] \in phases \cup {"absent", "gone"}
  /\ goal.status = "gone" => \A e \in Errand : phaseOf[e] \notin phases
\* Prerequisites are live topics, and none leads back to itself.
PrerequisitesAreSound ==
  /\ \A e \in needs : {e[1], e[2]} \subseteq topics
  /\ \A e \in needs : e[1] \notin LeadsTo(e[2])

\* What requests that overlap leave of the outline of a space.
OutlineIsSound == ExamIsWhole /\ PlanIsWhole /\ PrerequisitesAreSound

\* A plan loses only phases that the user who removed them had seen.
NoUnseenPhaseIsLost ==
  \A w \in Planner : planner[w].what = "revise" /\ planner'[w].what = "none" =>
    phases \ phases' \subseteq planner[w].seen.phases
=============================================================================
