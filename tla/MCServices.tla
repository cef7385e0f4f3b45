----------------------------- MODULE MCServices -----------------------------
(***************************************************************************)
(* The components beside the ledger share no rows with each other, so one  *)
(* instance holds them all and focus says which of them moves, and with    *)
(* what bounds: the states of the components add up.  A component that is  *)
(* not in focus rests in its initial state.                                *)
(***************************************************************************)
EXTENDS AccountMail, WorkerLoop, Sessions, AgentRuns, AiRuns, LocalJobs,
        Attachments, SnapshotStaging, MCExecution, Teams,
        FormDrafts, Memory, Outline, TaskLog

CONSTANTS w1, w2, w3, t1, t2, i1, i2, i3, q1, q2, q3, r1, r2, a1, a2, k3, s1, s2,
          p1, p2, p3, d1, d2

\* q1 and q2 are the same request sent twice.
Asked == (q1 :> r1) @@ (q2 :> r1) @@ (q3 :> r2)
RunAskedBy == [q \in AiRequest |-> Asked[q]]
Costs == [r \in {RunAskedBy[q] : q \in AiRequest} |-> IF r = r1 THEN 2 ELSE 1]
\* Two processes were given the same run ID.
TwoRuns == [p \in Initializer |-> IF p = i2 THEN 2 ELSE 1]
Outputs == [w \in JobWorker |-> IF w = w3 THEN 2 ELSE 1]
OneSpace == [a \in Upload |-> 1]
Typed == [t \in FormTab |-> {1, 2}]

VARIABLE focus

Tree == [x |-> "x", s1 |-> "x", s2 |-> "x", s3 |-> "x", n1 |-> "s1", n2 |-> "s2", m |-> "x", c |-> "m"]
RowKinds == [x |-> "exam", s1 |-> "subject", s2 |-> "subject", s3 |-> "subject", n1 |-> "node", n2 |-> "node",
             m |-> "mock", c |-> "score"]
Weights == [s1 |-> 60, s2 |-> 40, s3 |-> 50]

\* The requests of the learner, in groups that touch the same rows.
LearnKinds == [answers |-> {"right", "wrong"} \cup OfSpace, progress |-> {"wrong", "confirm", "resolve"},
               removal |-> {"confirm", "retire", "remove"}, audit |-> {"review", "finding", "complete"}]
learnFoci == DOMAIN LearnKinds
OutlineKinds == [exams |-> {"under", "delete_exam"}, plans |-> {"publish", "edit", "revise", "task", "delete_goal"},
                 graph |-> {"need", "delete_topic"}]
outlineFoci == DOMAIN OutlineKinds
Foci == {"overlap", "flows", "loop", "sessions", "agents", "ai", "job",
         "upload", "quota", "staging", "study", "proof", "team",
         "edits", "drafts", "log"} \cup learnFoci \cup outlineFoci
mailFoci == {"overlap", "flows"}
attachFoci == {"upload", "quota"}
execFoci == {"study", "proof"}
formFoci == {"edits", "drafts"}

ServicesInit ==
  /\ focus \in Foci
  /\ MailInit /\ (focus \notin mailFoci => account = "none" /\ invites = <<>>)
  /\ LoopInit /\ SessionInit /\ AgentInit /\ AiInit /\ JobInit
  /\ AttachInit /\ StagingInit /\ ExecInit /\ TeamInit /\ DraftInit
  /\ OutlineInit /\ LogInit /\ MemoryInit /\ (focus \notin learnFoci => older = {})

\* One mail and the faults of its delivery, or two mails without faults.
MailBound ==
  IF focus = "overlap" THEN Len(mails') <= 1
  ELSE faults' = 0 /\ sender'[w2] = Free

\* One run and a worker that dies, or two that compete for the budget.
AiBound == aiCrashes' = 0 \/ aiRun'[r2].status = "none"

\* One attachment and its faults, or two that compete for room.
AttachBound ==
  IF focus = "upload" THEN queue'[a2] = "none"
  ELSE slips' = 0 /\ \A a \in Upload : tries'[a] = 0

\* Two processes that create a Run, and one that comes to recover and stops at
\* its own transaction.
AgentBound == at'[i3] # "intent"

\* Starts of sessions in three tasks, or what becomes of two tasks, or of one
\* with two evidences.
ExecBound ==
  IF focus = "study" THEN evidence' = {}
  ELSE /\ assignment'[k3] = Absent /\ sitting'[s2] = NoSitting
       /\ assignment'[k2] = Absent \/ Cardinality(evidence') <= 1

\* One invitation is open at a time, and p3 makes none.  Two of the accounts are
\* going, or one of them while one person's requests are under way.
TeamBound ==
  /\ Cardinality({p \in Person : invitation'[p] # NoInvitation}) <= 1
  /\ Cardinality({p \in Person : user'[p] # "active"}) + Cardinality(late' \cup inviting') <= 2
  /\ p3 \notin inviting'

\* One draft that is edited, or one text and drafts made anew.  The user waits
\* while the draft is read again: see the hazards of form-draft.tsx.
FormBound ==
  /\ HandsOff
  /\ IF focus = "edits" THEN ids' <= 1
     ELSE dropped' = 0 /\ \A t \in FormTab : editor'[t].fields # 2

\* Requests of the group in focus.
LearnBound == \A d \in Learner : request'[d].what \in {"none"} \cup LearnKinds[focus]

OutlineBound ==
  /\ \A w \in Planner : planner'[w].what \in {"none"} \cup OutlineKinds[focus]
  /\ focus # "exams" => UNCHANGED examRow
  /\ focus # "plans" => UNCHANGED goal

\* Two tasks and three attempts, the second task after the first.  Only one is
\* ever blocked or falls short, and a receipt is not used twice.
LogBound ==
  LET short == {t \in Deed : \E n \in 1..Len(deeds'[t].receipts) : ~deeds'[t].receipts[n].succeeded} IN
  /\ deeds'[k1].state = "none" => deeds'[k2].state = "none"
  /\ deeds'[k2].state = "none" \/ DependencyGraph'
  /\ deeds'[k1].state # "blocked"
  /\ short = {} \/ (moment' = 0 /\ deeds'[k2].state = "none")
  /\ Len(deeds'[k1].spans) + Len(deeds'[k2].spans) <= 3
  /\ ReceiptsOnce' /\ \A c \in Completions' : FileOf(c)' <= Cardinality(Completions')
  /\ \A o \in seen' \ seen : o.nth = Len(deeds[o.deed].receipts)

\* A component that is not in focus rests.
Rests(foci, vars) == IF focus \in foci THEN TRUE ELSE UNCHANGED vars
OthersRest ==
  /\ Rests(mailFoci, mailVars) /\ Rests({"loop"}, loopVars)
  /\ Rests({"sessions"}, sessionVars) /\ Rests({"agents"}, agentVars)
  /\ Rests({"ai"}, aiVars) /\ Rests({"job"}, jobVars)
  /\ Rests(attachFoci, attachVars) /\ Rests({"staging"}, stagingVars)
  /\ Rests(execFoci, execVars) /\ Rests({"team"}, teamVars)
  /\ Rests(formFoci, draftVars) /\ Rests(learnFoci, memoryVars)
  /\ Rests(outlineFoci, outlineVars) /\ Rests({"log"}, logVars)

ServicesNext ==
  /\ UNCHANGED focus /\ OthersRest
  /\ \/ focus \in mailFoci /\ MailNext /\ MailBound
     \/ focus = "loop" /\ LoopNext
     \/ focus = "sessions" /\ SessionNext
     \/ focus = "agents" /\ AgentNext /\ LockAssumptions /\ AgentBound
     \/ focus = "ai" /\ AiNext /\ AiBound
     \/ focus = "job" /\ JobNext
     \/ focus \in attachFoci /\ AttachNext /\ AttachBound
     \/ focus = "staging" /\ StagingNext
     \/ focus \in execFoci /\ ExecNext /\ ExecBound
     \/ focus = "team" /\ TeamNext /\ TeamBound
     \/ focus \in formFoci /\ DraftNext /\ FormBound
     \/ focus \in learnFoci /\ MemoryNext /\ LearnBound
     \/ focus \in outlineFoci /\ OutlineNext /\ OutlineBound
     \/ focus = "log" /\ LogNext /\ LogBound

services == <<focus, mailVars, loopVars, sessionVars, agentVars, aiVars, jobVars,
              attachVars, stagingVars, execVars, teamVars,
              draftVars, memoryVars, outlineVars, logVars>>
ServicesSpec == ServicesInit /\ [][ServicesNext]_services

-----------------------------------------------------------------------------
\* Every row, process and counter has its type.
ServicesTypeOK ==
  /\ focus \in mailFoci => MailTypeOK
  /\ focus = "loop" => LoopTypeOK
  /\ focus = "sessions" => SessionTypeOK
  /\ focus = "agents" => AgentTypeOK
  /\ focus = "ai" => AiTypeOK
  /\ focus = "job" => JobTypeOK
  /\ focus \in attachFoci => AttachTypeOK
  /\ focus = "staging" => StagingTypeOK
  /\ focus \in execFoci => ExecTypeOK
  /\ focus = "team" => TeamTypeOK
  /\ focus \in formFoci => DraftTypeOK
  /\ focus \in learnFoci => MemoryTypeOK
  /\ focus \in outlineFoci => OutlineTypeOK
  /\ focus = "log" => LogTypeOK

\* What has ended stays as it ended: mails, tokens and invitations, revoked
\* sessions, runs and decisions of the AI gateway, checkpoints, verified
\* attachments, verdicts on evidence; and no form draft, mastery, error pattern or
\* review is replaced by somebody who has not seen it.  Late answers, second workers and retries come
\* after an end in all of these components.
OutcomesAreFinal ==
  [][/\ focus \in mailFoci => MailOutcomeIsFinal
     /\ focus = "sessions" => RevokedStaysRevoked
     /\ focus = "ai" => AiOutcomeIsFinal
     /\ focus = "job" => CheckpointAdvances
     /\ focus \in attachFoci => VerifiedIsFinal
     /\ focus \in execFoci => ExecOutcomeIsFinal
     /\ focus \in formFoci => NoSilentOverwrite
     /\ focus \in learnFoci => NothingUnseenIsReplaced
     /\ focus \in outlineFoci => NoUnseenPhaseIsLost]_services
=============================================================================
