------------------------------- MODULE Memory -------------------------------
(***************************************************************************)
(* What a user knows of a topic: answers to its recall item, the error     *)
(* pattern and the review schedule that follow from them, the mastery the  *)
(* user confirms, and the audit review of a period (memory/service.py).    *)
(*                                                                         *)
(* The service is called by the handlers of the push and by online_routes  *)
(* under the lock of the workspace, and by the older routes, which take    *)
(* the row locks of the service only.  A transaction is cut in two: what   *)
(* it reads and locks first, and the rest.  Rows are made under the id a   *)
(* device offers: here the device, as it offers one of its own.            *)
(***************************************************************************)
EXTENDS Naturals, Sequences, FiniteSets

CONSTANTS
  Learner,     \* devices of the user
  MaxPast,     \* bound: answers and confirmations
  MaxFindings  \* bound: findings of the review

VARIABLES
  older,     \* the devices that write through the older routes
  topicLive,     \* the topic is live
  quizItem,      \* its recall item: live, and how it is judged
  history,      \* history: answers and confirmations, in the order of their commits
  pattern,   \* the error pattern
  schedule,  \* the review schedule
  mastery,   \* the mastery record
  review,    \* the audit review of the period
  known,      \* per device: the rows as it knows them
  request      \* per device: its request, and the row the handler read first
memoryVars == <<older, topicLive, quizItem, history, pattern, schedule, mastery, review, known, request>>

NoRecord == [id |-> "none", version |-> 0]
NoRequest == [what |-> "none", arg |-> 0, held |-> NoRecord]
LearnedRows == [pattern |-> pattern, schedule |-> schedule, mastery |-> mastery, review |-> review]

MemoryInit ==
  /\ older \in SUBSET Learner
  /\ topicLive = TRUE /\ quizItem = [live |-> TRUE, mode |-> 0] /\ history = <<>>
  /\ pattern = NoRecord /\ schedule = NoRecord /\ mastery = NoRecord
  /\ review = [status |-> "none", version |-> 0, made |-> 0, findings |-> 0, sealed |-> 0]
  /\ known = [d \in Learner |-> [pattern |-> NoRecord, schedule |-> NoRecord, mastery |-> NoRecord, review |-> review]]
  /\ request = [d \in Learner |-> NoRequest]

\* Pull, or the lists of the older routes.
Refresh(d) ==
  /\ request[d] = NoRequest /\ known[d] # LearnedRows
  /\ known' = [known EXCEPT ![d] = LearnedRows]
  /\ UNCHANGED <<older, topicLive, quizItem, history, pattern, schedule, mastery, review, request>>

\* Rows locked by the first half of another request.
RowLocked(d, kinds) == \E e \in Learner \ {d} : request[e].what \in kinds
Verdicts == {"right", "wrong"}
OfSpace == {"mode", "retire", "remove"}

\* Begin: the handler, up to the first lock of the service.  Two pushes wait
\* for each other at the workspace.
BeginRequest(d, what, arg, held) ==
  /\ request[d] = NoRequest
  /\ d \in older \/ \A e \in Learner \ older : request[e] = NoRequest
  /\ request' = [request EXCEPT ![d] = [what |-> what, arg |-> arg,
                                    held |-> IF d \in older THEN NoRecord ELSE held]]
  /\ UNCHANGED <<older, topicLive, quizItem, history, pattern, schedule, mastery, review, known>>
\* End: the request leaves; without a change when it is refused.
EndRequest(d) == request' = [request EXCEPT ![d] = NoRequest] /\ UNCHANGED <<older, known>>

\* A row the handler has loaded is not read anew by SELECT FOR UPDATE.
LoadedRow(d, row) == IF request[d].held.version > 0 THEN request[d].held ELSE row
OfferedId(d, shown) == IF shown.version > 0 THEN shown.id ELSE d
TakesId(d, row, shown) == row.version = 0 \/ row.id = OfferedId(d, shown)
NextDue(d, status, days) ==
  [id |-> OfferedId(d, known[d].schedule), version |-> schedule.version + 1, status |-> status, days |-> days]

-----------------------------------------------------------------------------
\* submit_quiz_attempt locks the item and judges by its mode; an answer may
\* not come while the item is being changed.
AskAnswer(d, what) ==
  /\ quizItem.live /\ ~RowLocked(d, Verdicts)
  /\ BeginRequest(d, what, quizItem.mode, NoRecord)

\* The rest, under the lock of the membership: a wrong answer counts in the
\* pattern of its cause and makes the schedule due.
RecordAnswer(d) ==
  LET wrong == request[d].what = "wrong" IN
  /\ request[d].what \in Verdicts /\ ~RowLocked(d, {"review"}) /\ Len(history) < MaxPast
  /\ wrong => TakesId(d, pattern, known[d].pattern) /\ TakesId(d, schedule, known[d].schedule)
  /\ history' = Append(history, [what |-> request[d].what, by |-> request[d].arg])
  /\ IF wrong
     THEN /\ pattern' = [id |-> OfferedId(d, known[d].pattern), version |-> pattern.version + 1,
                         count |-> IF pattern = NoRecord THEN 1 ELSE pattern.count + 1,
                         latest |-> Len(history'), status |-> "open"]
          /\ schedule' = NextDue(d, "due", 1)
     ELSE UNCHANGED <<pattern, schedule>>
  /\ EndRequest(d) /\ UNCHANGED <<topicLive, quizItem, mastery, review>>

\* resolve_error_pattern, of the version the device knows.
AskResolve(d) == known[d].pattern.version > 0 /\ BeginRequest(d, "resolve", 0, pattern)
ResolveErrorPattern(d) ==
  LET p == LoadedRow(d, pattern) IN
  /\ request[d].what = "resolve"
  /\ p.status = "open" /\ p.version = known[d].pattern.version
  /\ pattern' = [pattern EXCEPT !.status = "resolved", !.version = p.version + 1]
  /\ EndRequest(d) /\ UNCHANGED <<topicLive, quizItem, history, schedule, mastery, review>>

\* confirm_mastery; levels stand for their intervals.
AskConfirm(d, level) == BeginRequest(d, "confirm", level, mastery)
ConfirmMastery(d) ==
  LET m == LoadedRow(d, mastery) IN
  /\ request[d].what = "confirm" /\ topicLive /\ Len(history) < MaxPast
  /\ m.version = known[d].mastery.version /\ TakesId(d, m, known[d].mastery)
  /\ TakesId(d, schedule, known[d].schedule)
  /\ history' = Append(history, [what |-> "confirm", by |-> request[d].arg])
  /\ mastery' = [id |-> OfferedId(d, known[d].mastery), version |-> m.version + 1, level |-> request[d].arg]
  /\ schedule' = NextDue(d, "scheduled", request[d].arg)
  /\ EndRequest(d) /\ UNCHANGED <<topicLive, quizItem, pattern, review>>

-----------------------------------------------------------------------------
\* update_quiz_item, and the deletions of an item and of its topic, begin with
\* the lock of the space and wait for the row afterwards.
AskOfSpace(d, what, mode) ==
  /\ ~RowLocked(d, OfSpace) /\ (what = "mode" \/ d \notin older)
  /\ BeginRequest(d, what, mode, NoRecord)
\* Mutant: the item is read without its lock.
UpdateUnlocked(d) ==
  /\ request[d].what = "mode"
  /\ quizItem.live /\ (request[d].arg # quizItem.mode => \A i \in DOMAIN history : history[i].what = "confirm")
  /\ quizItem' = [quizItem EXCEPT !.mode = request[d].arg]
  /\ EndRequest(d) /\ UNCHANGED <<topicLive, history, pattern, schedule, mastery, review>>
\* The mode is fixed once the item has answers.
UpdateQuizItem(d) ==
  /\ request[d].what = "mode" /\ ~RowLocked(d, Verdicts)
  /\ quizItem.live /\ (request[d].arg # quizItem.mode => \A i \in DOMAIN history : history[i].what = "confirm")
  /\ quizItem' = [quizItem EXCEPT !.mode = request[d].arg]
  /\ EndRequest(d) /\ UNCHANGED <<topicLive, history, pattern, schedule, mastery, review>>
RetireItem(d) ==
  /\ request[d].what = "retire" /\ ~RowLocked(d, Verdicts) /\ quizItem.live
  /\ quizItem' = [quizItem EXCEPT !.live = FALSE]
  /\ EndRequest(d) /\ UNCHANGED <<topicLive, history, pattern, schedule, mastery, review>>
\* A topic with anything learned stays.
RemoveTopic(d) ==
  /\ request[d].what = "remove" /\ topicLive /\ ~quizItem.live
  /\ history = <<>> /\ pattern = NoRecord /\ schedule = NoRecord /\ mastery = NoRecord
  /\ topicLive' = FALSE
  /\ EndRequest(d) /\ UNCHANGED <<quizItem, history, pattern, schedule, mastery, review>>

-----------------------------------------------------------------------------
\* create_audit_review looks for the period under the lock of the membership.
AskReview(d) == ~RowLocked(d, {"review"}) /\ BeginRequest(d, "review", 0, NoRecord)
CreateAuditReview(d) ==
  /\ request[d].what = "review" /\ review.made = 0
  /\ review' = [review EXCEPT !.status = "draft", !.version = 1, !.made = @ + 1]
  /\ EndRequest(d) /\ UNCHANGED <<topicLive, quizItem, history, pattern, schedule, mastery>>

\* add_review_finding holds the lock of a draft.
AskFinding(d) ==
  /\ review.status = "draft" /\ ~RowLocked(d, {"finding"}) /\ BeginRequest(d, "finding", 0, NoRecord)
AddReviewFinding(d) ==
  /\ request[d].what = "finding" /\ review.findings < MaxFindings
  /\ review' = [review EXCEPT !.findings = @ + 1]
  /\ EndRequest(d) /\ UNCHANGED <<topicLive, quizItem, history, pattern, schedule, mastery>>

\* complete_audit_review, of the version the device knows.
AskComplete(d) == known[d].review.version > 0 /\ BeginRequest(d, "complete", 0, review)
CompleteAuditReview(d) ==
  LET r == LoadedRow(d, review) IN
  /\ request[d].what = "complete" /\ ~RowLocked(d, {"finding"})
  /\ r.status = "draft" /\ r.version = known[d].review.version
  /\ review' = [review EXCEPT !.status = "completed", !.version = r.version + 1, !.sealed = review.findings]
  /\ EndRequest(d) /\ UNCHANGED <<topicLive, quizItem, history, pattern, schedule, mastery>>

\* A request is refused, or its process dies: the transaction is undone.
UndoRequest(d) ==
  /\ request[d] # NoRequest /\ EndRequest(d)
  /\ UNCHANGED <<topicLive, quizItem, history, pattern, schedule, mastery, review>>

MemoryNext ==
  \E d \in Learner :
    \/ Refresh(d) \/ UndoRequest(d)
    \/ \E what \in Verdicts : AskAnswer(d, what)
    \/ RecordAnswer(d) \/ AskResolve(d) \/ ResolveErrorPattern(d)
    \/ \E level \in 1..2 : AskConfirm(d, level)
    \/ ConfirmMastery(d)
    \/ \E what \in OfSpace, mode \in 0..1 : AskOfSpace(d, what, mode)
    \/ UpdateQuizItem(d) \/ RetireItem(d) \/ RemoveTopic(d)
    \/ AskReview(d) \/ CreateAuditReview(d) \/ AskFinding(d) \/ AddReviewFinding(d)
    \/ AskComplete(d) \/ CompleteAuditReview(d)

MemorySpec == MemoryInit /\ [][MemoryNext]_memoryVars

-----------------------------------------------------------------------------
MemoryTypeOK ==
  /\ older \subseteq Learner /\ topicLive \in BOOLEAN /\ quizItem.mode \in 0..1 /\ Len(history) <= MaxPast
  /\ \A r \in {pattern, schedule, mastery} : r.version \in 0..2 * MaxPast
  /\ review.status \in {"none", "draft", "completed"} /\ review.findings \in 0..MaxFindings

WrongAnswers == {i \in DOMAIN history : history[i].what = "wrong"}
Scheduling == {i \in DOMAIN history : history[i].what # "right"}
LatestOf(S) == CHOOSE i \in S : \A j \in S : j <= i
\* The pattern counts the wrong answers and names the last of them.
PatternCounts ==
  IF WrongAnswers = {} THEN pattern = NoRecord
  ELSE pattern.count = Cardinality(WrongAnswers) /\ pattern.latest = LatestOf(WrongAnswers)
\* The schedule follows the last wrong answer or confirmation, and the mastery
\* the last confirmation: no answer changes it (docs/adr/0008:14).
ScheduleFollows ==
  /\ IF Scheduling = {} THEN schedule = NoRecord
     ELSE LET last == history[LatestOf(Scheduling)] IN
          /\ schedule.status = (IF last.what = "wrong" THEN "due" ELSE "scheduled")
          /\ schedule.days = (IF last.what = "wrong" THEN 1 ELSE last.by)
  /\ mastery.version > 0 =>
       mastery.level = history[LatestOf({i \in DOMAIN history : history[i].what = "confirm"})].by
\* All answers were judged by the mode the item has now (docs/adr/0036).
ModeIsLocked == \A i \in DOMAIN history : history[i].what # "confirm" => history[i].by = quizItem.mode
\* What was learned keeps its topic.
HistoryKeepsTopic == ~topicLive => history = <<>>
\* One review of a period, and a completed one gets no more findings.
ReviewIsSealed == review.made <= 1 /\ (review.status = "completed" => review.findings = review.sealed)

\* What answers, confirmations and reviews leave behind, for requests of
\* several devices through the old and the new routes at once.
LearningIsRecorded == PatternCounts /\ ScheduleFollows /\ ModeIsLocked /\ HistoryKeepsTopic /\ ReviewIsSealed

\* Nothing is resolved, confirmed or completed over a version its user has not
\* seen, when all devices go the same way: a push that read the row before an
\* older route wrote it does not read it again (see the hazards).
NothingUnseenIsReplaced ==
  \A d \in Learner : older \in {{}, Learner} /\ request'[d] # request[d] =>
    /\ mastery' # mastery => known[d].mastery = mastery
    /\ pattern' # pattern /\ pattern'.status = "resolved" => known[d].pattern = pattern
    /\ review' # review /\ review'.status = "completed" => known[d].review.version = review.version
=============================================================================
