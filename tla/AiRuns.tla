------------------------------- MODULE AiRuns -------------------------------
(***************************************************************************)
(* AI runs of a workspace (ai_gateway): requests reserve the month's       *)
(* budget and queue a run, workers execute it over its candidate providers *)
(* (execution_service.py), the user cancels it or decides on its draft     *)
(* (run_service.py).                                                       *)
(*                                                                         *)
(* Tokens stand for tokens and cost.  How a provider answers, and whether  *)
(* the evidence of a result still holds when it is saved, is left open.    *)
(***************************************************************************)
EXTENDS Naturals, FiniteSets, FiniteSetsExt

CONSTANTS
  AiRequest,     \* POST requests, retries of one another included
  RunAsked,      \* per request: the run its idempotency key stands for
  Estimate,      \* per run: the tokens it reserves
  Budget,        \* monthly_token_budget
  Candidates,    \* providers of the route
  Tries,         \* attempts with one candidate
  AiWorker,      \* worker processes
  MaxMonth,      \* bound: months
  MaxAiCrashes   \* bound: workers that die

VARIABLES
  month,      \* the current month
  asking,     \* per request: 0, or the month it looked up before its locks
  aiRun,      \* ai_runs with their output draft
  usage,      \* ai_usage_monthly
  executor,   \* per worker: Resting, or where it is in execute_run
  aiCrashes   \* history: workers that died so far
aiVars == <<month, asking, aiRun, usage, executor, aiCrashes>>

AiRun == {RunAsked[q] : q \in AiRequest}

ASSUME AiConstants ==
  /\ IsFiniteSet(AiRequest)
  /\ Estimate \in [AiRun -> Nat \ {0}] /\ Budget \in Nat
  /\ Candidates \in Nat \ {0} /\ Tries \in Nat \ {0}
  /\ MaxMonth \in Nat \ {0} /\ MaxAiCrashes \in Nat

NoAiRun == [status |-> "none", created |-> 0, period |-> 0, order |-> 0, cancel |-> FALSE,
            draft |-> "none", consumed |-> 0]
Resting == [at |-> "rest", run |-> 0, candidate |-> 0, try |-> 0]
Ends == {"succeeded", "failed", "cancelled"}

AiInit ==
  /\ month = 1
  /\ asking = [q \in AiRequest |-> 0]
  /\ aiRun = [r \in AiRun |-> NoAiRun]
  \* over: history, what providers counted beyond the reservation.
  /\ usage = [m \in 1..MaxMonth |-> [reserved |-> 0, consumed |-> 0, over |-> 0]]
  /\ executor = [w \in AiWorker |-> Resting]
  /\ aiCrashes = 0

In(statuses) == {r \in AiRun : aiRun[r].status \in statuses}

-----------------------------------------------------------------------------
(* AIRunService.                                                           *)

\* create, up to the lock of the month's usage row: the month is read here,
\* created_at when the row is written.
BeginCreate(q) ==
  /\ asking[q] = 0 /\ aiRun[RunAsked[q]].status = "none"
  /\ asking' = [asking EXCEPT ![q] = month]
  /\ UNCHANGED <<month, aiRun, usage, executor, aiCrashes>>

\* Mutant: the run is not looked up again under the lock.
KnownBefore(r) == FALSE
Known(r) == aiRun[r].status # "none"
\* Mutant: what other runs have reserved is not counted.
InBudgetOfResults(r, m) == usage[m].consumed + Estimate[r] <= Budget
InBudget(r, m) == usage[m].reserved + usage[m].consumed + Estimate[r] <= Budget

CommitCreate(q) ==
  LET r == RunAsked[q]
      m == asking[q]
  IN /\ m # 0
     /\ IF Known(r) \/ ~InBudget(r, m) THEN UNCHANGED <<aiRun, usage>>
        ELSE /\ aiRun' = [aiRun EXCEPT ![r] = [NoAiRun EXCEPT
                            !.status = "queued", !.created = month, !.period = m,
                            !.order = Cardinality(AiRun \ In({"none"})) + 1]]
             /\ usage' = [usage EXCEPT ![m].reserved = @ + Estimate[r]]
     /\ asking' = [asking EXCEPT ![q] = 0]
     /\ UNCHANGED <<month, executor, aiCrashes>>

\* The reservation is taken back from the month the run was created in.
Releasable(r) == usage[aiRun[r].created].reserved >= Estimate[r]
Release(r, actual) ==
  usage' = [usage EXCEPT ![aiRun[r].created] =
              [reserved |-> @.reserved - Estimate[r], consumed |-> @.consumed + actual,
               over |-> @.over + IF actual > Estimate[r] THEN actual - Estimate[r] ELSE 0]]

CancelRun(r) ==
  /\ aiRun[r].status \in {"queued", "running"}
  /\ IF aiRun[r].status = "queued"
     THEN /\ Releasable(r) /\ Release(r, 0)
          /\ aiRun' = [aiRun EXCEPT ![r].cancel = TRUE, ![r].status = "cancelled"]
     ELSE aiRun' = [aiRun EXCEPT ![r].cancel = TRUE] /\ UNCHANGED usage
  /\ UNCHANGED <<month, asking, executor, aiCrashes>>

DecideDraft(r, decision) ==
  /\ aiRun[r].draft = "pending"
  /\ aiRun' = [aiRun EXCEPT ![r].draft = decision]
  /\ UNCHANGED <<month, asking, usage, executor, aiCrashes>>

-----------------------------------------------------------------------------
(* AIExecutionService.                                                     *)

Does(w, step) == executor' = [executor EXCEPT ![w] = step]
Cancelled(w) == aiRun[executor[w].run].cancel

\* The oldest queued run, whose row nobody else holds.
ClaimRun(w) ==
  /\ executor[w] = Resting /\ In({"queued"}) # {}
  /\ LET r == CHOOSE x \in In({"queued"}) :
                \A y \in In({"queued"}) : aiRun[x].order <= aiRun[y].order
     IN /\ aiRun' = [aiRun EXCEPT ![r].status = "running"]
        /\ Does(w, [at |-> "load", run |-> r, candidate |-> 1, try |-> 1])
  /\ UNCHANGED <<month, asking, usage, aiCrashes>>

\* After the last attempt with a candidate comes the next one, or the end.
NextCandidate(e) ==
  IF e.candidate < Candidates
  THEN [e EXCEPT !.at = "load", !.candidate = @ + 1, !.try = 1] ELSE [e EXCEPT !.at = "fail"]


LoadAttempt(w) ==
  /\ executor[w].at = "load"
  /\ IF Cancelled(w) THEN Does(w, [executor[w] EXCEPT !.at = "cancel"])
     ELSE \E next \in {NextCandidate(executor[w]), [executor[w] EXCEPT !.at = "try"],
                       [executor[w] EXCEPT !.at = "fail"]} : Does(w, next)
  /\ UNCHANGED <<month, asking, aiRun, usage, aiCrashes>>

\* The attempt is counted unless the run has been cancelled.
RecordAttempt(w) ==
  /\ executor[w].at = "try"
  /\ Does(w, [executor[w] EXCEPT !.at = IF Cancelled(w) THEN "cancel" ELSE "call"])
  /\ UNCHANGED <<month, asking, aiRun, usage, aiCrashes>>

\* Mutant: the attempts of a candidate are not counted.
RetryForever(e) == [e EXCEPT !.at = "try"]
\* A result; the cancellation noticed on the way; an error that is retried;
\* any other error.
Retry(e) == IF e.try < Tries THEN [e EXCEPT !.at = "try", !.try = @ + 1] ELSE NextCandidate(e)
Generate(w) ==
  LET e == executor[w]
  IN /\ e.at = "call"
     /\ \/ \E next \in {[e EXCEPT !.at = "save"], Retry(e), [e EXCEPT !.at = "fail"]} : Does(w, next)
        \/ Cancelled(w) /\ Does(w, [e EXCEPT !.at = "cancel"])
     /\ UNCHANGED <<month, asking, aiRun, usage, aiCrashes>>

\* _terminal; when the month's row does not hold the reservation it raises,
\* and the transaction with it.
Terminal(r, status, draft, actual) ==
  IF Releasable(r)
  THEN /\ Release(r, actual)
       /\ aiRun' = [aiRun EXCEPT ![r].status = status, ![r].draft = draft,
                                 ![r].consumed = actual]
  ELSE UNCHANGED <<aiRun, usage>>

FinishSucceeded(w, valid, actual) ==
  LET r == executor[w].run
  IN /\ executor[w].at = "save"
     /\ CASE aiRun[r].cancel -> Terminal(r, "cancelled", "none", 0)
          [] ~aiRun[r].cancel /\ ~valid -> Terminal(r, "failed", "none", actual)
          [] OTHER -> Terminal(r, "succeeded", "pending", actual)
     /\ Does(w, Resting)
     /\ UNCHANGED <<month, asking, aiCrashes>>

FinishOtherwise(w) ==
  /\ executor[w].at \in {"fail", "cancel"}
  /\ Terminal(executor[w].run, IF executor[w].at = "fail" THEN "failed" ELSE "cancelled", "none", 0)
  /\ Does(w, Resting)
  /\ UNCHANGED <<month, asking, aiCrashes>>

-----------------------------------------------------------------------------
\* A run whose worker dies stays running (docs/adr/0016, for an operator).
ExecutorCrash(w) ==
  /\ executor[w] # Resting /\ aiCrashes < MaxAiCrashes
  /\ Does(w, Resting) /\ aiCrashes' = aiCrashes + 1
  /\ UNCHANGED <<month, asking, aiRun, usage>>

MonthTurns ==
  /\ month < MaxMonth /\ month' = month + 1
  /\ UNCHANGED <<asking, aiRun, usage, executor, aiCrashes>>

Actuals(r) == {0, Estimate[r], Estimate[r] + 1}
Execute(w) ==
  \/ ClaimRun(w) \/ LoadAttempt(w) \/ RecordAttempt(w) \/ Generate(w)
  \/ /\ executor[w].at = "save"
     /\ \E valid \in BOOLEAN, actual \in Actuals(executor[w].run) : FinishSucceeded(w, valid, actual)
  \/ FinishOtherwise(w)

AiNext ==
  \/ \E q \in AiRequest : BeginCreate(q) \/ CommitCreate(q)
  \/ \E r \in AiRun : CancelRun(r) \/ \E d \in {"accepted", "rejected"} : DecideDraft(r, d)
  \/ \E w \in AiWorker : Execute(w) \/ ExecutorCrash(w)
  \/ MonthTurns

\* The scheduler keeps polling the queue of runs.
AiFairness == \A w \in AiWorker : WF_aiVars(Execute(w))

AiSpec == AiInit /\ [][AiNext]_aiVars
FairAiSpec == AiSpec /\ AiFairness

-----------------------------------------------------------------------------
(* Properties.                                                             *)

\* Every row and worker has its type.
AiTypeOK ==
  /\ month \in 1..MaxMonth /\ asking \in [AiRequest -> 0..MaxMonth]
  /\ aiRun \in [AiRun ->
       [status : {"none", "queued", "running"} \cup Ends, created : 0..MaxMonth,
        period : 0..MaxMonth, order : Nat, cancel : BOOLEAN,
        draft : {"none", "pending", "accepted", "rejected"}, consumed : Nat]]
  /\ usage \in [1..MaxMonth -> [reserved : Nat, consumed : Nat, over : Nat]]
  /\ executor \in [AiWorker -> {Resting} \cup
       [at : {"load", "try", "call", "save", "fail", "cancel"}, run : AiRun,
        candidate : 1..Candidates, try : 1..Tries]]
  /\ aiCrashes \in 0..MaxAiCrashes

\* What the months hold in reserve is what the runs that have not ended
\* reserved, and what they count as consumed is what the results were counted
\* at: every reservation is released once, whatever ends the run.
LedgerAddsUp ==
  /\ MapThenSumSet(LAMBDA m : usage[m].reserved, 1..MaxMonth) =
     MapThenSumSet(LAMBDA r : Estimate[r], In({"queued", "running"}))
  /\ MapThenSumSet(LAMBDA m : usage[m].consumed, 1..MaxMonth) =
     MapThenSumSet(LAMBDA r : aiRun[r].consumed, AiRun)

\* Concurrent requests never overspend a month: only what a provider counted
\* beyond the estimate exceeds the budget (docs/adr/0016, reservation).
BudgetHolds ==
  \A m \in 1..MaxMonth : usage[m].reserved + usage[m].consumed <= Budget + usage[m].over

\* A run whose cancellation was accepted never becomes a success with a draft,
\* however late in its execution the request came (docs/adr/0016).
CancelIsHonoured ==
  \A r \in AiRun : aiRun[r].cancel => aiRun[r].status # "succeeded" /\ aiRun[r].draft = "none"

\* A step changes no decision on a draft and no end of a run.
AiOutcomeIsFinal ==
  \A r \in AiRun :
    /\ aiRun[r].status \in Ends => aiRun'[r].status = aiRun[r].status
    /\ aiRun[r].draft \in {"accepted", "rejected"} => aiRun'[r].draft = aiRun[r].draft

\* Every queued run ends, unless a worker died or a month turned inside a
\* create: its reservation is then in the row of the month before.
RunEnds ==
  \A r \in AiRun :
    aiRun[r].status \in {"queued", "running"} ~>
      \/ aiRun[r].status \in Ends
      \/ aiCrashes > 0
      \/ \E s \in AiRun : aiRun[s].period # aiRun[s].created

\* No month is overspent, and a cancelled run does not become a draft.
BudgetIsKept == BudgetHolds /\ CancelIsHonoured
=============================================================================
