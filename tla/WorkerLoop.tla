----------------------------- MODULE WorkerLoop -----------------------------
(***************************************************************************)
(* The worker process: RoundRobinScheduler (logion_worker/scheduler.py)    *)
(* polls its queues from a rotating start point, run_worker (main.py)      *)
(* calls it for ever, and WorkerHealthTracker (health.py) counts failures  *)
(* per queue.  What a handler does is left to the modules of the queues:   *)
(* here it finds work, finds none, or raises.                              *)
(***************************************************************************)
EXTENDS Naturals

CONSTANTS
  Queues,        \* number of handlers; they are 0 .. Queues - 1
  Threshold      \* worker_health_failure_threshold; counting stops there

VARIABLES
  running,     \* the process runs
  cursor,      \* _cursor: where the next call starts
  start,       \* start of the call in progress
  offset,      \* how many handlers of this call have found nothing
  polling,     \* a handler is running
  failures,    \* queue_failures, reset by a success
  waited,      \* history: polls of other queues since the last poll of each
  streak       \* history: how many times in a row each queue has raised
loopVars == <<running, cursor, start, offset, polling, failures, waited, streak>>

ASSUME LoopConstants ==
  Queues \in Nat \ {0} /\ Threshold \in Nat \ {0}

Queue == 0 .. (Queues - 1)
Capped(n) == IF n < Threshold THEN n ELSE Threshold
Bounded(n) == IF n < Queues THEN n + 1 ELSE n  \* bound of the history
Zero == [q \in Queue |-> 0]

LoopInit ==
  /\ running = FALSE
  /\ cursor = 0 /\ start = 0 /\ offset = 0 /\ polling = FALSE
  /\ failures = Zero /\ waited = Zero /\ streak = Zero

Current == (start + offset) % Queues
\* The handlers of this call that have returned: successful_queues.
Successful(n) == {(start + i) % Queues : i \in 0 .. (n - 1)}

\* Mutant: it stays at the handler that runs.
CursorAt(index) == index
\* The cursor moves past a handler before it runs.
CursorAfter(index) == (index + 1) % Queues

Poll(from, n) ==
  LET index == (from + n) % Queues
  IN /\ start' = from /\ offset' = n /\ polling' = TRUE
     /\ cursor' = CursorAfter(index)
     /\ waited' = [q \in Queue |-> IF q = index THEN 0 ELSE Bounded(waited[q])]

\* A call of execute_next in the loop of run_worker.
BeginCall ==
  /\ running /\ ~polling /\ Poll(cursor, 0)
  /\ UNCHANGED <<running, failures, streak>>

\* Mutant: a call that succeeds clears them all.
ResetAll(counts, n) == IF n = 0 THEN counts ELSE Zero
\* record_success: every handler that returned has its count reset.
Reset(counts, n) == [q \in Queue |-> IF q \in Successful(n) THEN 0 ELSE counts[q]]

Returned == [streak EXCEPT ![Current] = 0]

Handled ==
  /\ polling /\ polling' = FALSE
  /\ failures' = Reset(failures, offset + 1) /\ streak' = Returned
  /\ UNCHANGED <<running, cursor, start, offset, waited>>

NothingThere ==
  /\ polling /\ streak' = Returned
  /\ IF offset + 1 < Queues
     THEN Poll(start, offset + 1) /\ UNCHANGED failures
     ELSE /\ polling' = FALSE /\ failures' = Reset(failures, offset + 1)
          /\ UNCHANGED <<cursor, start, offset, waited>>
  /\ UNCHANGED running

\* record_failure: the handlers before it have returned, this one raised.
Raises ==
  /\ polling /\ polling' = FALSE
  /\ failures' = [Reset(failures, offset) EXCEPT ![Current] = Capped(@ + 1)]
  /\ streak' = [streak EXCEPT ![Current] = Capped(@ + 1)]
  /\ UNCHANGED <<running, cursor, start, offset, waited>>

\* A new process starts with new state; it stops or dies at any time.
Start ==
  /\ ~running /\ running' = TRUE
  /\ cursor' = 0 /\ start' = 0 /\ offset' = 0 /\ polling' = FALSE
  /\ failures' = Zero /\ waited' = Zero /\ streak' = Zero
Stop ==
  /\ running /\ running' = FALSE /\ polling' = FALSE
  /\ UNCHANGED <<cursor, start, offset, failures, waited, streak>>

LoopStep == BeginCall \/ Handled \/ NothingThere \/ Raises
LoopNext == LoopStep \/ Start \/ Stop
\* A process that runs keeps running its loop.
LoopFairness == WF_loopVars(LoopStep)
LoopSpec == LoopInit /\ [][LoopNext]_loopVars
FairLoopSpec == LoopSpec /\ LoopFairness

-----------------------------------------------------------------------------
(* Properties.                                                             *)

\* Every variable has its type.
LoopTypeOK ==
  /\ running \in BOOLEAN
  /\ cursor \in Queue /\ start \in Queue /\ offset \in Queue /\ polling \in BOOLEAN
  /\ failures \in [Queue -> 0..Threshold] /\ streak \in [Queue -> 0..Threshold]
  /\ waited \in [Queue -> 0..Queues]

\* No queue waits for more polls than there are other queues, whichever
\* queues always have work or always raise (the docstring of
\* RoundRobinScheduler: a failing queue cannot keep later queues out).
EveryQueueInTurn == \A q \in Queue : waited[q] < Queues

\* Between calls the counts of the health report are true: each queue's
\* count is the number of times in a row it has raised, so one healthy
\* queue does not hide that another keeps failing.
FailuresAreTrue == running /\ ~polling => failures = streak

\* A process that keeps running polls every queue again and again.
EveryQueueIsPolled == \A q \in Queue : <>[]running => []<>(polling /\ Current = q)

\* The scheduler is fair and its health report honest.
LoopIsFair == EveryQueueInTurn /\ FailuresAreTrue
=============================================================================
