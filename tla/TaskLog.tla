------------------------------ MODULE TaskLog -------------------------------
(***************************************************************************)
(* The log of an agent-state Run (scripts/agent-state.mjs): workers and    *)
(* the coordinator append events of tasks, and the coordinator observations*)
(* of completed work; the validator replays the events and then judges the *)
(* Run as a whole.                                                         *)
(*                                                                         *)
(* An event that the replay refuses makes a Run invalid for good, so only  *)
(* the others are actions here.  What is judged at the end may be wrong in *)
(* between and right again later, so it is a predicate, Validated.         *)
(***************************************************************************)
EXTENDS Naturals, Sequences, FiniteSets, SequencesExt

CONSTANTS
  Deed,        \* tasks of the Run
  Area,        \* what a task may write: paths, a branch or a worktree
  MaxTime,     \* bound: times of events
  MaxRounds,   \* bound: assignments and retries of a task
  MaxSeen      \* bound: observations

ASSUME LogConstants == MaxTime \in Nat /\ MaxRounds \in Nat /\ "none" \notin Area

VARIABLES
  deeds,       \* per task: the state that the replay of the events gives
  moment,      \* the time of the last event
  seen         \* files of observations
logVars == <<deeds, moment, seen>>

Never == MaxTime + 1
Uncreated == [state |-> "none", needs |-> {}, area |-> "none", spans |-> <<>>, receipts |-> <<>>, shown |-> {}]
LogInit == deeds = [t \in Deed |-> Uncreated] /\ moment = 0 /\ seen = {}

\* Events come in the order of their times, which may be equal.
Event(t, now, next) ==
  /\ now \in moment..MaxTime
  /\ moment' = now /\ deeds' = [deeds EXCEPT ![t] = next] /\ UNCHANGED seen
DeedGoes(t, now, from, to) == deeds[t].state \in from /\ Event(t, now, [deeds[t] EXCEPT !.state = to])

\* A task writes its area, or reads.
CreateDeed(t, now, needs, area) ==
  /\ deeds[t].state = "none"
  /\ Event(t, now, [Uncreated EXCEPT !.state = "pending", !.needs = needs, !.area = area])

\* Mutant: completed work is enough to build on.
NeedsAreDone(t) == \A d \in deeds[t].needs : deeds[d].state \in {"completed", "accepted"}
\* Whoever is assigned, or tries again, finds everything the task needs accepted.
NeedsAreMet(t) == \A d \in deeds[t].needs : deeds[d].state = "accepted"

\* task.assigned and task.retried open a window of ownership.
TakeOn(t, now, from) ==
  /\ deeds[t].state \in from /\ NeedsAreMet(t)
  /\ Len(deeds[t].spans) < MaxRounds
  /\ Event(t, now, [deeds[t] EXCEPT !.state = "assigned",
                                    !.spans = Append(@, [from |-> now, to |-> Never])])
AssignDeed(t, now) == TakeOn(t, now, {"pending"})
RetryDeed(t, now) == TakeOn(t, now, {"failed", "rejected"})

\* task.completed and task.failed close it.
WindowClosed(t, now) == [deeds[t].spans EXCEPT ![Len(deeds[t].spans)].to = now]
StartDeed(t, now) == DeedGoes(t, now, {"assigned"}, "started")
BlockDeed(t, now) == DeedGoes(t, now, {"started"}, "blocked")
ResumeDeed(t, now) == DeedGoes(t, now, {"blocked"}, "started")
FailDeed(t, now) ==
  /\ deeds[t].state \in {"started", "blocked"}
  /\ Event(t, now, [deeds[t] EXCEPT !.state = "failed", !.spans = WindowClosed(t, now)])
\* Every completion has a receipt, which may tell of success or not, and may
\* be the file of another completion.
CompleteDeed(t, now, file, succeeded) ==
  /\ deeds[t].state = "started"
  /\ Event(t, now, [deeds[t] EXCEPT !.state = "completed", !.spans = WindowClosed(t, now),
       !.receipts = Append(@, [file |-> file, succeeded |-> succeeded, at |-> now])])

\* The coordinator writes that one completion passed, and when that was
\* observed: the file may say any time.  Checks that failed prove nothing.
ObserveDeed(t, nth, when) ==
  /\ nth \in 1..Len(deeds[t].receipts) /\ Cardinality(seen) < MaxSeen
  /\ seen' = seen \cup {[deed |-> t, nth |-> nth, when |-> when]}
  /\ UNCHANGED <<deeds, moment>>

\* An acceptance names observations of the current completion, made between it
\* and the acceptance.
Proves(o, t, now) ==
  /\ o.deed = t /\ o.nth = Len(deeds[t].receipts)
  /\ Last(deeds[t].receipts).at <= o.when /\ o.when <= now
AcceptDeed(t, now, o) ==
  /\ deeds[t].state = "completed" /\ o \in seen
  /\ Last(deeds[t].receipts).succeeded /\ Proves(o, t, now)
  /\ Event(t, now, [deeds[t] EXCEPT !.state = "accepted", !.shown = {o}])
RejectDeed(t, now) == DeedGoes(t, now, {"completed"}, "rejected")

LogNext ==
  \/ \E t \in Deed, now \in 0..MaxTime :
       \/ \E needs \in SUBSET Deed, area \in Area \cup {"none"} : CreateDeed(t, now, needs, area)
       \/ AssignDeed(t, now) \/ RetryDeed(t, now) \/ StartDeed(t, now)
       \/ BlockDeed(t, now) \/ ResumeDeed(t, now) \/ FailDeed(t, now)
       \/ \E file \in 1..Cardinality(Deed) * MaxRounds, ok \in BOOLEAN : CompleteDeed(t, now, file, ok)
       \/ RejectDeed(t, now) \/ \E o \in seen : AcceptDeed(t, now, o)
  \/ \E t \in Deed, nth \in 1..MaxRounds, when \in 0..MaxTime :
       ObserveDeed(t, nth, when)

LogSpec == LogInit /\ [][LogNext]_logVars

-----------------------------------------------------------------------------
\* validateDependencyGraph: known tasks, and no cycle.
FollowsNeeds(S) == \A d \in S : deeds[d].needs \subseteq S
Leading(t) == {d \in Deed : \A S \in SUBSET Deed : deeds[t].needs \subseteq S /\ FollowsNeeds(S) => d \in S}
DependencyGraph == \A t \in Deed : t \notin Leading(t) /\ \A d \in deeds[t].needs : deeds[d].state # "none"

\* validateWriterIsolation: windows are half open.
Overlap(s, r) == s.from < r.to /\ r.from < s.to
Spans(t) == ToSet(deeds[t].spans)
WriterIsolation ==
  \A t, u \in Deed : t # u /\ deeds[t].area = deeds[u].area /\ deeds[t].area # "none" =>
    \A s \in Spans(t), r \in Spans(u) : ~Overlap(s, r)

\* A receipt belongs to one completion.
Completions == {c \in Deed \X (1..MaxRounds) : c[2] <= Len(deeds[c[1]].receipts)}
FileOf(c) == deeds[c[1]].receipts[c[2]].file
ReceiptsOnce == \A c, d \in Completions : c # d => FileOf(c) # FileOf(d)

Validated == DependencyGraph /\ WriterIsolation /\ ReceiptsOnce

-----------------------------------------------------------------------------
LogTypeOK ==
  /\ moment \in 0..MaxTime /\ Cardinality(seen) <= MaxSeen
  /\ \A t \in Deed : /\ deeds[t].area \in Area \cup {"none"} /\ deeds[t].shown \subseteq seen
                     /\ \A s \in Spans(t) : s.from <= s.to

\* In a Run that the validator passes: accepted work was observed after the
\* last attempt at it had ended, and what it is built on was finished for good
\* before the first attempt at it began; and nobody ever had an area that
\* another was writing.
AcceptedWorkIsProven ==
  Validated =>
    /\ \A t \in Deed : deeds[t].state = "accepted" =>
         /\ \A o \in deeds[t].shown, s \in Spans(t) : s.to <= o.when
         /\ \A d \in Leading(t), s \in Spans(t) :
              deeds[d].state = "accepted" /\ \A r \in Spans(d) : r.to <= s.from
    /\ \A k \in 0..MaxTime, a \in Area :
         Cardinality({t \in Deed : deeds[t].area = a /\ \E s \in Spans(t) : s.from <= k /\ k < s.to}) <= 1
=============================================================================
