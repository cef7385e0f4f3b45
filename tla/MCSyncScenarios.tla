-------------------------- MODULE MCSyncScenarios --------------------------
(***************************************************************************)
(* One entity under scenarios, drawn once, so that their states add up:    *)
(* every operation and fault in one tab per device, two tabs of one device *)
(* beside another device, a server that is restored from a backup, a       *)
(* device whose edits are resolved in every way, and users who stop while  *)
(* the cycles go on.                                                       *)
(***************************************************************************)
EXTENDS MCSyncV1

VARIABLE scenario

Within(name, step) == scenario = name /\ step

Picked(picks) == \A d \in Device : choosing'[d] # None => choosing'[d].choice \in picks
Draw(d, n) ==
  LET drawn == {id \in DOMAIN issued' : issued'[id].op.device = d}
  IN Cardinality(drawn) <= IF choosing[d] = None /\ choosing'[d] # None THEN n - 1 ELSE n
Deleting(by) ==
  \A id \in DOMAIN issued' : issued'[id].op.type = "delete" => issued'[id].op.device \in by
Alone(t) == \A u \in Tab \ {t} : DeviceOf[u] = DeviceOf[t] => cycle'[u] = Idle
OneByOne == \E t \in {ta, tb} : \A u \in Tab \ {t} : cycle'[u] = Idle
Lives(t) == cycle[t].at \in {"push", "results", "pull"} => cycle'[t] # Idle
NoRestores == backup' = backup /\ db'.epoch = db.epoch

\* What a tab has been answered concerns its own store alone, so it takes it in
\* (or dies) before another device moves.
TakesAtOnce(t) ==
  cycle[t].at \in {"activate", "results", "control", "page"} =>
    cycle'[t] # cycle[t] \/ store'[DeviceOf[t]] # store[DeviceOf[t]]

\* A resolution is queued while the store still has the conflict it was read
\* from, as queueResolution takes for granted.
ChoiceStands ==
  \A d \in Device : choosing[d] # None /\ choosing'[d] = None =>
    LET conflict == choosing[d].id
    IN conflict \in DOMAIN store[d].conflicts /\ store[d].conflicts[conflict] = choosing[d].conflict

OneTabStep ==
  /\ Alone(ta) /\ NoRestores /\ ChoiceStands
  /\ Draw(a, 2) /\ Draw(b, 2) /\ Deleting({a}) /\ Lives(ta)
  /\ TakesAtOnce(ta) /\ TakesAtOnce(tb)
TwoTabStep ==
  /\ late' = {} /\ choosing' = choosing /\ NoRestores
  /\ Draw(a, 2) /\ Draw(b, 1) /\ Deleting({})
  /\ \A t \in Tab : Lives(t)
  /\ Idle \in {cycle'[tb], cycle'[tc]}
RestoreStep ==
  /\ Alone(ta) /\ Picked({"keep_local", "keep_remote"})
  /\ \A t \in Tab : Lives(t)
  /\ choosing'[b] = None /\ TakesAtOnce(ta) /\ TakesAtOnce(tb)
  /\ Draw(a, 2) /\ Draw(b, 1) /\ Deleting({})
ResolutionStep ==
  /\ OneByOne /\ NoRestores /\ Picked({"keep_remote", "keep_local"})
  /\ late' = {} /\ Deleting({})
  /\ \A t \in Tab : Lives(t) \/ cycle[t].at = "pull"
  /\ cycle'[ta].at # "page" /\ Len(store'[a].outbox) <= 1
ConvergeStep ==
  /\ Alone(ta) /\ NoRestores /\ late' = {} /\ choosing' = choosing
  /\ Draw(a, 2) /\ Draw(b, 1) /\ Deleting({a})

ScenarioNext ==
  /\ Next
  /\ scenario # "converge" => DOMAIN db'.processed \cap LifecycleId = {}
  /\ \/ Within("one tab", OneTabStep)
     \/ Within("two tabs", TwoTabStep)
     \/ Within("restore", RestoreStep)
     \/ Within("resolution", ResolutionStep)
     \/ Within("converge", ConvergeStep)
  /\ UNCHANGED scenario

ScenarioInit == Init /\ scenario \in {"one tab", "two tabs", "restore", "resolution", "converge"}

\* No step that is fair is one that a bound of its scenario forbids: a cycle
\* that goes on issues nothing, resolves nothing and leaves no late push.
ScenarioSpec ==
  /\ ScenarioInit /\ [][ScenarioNext]_<<vars, scenario>>
  /\ \A t \in {ta, tb} : /\ WF_vars(scenario = "converge" /\ Starts(t))
                         /\ SF_vars(scenario = "converge" /\ Answers(t))
                         /\ SF_vars(scenario = "converge" /\ Takes(t))

\* What a device with one tab shows as clean is what the ledger holds at its
\* cursor, whatever its user edits, resolves in any way or dismisses between
\* pages, late pushes and deaths.  One case is left out and is no case of the
\* property: a resolution that commits after the conflict it was read from has
\* changed breaks it with one tab too (queueResolution, resilience.ts:83; run
\* sync_stale_choice), as a second tab does (run sync_two_tabs).
OneTabIsTrue == scenario \in {"one tab", "converge"} => CleanIsTrue

\* With one tab per device the cursor of a replica never moves back within an
\* epoch, through deaths, retries and restores (applyPull does not look at the
\* stored cursor; two tabs do move it back, run sync_two_tabs).
OneTabGoesForward ==
  [][scenario # "two tabs" => \A d \in Device : GoesForward(d)]_<<vars, scenario>>

\* Once its users stop, every replica ends at the ledger's head with nothing
\* left to push, whatever cycles died on the way.
ReplicasConverge == scenario = "converge" => Converges
=============================================================================
