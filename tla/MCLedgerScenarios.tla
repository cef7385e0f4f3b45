------------------------- MODULE MCLedgerScenarios -------------------------
(***************************************************************************)
(* One instance of SyncLedger under four scenarios: which requests arrive  *)
(* and which other writers there are is drawn once, so that the states of  *)
(* the scenarios add up.                                                   *)
(***************************************************************************)
EXTENDS MCSyncLedger

VARIABLE scenario

Within(name, step) == scenario = name /\ step
IdsOf(requests) == {req.id : req \in requests}
EditIds == IdsOf(EditRequests)
CascadeIds == IdsOf(CascadeRequests)
LinkIds == IdsOf(LinkRequests)
Sends(ids) == txn' # None => \A i \in DOMAIN txn'.batch : txn'.batch[i].id \in ids
OneByOne == txn' # None => Len(txn'.batch) = 1
OneTopic ==
  /\ \A e \in Entity \ {topic} : ~Exists(db', e) /\ e \notin waiting'
  /\ db'.row[topic].payload # pLinked
Untouched(entities) == \A e \in entities : ~Exists(db', e) /\ e \notin waiting'
NoRestores == UNCHANGED <<backup, epochs>>

\* No row moves without its change.
ByLedger ==
  /\ db'.row # db.row => db'.changes # db.changes
  /\ txn # None /\ txn' # None /\ txn'.work.row # txn.work.row =>
       txn'.work.changes # txn.work.changes

\* One topic, with all its requests, or with some of them beside the older
\* routes and under restores; what deletions reach, through the ledger alone;
\* a task and its resource, and the older routes.
ScenarioStep ==
  \/ Within("edit", /\ Sends(EditIds) /\ NoRestores /\ OneTopic /\ waiting' = {})
  \/ Within("restore", /\ Sends({e1, e2, f1, f3}) /\ OneByOne /\ OneTopic)
  \/ Within("cascade", /\ Sends(CascadeIds) /\ NoRestores /\ ByLedger
                       /\ Untouched({task, paper}))
  \/ Within("link", /\ Sends(LinkIds) /\ OneByOne /\ NoRestores
                    /\ Untouched({topic, quiz, link})
                    /\ \A e \in {task, paper} : db'.row[e].payload \in {Empty, p, pLinked})

ScenarioInit == Init /\ scenario \in {"edit", "restore", "cascade", "link"}
ScenarioNext == Next /\ ScenarioStep /\ UNCHANGED scenario
ScenarioSpec == ScenarioInit /\ [][ScenarioNext]_<<vars, scenario>>

\* Every row shows in the ledger, where no older route writes beside it.
LedgerShowsItsRows ==
  scenario = "cascade" => \A d \in Databases : \A e \in Entity : ShowsRow(d, e)
=============================================================================
