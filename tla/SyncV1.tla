------------------------------- MODULE SyncV1 -------------------------------
(***************************************************************************)
(* sync-v1 end to end: the devices' local stores, the sync cycles their    *)
(* tabs run, and the server.  A cycle is SyncClient.synchronize behind     *)
(* ensureBootstrap: bootstrap if the store cannot resume, else push what   *)
(* is ready, then pull page after page.  Users edit and resolve conflicts  *)
(* between any two steps.  A cycle dies at any point (tab closed, network  *)
(* lost, lost response), and a push it had sent may still reach the server *)
(* afterwards.  Nothing in the client keeps two tabs from running a cycle  *)
(* over the same store: a device has as many cycles as it has tabs.        *)
(*                                                                         *)
(* The server runs a push atomically here; SyncLedger opens it up.         *)
(***************************************************************************)
EXTENDS OutboxDb

CONSTANTS
  Tab,          \* tabs that run sync cycles
  DeviceOf,     \* [Tab -> Device]
  Draws,        \* [Device -> SUBSET OpId]: the ids the device will draw
  Creator,      \* [Entity -> Device]: who creates the entity
  Edits,        \* subset of {"create", "update", "delete"}: what users do
  Picks,        \* subset of ResolutionChoices: how users resolve
  LifecycleId,  \* ids for space lifecycle changes
  PageLimit,    \* changes per pulled page
  MaxLate,      \* bound: abandoned pushes still on their way
  MaxEpoch      \* bound: restores

ASSUME SyncAssumption ==
  /\ Device # {}
  /\ DeviceOf \in [Tab -> Device]
  /\ Draws \in [Device -> SUBSET OpId]
  /\ \A d \in Device : Draws[d] \cap LifecycleId = {}
  /\ LifecycleId \subseteq OpId
  /\ OpId \subseteq Payload
  /\ Edits \subseteq {"create", "update", "delete"}
  /\ Picks \subseteq ResolutionChoices
  /\ None \notin Nat
  /\ PageLimit \in Nat \ {0} /\ PushLimit \in Nat \ {0}

VARIABLES
  db,       \* the server's database
  backup,   \* the last dump of it
  store,    \* [Device -> the device's IndexedDB]
  choosing, \* [Device -> the resolution queueResolution is preparing, or None]
  cycle,    \* [Tab -> what the tab's sync cycle is doing]
  late,     \* pushes sent by cycles that have died
  issued,   \* history: operation id -> operation, with the epoch it was made in
  replaced, \* history: operations a user's resolution took out of an outbox
  settled,  \* history: operations whose acknowledgement the store has taken
  overtaken \* history: operations a resolution left in an outbox that nothing shows

vars == <<db, backup, store, choosing, cycle, late, issued, replaced, settled, overtaken>>
server == <<db, backup>>
history == <<issued, replaced, settled, overtaken>>

Idle == [at |-> "idle"]

Init ==
  /\ db = EmptyDb
  /\ backup = EmptyDb
  /\ store = [d \in Device |-> EmptyStore]
  /\ choosing = [d \in Device |-> None]
  /\ cycle = [t \in Tab |-> Idle]
  /\ late = {}
  /\ issued = <<>>
  /\ replaced = {}
  /\ settled = {}
  /\ overtaken = {}

-----------------------------------------------------------------------------
(* The user.                                                               *)

Fresh(d) == {id \in Draws[d] : id \notin DOMAIN issued}

Issue(d, op) ==
  issued' = Put(issued, op.id, [op |-> op, epoch |-> store[d].epoch])

Edit(d, e, type) ==
  /\ CanResume(store[d])
  /\ type \in Edits
  /\ type = "create" => Creator[e] = d
  /\ MayCommit(store[d], type, e)
  /\ Fresh(d) # {}
  /\ LET op == Mutation(store[d], d, CHOOSE id \in Fresh(d) : TRUE, type, e)
     IN store' = [store EXCEPT ![d] = Commit(@, op)] /\ Issue(d, op)
  /\ UNCHANGED <<server, choosing, cycle, late, replaced, settled, overtaken>>

\* queueResolution reads the conflict, and hashes and seals the payload it
\* chose before it opens its transaction.
ChooseResolution(d, c, choice) ==
  /\ choosing[d] = None
  /\ c \in DOMAIN store[d].conflicts
  /\ choice \in Picks
  /\ MayResolve(store[d], c, choice)
  /\ Fresh(d) # {} \/ TakesRemoteLocally(store[d].conflicts[c], choice)
  /\ choosing' = [choosing EXCEPT ![d] =
                   [id |-> c, choice |-> choice, conflict |-> store[d].conflicts[c]]]
  /\ UNCHANGED <<server, store, cycle, late, history>>

\* What is queued for the entity beside what a resolution takes out.
Overtaken(s, conflict) ==
  {s.outbox[i].op.id : i \in Related(s, conflict.entity)} \ Replaced(s, conflict)

\* Dexie's update of a missing key changes nothing: the resolution of an entity
\* that a bootstrap has taken away since the conflict was read is queued, and
\* nothing shows it.
Unseen(s, conflict, choice, id) ==
  IF s.entity[conflict.entity].present \/ TakesRemoteLocally(conflict, choice) THEN {}
  ELSE {id}

\* The transaction writes what was read; it does not read the conflict again.
CommitResolution(d) ==
  /\ choosing[d] # None
  /\ Fresh(d) # {} \/ TakesRemoteLocally(choosing[d].conflict, choosing[d].choice)
  /\ LET id == CHOOSE x \in Fresh(d) : TRUE
         c == choosing[d].id
         choice == choosing[d].choice
         conflict == choosing[d].conflict
     IN /\ store' = [store EXCEPT ![d] = QueueResolution(@, d, id, c, conflict, choice)]
        /\ replaced' = replaced \cup Replaced(store[d], conflict)
        /\ overtaken' = overtaken \cup Overtaken(store[d], conflict)
                                  \cup Unseen(store[d], conflict, choice, id)
        /\ IF TakesRemoteLocally(conflict, choice) THEN UNCHANGED issued
           ELSE Issue(d, ResolutionOp(d, id, c, conflict, choice))
  /\ choosing' = [choosing EXCEPT ![d] = None]
  /\ UNCHANGED <<server, cycle, late, settled>>

DismissConflict(d, c) ==
  /\ "dismiss" \in Picks
  /\ c \in DOMAIN store[d].conflicts
  /\ MayDismiss(store[d], c)
  /\ store' = [store EXCEPT ![d] = Dismiss(@, c)]
  /\ UNCHANGED <<server, choosing, cycle, late, history>>

-----------------------------------------------------------------------------
(* A sync cycle.                                                           *)

Moves(t, next) == cycle' = [cycle EXCEPT ![t] = next]
Here(t) == store[DeviceOf[t]]
Stores(t, s) == store' = [store EXCEPT ![DeviceOf[t]] = s]

\* ensureBootstrap: the server answers with a snapshot of its head.
RequestBootstrap(t) ==
  /\ cycle[t] = Idle
  /\ Here(t).state # "ready"
  /\ Moves(t, [at |-> "activate", snapshot |-> Snapshot(db)])
  /\ UNCHANGED <<server, store, choosing, late, history>>

ActivateSnapshot(t) ==
  /\ cycle[t].at = "activate"
  /\ Stores(t, Activate(Here(t), cycle[t].snapshot))
  /\ Moves(t, Idle)
  /\ UNCHANGED <<server, choosing, late, history>>

\* pushReady up to the request.
StartCycle(t) ==
  /\ cycle[t] = Idle
  /\ CanResume(Here(t))
  /\ LET ops == Ready(Here(t))
     IN Moves(t, IF ops = <<>> THEN [at |-> "pull"]
                 ELSE [at |-> "push", ops |-> ops, epoch |-> Here(t).epoch])
  /\ UNCHANGED <<server, store, choosing, late, history>>

\* One iteration of SyncPushService.push: an operation waits for those of its
\* dependencies that share the batch.
PushOp(done, ops, k) ==
  LET op == ops[k]
      known == {ops[i].id : i \in DOMAIN ops}
      applied == {done.results[j].op : j \in {i \in DOMAIN done.results :
                                                 Succeeded(done.results[i])}}
      reply == IF (op.deps \cap known) \subseteq applied THEN ApplyOne(done.db, op)
               ELSE [db |-> done.db,
                     result |-> Result(op, "blocked_dependency", 0, 0, None)]
  IN [db |-> reply.db, results |-> Append(done.results, reply.result)]

\* SyncPushService.push on a batch, inside one transaction.
Push(d, ops) ==
  LET done[k \in 0..Len(ops)] ==
        IF k = 0 THEN [db |-> d, results |-> <<>>] ELSE PushOp(done[k - 1], ops, k)
  IN done[Len(ops)]

ServerPush(t) ==
  /\ cycle[t].at = "push"
  /\ IF cycle[t].epoch = db.epoch
       THEN LET pushed == Push(db, cycle[t].ops)
            IN /\ db' = pushed.db
               /\ Moves(t, [at |-> "results", ops |-> cycle[t].ops,
                            results |-> pushed.results])
       ELSE Moves(t, [at |-> "control"]) /\ UNCHANGED db
  /\ UNCHANGED <<backup, store, choosing, late, history>>

\* A conflict about an entity the store no longer has fails the transaction
\* and with it the cycle.
ReceiveResults(t) ==
  /\ cycle[t].at = "results"
  /\ LET ops == cycle[t].ops
         results == cycle[t].results
     IN IF \A i \in DOMAIN ops : results[i].status = "conflict" =>
                                   Here(t).entity[ops[i].entity].present
        THEN /\ Stores(t, ApplyPush(Here(t), ops, results))
             /\ Moves(t, [at |-> "pull"])
             /\ settled' = settled \cup
                  {ops[i].id : i \in {j \in DOMAIN ops : Succeeded(results[j])}}
        ELSE Moves(t, Idle) /\ UNCHANGED <<store, settled>>
  /\ UNCHANGED <<server, choosing, late, issued, replaced, overtaken>>

ReceiveControl(t) ==
  /\ cycle[t].at = "control"
  /\ Stores(t, ApplyControl(Here(t)))
  /\ Moves(t, Idle)
  /\ UNCHANGED <<server, choosing, late, history>>

\* pullPages reads the state again before every page.
RequestPage(t) ==
  /\ cycle[t].at = "pull"
  /\ IF ~CanResume(Here(t)) THEN Moves(t, Idle)
     ELSE IF Here(t).epoch # db.epoch \/ Here(t).cursor < db.retained
       THEN Moves(t, [at |-> "control"])
     ELSE Moves(t, [at |-> "page", page |-> Page(db, Here(t).cursor, PageLimit)])
  /\ UNCHANGED <<server, store, choosing, late, history>>

ReceivePage(t) ==
  /\ cycle[t].at = "page"
  /\ Stores(t, ApplyPull(Here(t), cycle[t].page))
  /\ Moves(t, IF cycle[t].page.more THEN [at |-> "pull"] ELSE Idle)
  /\ UNCHANGED <<server, choosing, late, history>>

-----------------------------------------------------------------------------
(* Failures and the server's own changes.                                  *)

\* The tab closes or gives up; a push that had been sent may be lost or may
\* still arrive.
Abandon(t) ==
  /\ cycle[t] # Idle
  /\ Moves(t, Idle)
  /\ \/ UNCHANGED late
     \/ /\ cycle[t].at = "push"
        /\ Cardinality(late) < MaxLate
        /\ late' = late \cup {[ops |-> cycle[t].ops, epoch |-> cycle[t].epoch]}
  /\ UNCHANGED <<server, store, choosing, history>>

LatePush(m) ==
  /\ m \in late
  /\ late' = late \ {m}
  /\ db' = IF m.epoch = db.epoch THEN Push(db, m.ops).db ELSE db
  /\ UNCHANGED <<backup, store, choosing, cycle, history>>

Lifecycle(id) ==
  /\ id \in LifecycleId \ DOMAIN db.processed
  /\ db' = ToggleSpace(db, id, CHOOSE d \in Device : TRUE)
  /\ UNCHANGED <<backup, store, choosing, cycle, late, history>>

TakeBackup ==
  /\ db.epoch < MaxEpoch
  /\ backup # db
  /\ backup' = db
  /\ UNCHANGED <<db, store, choosing, cycle, late, history>>

RestoreBackup ==
  /\ db.epoch < MaxEpoch
  /\ db' = [backup EXCEPT !.epoch = db.epoch + 1]
  /\ UNCHANGED <<backup, store, choosing, cycle, late, history>>

-----------------------------------------------------------------------------

User ==
  \/ \E d \in Device, e \in Entity, type \in Edits : Edit(d, e, type)
  \/ \E d \in Device : \E c \in DOMAIN store[d].conflicts :
       \/ \E choice \in ResolutionChoices : ChooseResolution(d, c, choice)
       \/ DismissConflict(d, c)
  \/ \E d \in Device : CommitResolution(d)

Step(t) ==
  \/ RequestBootstrap(t) \/ ActivateSnapshot(t)
  \/ StartCycle(t) \/ ServerPush(t) \/ ReceiveResults(t) \/ ReceiveControl(t)
  \/ RequestPage(t) \/ ReceivePage(t)

Fault ==
  \/ \E t \in Tab : Abandon(t)
  \/ \E m \in late : LatePush(m)

Server ==
  \/ \E id \in LifecycleId : Lifecycle(id)
  \/ TakeBackup
  \/ RestoreBackup

Next == User \/ (\E t \in Tab : Step(t)) \/ Fault \/ Server

Spec == Init /\ [][Next]_vars

\* The three kinds of step of a cycle: it starts, the server answers it, the
\* store takes the answer.
Starts(t) == RequestBootstrap(t) \/ StartCycle(t)
Answers(t) == ServerPush(t) \/ RequestPage(t)
Takes(t) ==
  ActivateSnapshot(t) \/ ReceiveResults(t) \/ ReceiveControl(t) \/ ReceivePage(t)

\* Users may stop and any cycle may die, but cycles keep being started (when
\* the page mounts, after every mutation, by the sync button), and neither
\* the answer nor its transaction fails for ever.
Fairness == \A t \in Tab : WF_vars(Starts(t)) /\ SF_vars(Answers(t)) /\ SF_vars(Takes(t))
FairSpec == Spec /\ Fairness

-----------------------------------------------------------------------------
(* What the devices may rely on.                                           *)

ChangesOf(e) == {i \in DOMAIN db.changes : db.changes[i].entity = e}
ShownBy(entity) == IF entity.deleted THEN Empty ELSE entity.payload

\* The types of the devices' stores: the outbox holds operations of its own
\* device, one per id, in one of the states of outbox_state.
TypeOK ==
  /\ \A d \in Device :
       /\ store[d].state \in {"empty", "ready", "upgrade_required", "rebootstrap_required"}
       /\ store[d].cursor \in Nat
       /\ store[d].entity \in
            [Entity -> [present : BOOLEAN, version : Nat, deleted : BOOLEAN,
                        payload : Content, status : {"clean", "pending", "conflict"}]]
       /\ \A i \in DOMAIN store[d].outbox :
            /\ store[d].outbox[i].op \in Operation
            /\ store[d].outbox[i].op.device = d
            /\ store[d].outbox[i].state \in {"pending", "conflict", "blocked", "isolated"}
       /\ Cardinality(Queued(store[d])) = Len(store[d].outbox)
  /\ DOMAIN issued \subseteq OpId
  /\ replaced \cup settled \cup overtaken \subseteq OpId

\* What a user has done is never lost on the way: an operation stays in the
\* outbox of its device until the device has taken its acknowledgement or the
\* user has replaced it by a resolution, and what was acknowledged is in the
\* ledger unless its epoch has been restored away (pushReady deletes an outbox
\* row only on applied or duplicate; isolation keeps it).
LocalWorkIsKept ==
  \A id \in DOMAIN issued :
    \/ id \in Queued(store[issued[id].op.device])
    \/ id \in replaced
    \/ id \in settled /\ (id \in DOMAIN db.processed \/ issued[id].epoch # db.epoch)

\* While anything of an entity waits to be sent or to be decided, the entity
\* shows the last of it: neither a pulled page, nor the acknowledgement of an
\* earlier edit, nor a bootstrap within the epoch puts the server's content
\* in its place.  Two kinds of work may stay in the outbox unseen: an edit that a
\* resolution has overtaken, since removeRelatedOperations leaves it there, and
\* the resolution of an entity that a restore's bootstrap has removed while
\* queueResolution was preparing it.  A deletion is taken back where an
\* operation of the entity was refused.
QueuedWorkIsShown ==
  \A d \in Device, e \in Entity :
    LET queued(i) == store[d].outbox[i]
        waiting == {i \in Related(store[d], e) :
                      queued(i).state # "isolated" /\ queued(i).op.id \notin overtaken}
        last == queued(CHOOSE i \in waiting : \A j \in waiting : j <= i)
        entity == store[d].entity[e]
    IN waiting # {} =>
         /\ entity.present /\ entity.status # "clean"
         /\ IF last.op.type = "delete"
              THEN \/ entity.deleted \/ last.state # "pending"
                   \/ \E i \in Related(store[d], e) : queued(i).state = "blocked"
              ELSE ~entity.deleted /\ entity.payload = last.op.payload

\* An entity shown as clean, in the epoch of the server, shows exactly what
\* the ledger holds for its version: base_version of the next edit stands for
\* the content its author saw.
CleanMatchesLedger ==
  \A d \in Device, e \in Entity :
    LET entity == store[d].entity[e]
    IN store[d].epoch = db.epoch /\ entity.present /\ entity.status = "clean" =>
         \E i \in ChangesOf(e) :
           /\ db.changes[i].version = entity.version
           /\ db.changes[i].payload = ShownBy(entity)

\* An operation takes effect only in the epoch its user made it in: what a
\* restore isolated is never replayed (invariant 6 of sync-v1).
AppliedInItsEpoch ==
  \A i \in DOMAIN db.changes :
    LET c == db.changes[i]
    IN c.id \in DOMAIN issued => c.epoch = issued[c.id].epoch

\* The server applies an edit only after the edit its author made it on top
\* of, or after a resolution has taken that one's place: no order of retries,
\* late pushes and new edits reverses a device's own work (listReadyOperations
\* and the dependency test of push).
CausalOrder ==
  \A i \in DOMAIN db.changes :
    db.changes[i].id \in DOMAIN issued =>
      \A dep \in issued[db.changes[i].id].op.deps :
        dep \in replaced \/ \E j \in 1..(i - 1) : db.changes[j].id = dep

\* Within an epoch the cursor of a replica never moves back (invariant 4 of
\* sync-v1: next_cursor never goes backwards).
GoesForward(d) ==
  store'[d].epoch = store[d].epoch => store[d].cursor <= store'[d].cursor
CursorForward == [][\A d \in Device : GoesForward(d)]_vars

\* A cursor that has passed a change means that the change has been taken:
\* an entity shown as clean is not older than any of them, unless its
\* deletion is still to come (Visible withholds the changes before it).
CleanIsCurrent ==
  \A d \in Device, e \in Entity :
    LET entity == store[d].entity[e]
    IN store[d].epoch = db.epoch /\ entity.present /\ entity.status = "clean" =>
         \A i \in ChangesOf(e) :
           i <= store[d].cursor =>
             \/ db.changes[i].version <= entity.version
             \/ \E j \in ChangesOf(e) : j > store[d].cursor /\ db.changes[j].tombstone

\* No last write wins: a status update replaces only what its device knew,
\* so the versions above its base are the device's own (invariant 5 of
\* sync-v1).
NoLastWriteWins ==
  \A i \in DOMAIN db.changes :
    LET c == db.changes[i]
    IN c.id \in DOMAIN issued /\ issued[c.id].op.res = None =>
         \A j \in ChangesOf(c.entity) :
           j < i /\ db.changes[j].version > issued[c.id].op.base =>
             /\ db.changes[j].id \in DOMAIN issued
             /\ issued[db.changes[j].id].op.device = issued[c.id].op.device

\* A replica at the head of the ledger, with what the server holds in every
\* entity it shows as clean.
AtHead(d) ==
  /\ store[d].epoch = db.epoch
  /\ store[d].cursor = Len(db.changes)
  /\ \A e \in Entity :
       store[d].entity[e].status = "clean" =>
         IF Live(db, e) /\ ~db.space.archived
           THEN /\ store[d].entity[e].present
                /\ store[d].entity[e].version = db.row[e].version
                /\ store[d].entity[e].payload = db.row[e].payload
           ELSE ~store[d].entity[e].present \/ store[d].entity[e].deleted

\* Once users stop, every replica ends at the head with nothing left to send,
\* whatever cycles died on the way.
Converges == <>[](\A d \in Device : AtHead(d) /\ Ready(store[d]) = <<>>)

\* A restore of the server neither loses what was queued on a device nor has
\* it replayed on top of another history.
WorkSurvivesRestore == LocalWorkIsKept /\ AppliedInItsEpoch

\* Both: what is shown as clean is neither invented nor out of date.
CleanIsTrue == CleanMatchesLedger /\ CleanIsCurrent
=============================================================================
