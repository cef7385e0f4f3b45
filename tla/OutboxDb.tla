------------------------------ MODULE OutboxDb ------------------------------
(***************************************************************************)
(* The IndexedDB of one device (packages/offline): the entities, the       *)
(* outbox, the conflicts and the sync state of a workspace, and the        *)
(* readwrite transactions the sync library runs on them.  As in LedgerDb   *)
(* a database is a record and a transaction a function of it; one that     *)
(* throws leaves the store as it was.                                      *)
(*                                                                         *)
(*   state      bootstrap_state; "empty" before the first bootstrap        *)
(*   epoch      the epoch of the last bootstrap, None before it            *)
(*   cursor     the sequence up to which changes have been pulled          *)
(*   entity     [Entity -> visible row]                                    *)
(*   outbox     queued operations in queued_at order, with outbox_state    *)
(*   conflicts  conflict id -> local conflict record                       *)
(*   manifest   the complete bootstrap manifest: the last active snapshot  *)
(***************************************************************************)
EXTENDS LedgerDb

CONSTANT PushLimit     \* operations taken per push: slice(0, 100)

PullConflictId(change) == [pull |-> change.id]

Absent == [present |-> FALSE, version |-> 0, deleted |-> FALSE,
           payload |-> Empty, status |-> "clean"]

EmptyStore ==
  [state |-> "empty", epoch |-> None, cursor |-> 0,
   entity |-> [e \in Entity |-> Absent], outbox |-> <<>>, conflicts |-> <<>>,
   manifest |-> None]

\* canResumeSync.
CanResume(s) == s.epoch # None /\ s.state \in {"ready", "upgrade_required"}

Queued(s) == {s.outbox[i].op.id : i \in DOMAIN s.outbox}
Related(s, e) == {i \in DOMAIN s.outbox : s.outbox[i].op.entity = e}
StateOf(s, id) ==
  s.outbox[CHOOSE i \in DOMAIN s.outbox : s.outbox[i].op.id = id].state

SetOps(s, ids, state) ==
  [s EXCEPT !.outbox =
     [i \in DOMAIN @ |-> IF @[i].op.id \in ids THEN [@[i] EXCEPT !.state = state]
                         ELSE @[i]]]
DropOps(s, ids) ==
  [s EXCEPT !.outbox = Those(@, {i \in DOMAIN @ : @[i].op.id \notin ids})]
SetStatus(s, e, status) == [s EXCEPT !.entity[e].status = status]

\* Dexie's update of a missing key changes nothing.
SetConflict(s, c, status) ==
  IF c \in DOMAIN s.conflicts THEN [s EXCEPT !.conflicts[c].status = status] ELSE s

-----------------------------------------------------------------------------
(* OfflineRepository.commitMutation and listReadyOperations.               *)

\* The mutation the application builds from what it shows of the entity:
\* the base is the version it knows, the dependency the last queued
\* operation of the entity.
Mutation(s, device, id, type, e) ==
  LET related == Related(s, e)
      last == CHOOSE i \in related : \A j \in related : j <= i
  IN [id |-> id, device |-> device, entity |-> e, type |-> type,
      base |-> s.entity[e].version,
      deps |-> IF related = {} THEN {} ELSE {s.outbox[last].op.id},
      payload |-> IF type = "delete" THEN Empty ELSE id, res |-> None]

\* validateTransition and the stricter test of a deletion.
MayCommit(s, type, e) ==
  LET entity == s.entity[e]
  IN \/ type = "create" /\ ~entity.present
     \/ /\ type \in {"update", "delete"}
        /\ entity.present /\ entity.status # "conflict" /\ ~entity.deleted
        /\ type = "delete" =>
             \A i \in Related(s, e) :
               s.outbox[i].state \notin {"conflict", "blocked", "isolated"}

\* A deletion keeps the payload so that a refusal can restore the entity.
Commit(s, op) ==
  [s EXCEPT
     !.entity[op.entity] =
        [present |-> TRUE, version |-> op.base, deleted |-> op.type = "delete",
         payload |-> IF op.type = "delete" THEN @.payload ELSE op.payload,
         status |-> "pending"],
     !.outbox = Append(@, [op |-> op, state |-> "pending"])]

Ops(s) == [i \in DOMAIN s.outbox |-> s.outbox[i].op]

\* Mutant: only the newest operation of an entity is sent.
ReadyCoalesced(s) ==
  LET newest == {CHOOSE i \in Related(s, e) : \A j \in Related(s, e) : j <= i :
                   e \in {x \in Entity : Related(s, x) # {}}}
  IN Those(Ops(s), {i \in newest : s.outbox[i].state = "pending"})

\* What is pending, up to the limit, with everything queued that it depends
\* on, transitively: operations wait for the queued ones they depend on.
Ready(s) ==
  LET pending == {i \in DOMAIN s.outbox : s.outbox[i].state = "pending"}
      complete(I) == \A i \in I : \A j \in 1..(i - 1) :
                       s.outbox[j].op.id \in s.outbox[i].op.deps => j \in I
  IN Those(Ops(s), FirstOf(UNION {I \in SUBSET pending : complete(I)}, PushLimit))

-----------------------------------------------------------------------------
(* SyncClient: applying the results of a push.                             *)

\* Mutant: the entity becomes clean whatever is still queued for it.
AcknowledgeAsClean(s, op, result) ==
  [DropOps(s, {op.id}) EXCEPT !.entity[op.entity].version = result.version,
                              !.entity[op.entity].status = "clean"]

\* The operation has been answered for: its entity takes the version, and is
\* clean once nothing of it is queued; the conflict it resolves is closed.
Acknowledge(s, op, result) ==
  LET rest == DropOps(s, {op.id})
      left == {rest.outbox[i].state : i \in Related(rest, op.entity)}
      status == IF "conflict" \in left THEN "conflict"
                ELSE IF left # {} THEN "pending" ELSE "clean"
      moved == IF s.entity[op.entity].present
                 THEN [rest EXCEPT !.entity[op.entity].version = result.version,
                                   !.entity[op.entity].status = status]
                 ELSE rest
      resolving == {c \in DOMAIN s.conflicts :
                      /\ s.conflicts[c].status = "resolving"
                      /\ s.conflicts[c].resolution = op.id}
  IN IF op.res # None
       THEN SetConflict(moved, op.res.conflict, StatusOf(op.res.choice))
     ELSE IF resolving # {}
       THEN LET c == CHOOSE c \in resolving : TRUE
            IN SetConflict(moved, c, StatusOf(s.conflicts[c].requested))
     ELSE moved

\* The server recorded a conflict: it is kept with the local payload, and a
\* resolution that failed this way gives up the conflict it was for.
MeetConflict(s, op, result) ==
  LET told == result.conflict
      record == [entity |-> op.entity, status |-> "open", base |-> told.base,
                 payload |-> s.entity[op.entity].payload, local |-> told.local,
                 remoteVersion |-> told.remoteVersion,
                 remotePayload |-> told.remotePayload,
                 remoteDeleted |-> told.remoteDeleted, options |-> told.options,
                 source |-> op.id, resolution |-> None, requested |-> None,
                 recorded |-> TRUE]
      kept == [s EXCEPT !.conflicts = Put(@, told.id, record)]
      dropped == IF op.res = None THEN kept
                 ELSE SetConflict(kept, op.res.conflict, "dismissed")
  IN SetOps(SetStatus(dropped, op.entity, "conflict"), {op.id}, "conflict")

RefuseAsRejected(s, op) == SetOps(s, {op.id}, "rejected")

\* Rejected or blocked: the operation stays, and a refused deletion is undone
\* in the row, if there still is one.
Refuse(s, op) ==
  LET blocked == SetOps(s, {op.id}, "blocked")
  IN IF op.type = "delete" /\ s.entity[op.entity].present
       THEN SetStatus([blocked EXCEPT !.entity[op.entity].deleted = FALSE],
                      op.entity, "pending")
       ELSE blocked

ApplyResult(s, op, result) ==
  IF Succeeded(result) THEN Acknowledge(s, op, result)
  ELSE IF result.status = "conflict" THEN MeetConflict(s, op, result)
  ELSE Refuse(s, op)

\* One transaction applies all results, in order.
ApplyPush(s, ops, results) ==
  LET after[k \in 0..Len(ops)] ==
        IF k = 0 THEN s ELSE ApplyResult(after[k - 1], ops[k], results[k])
  IN [after[Len(ops)] EXCEPT !.state = "ready"]

-----------------------------------------------------------------------------
(* SyncClient: applying a pulled page.                                     *)

PullOptions(s, change) ==
  IF change.tombstone \/ s.entity[change.entity].deleted THEN {"keep_remote", "dismiss"}
  ELSE IF Kind[change.entity] = "resource" THEN ResolutionChoices
  ELSE IF Kind[change.entity] \in {"topic", "quiz_item"}
         THEN {"keep_local", "keep_remote", "dismiss"}
  ELSE {"keep_remote", "dismiss"}

\* An open conflict follows the remote version, and from then on is the
\* client's own.
Followed(conflict, change) ==
  IF /\ conflict.entity = change.entity
     /\ conflict.status = "open"
     /\ conflict.remoteVersion < change.version
  THEN [conflict EXCEPT !.remoteVersion = change.version,
                        !.remotePayload = change.payload,
                        !.remoteDeleted = change.tombstone,
                        !.options = IF change.tombstone THEN {"keep_remote", "dismiss"} ELSE @,
                        !.recorded = FALSE]
  ELSE conflict

\* An entity in conflict keeps its content.
FollowRemote(s, change) ==
  [s EXCEPT !.conflicts = [c \in DOMAIN @ |-> Followed(@[c], change)]]

\* A pending entity is never overwritten: the change becomes a conflict and
\* everything queued for the entity stops.
StopPending(s, change) ==
  LET e == change.entity
      related == Related(s, e)
      last == CHOOSE i \in related : \A j \in related : j <= i
      record == [entity |-> e, status |-> "open", base |-> s.entity[e].version,
                 payload |-> s.entity[e].payload, local |-> s.entity[e].payload,
                 remoteVersion |-> change.version, remotePayload |-> change.payload,
                 remoteDeleted |-> change.tombstone, options |-> PullOptions(s, change),
                 source |-> IF related = {} THEN None ELSE s.outbox[last].op.id,
                 resolution |-> None, requested |-> None, recorded |-> FALSE]
      kept == [s EXCEPT !.conflicts = Put(@, PullConflictId(change), record)]
  IN SetOps(SetStatus(kept, e, "conflict"),
            {s.outbox[i].op.id : i \in related}, "conflict")

\* Mutant: the server's content always wins.
ApplyOverwriting(s, change) ==
  [s EXCEPT !.entity[change.entity] =
     [present |-> TRUE, version |-> change.version, deleted |-> change.tombstone,
      payload |-> change.payload, status |-> "clean"]]

ApplyChange(s, change) ==
  IF s.entity[change.entity].status = "conflict" THEN FollowRemote(s, change)
  ELSE IF s.entity[change.entity].status = "pending" THEN StopPending(s, change)
  ELSE [s EXCEPT !.entity[change.entity] =
          [present |-> TRUE, version |-> change.version, deleted |-> change.tombstone,
           payload |-> change.payload, status |-> "clean"]]

\* applyPull: the page and the cursor in one transaction.
ApplyPull(s, page) ==
  LET after[k \in 0..Len(page.changes)] ==
        IF k = 0 THEN s ELSE ApplyChange(after[k - 1], page.changes[k])
  IN [after[Len(page.changes)] EXCEPT !.cursor = page.to, !.state = "ready"]

\* Mutant: the control is ignored.
IgnoreControl(s) == s
ApplyControl(s) == [s EXCEPT !.state = "rebootstrap_required"]

-----------------------------------------------------------------------------
(* BootstrapRepository: the transaction that activates a complete snapshot. *)

\* toLocalEntity
LocalEntity(record) ==
  [present |-> TRUE, version |-> record.version, deleted |-> FALSE,
   payload |-> record.payload, status |-> "clean"]

\* Mutant: the outbox goes on in the new epoch.
ActivateWithoutIsolation(s, snapshot) ==
  [s EXCEPT
     !.entity = [e \in Entity |->
       IF e \in DOMAIN snapshot.records THEN LocalEntity(snapshot.records[e]) ELSE Absent],
     !.epoch = snapshot.epoch, !.cursor = snapshot.cursor, !.state = "ready",
     !.manifest = snapshot]

\* Within an epoch local work is kept on top of the snapshot; a new epoch
\* isolates the outbox and drops the local rows.
ActivateNew(s, snapshot) ==
  LET changed == s.epoch # None /\ s.epoch # snapshot.epoch
      kept == IF changed THEN {} ELSE {e \in Entity : s.entity[e].status # "clean"}
      isolated == IF changed THEN SetOps(s, Queued(s), "isolated") ELSE s
  IN [isolated EXCEPT
        !.entity = [e \in Entity |->
          IF e \in kept THEN s.entity[e]
          ELSE IF e \in DOMAIN snapshot.records THEN LocalEntity(snapshot.records[e])
          ELSE Absent],
        !.epoch = snapshot.epoch, !.cursor = snapshot.cursor, !.state = "ready",
        !.manifest = snapshot]

\* The snapshot whose manifest is complete is a replay: it is acknowledged
\* and changes nothing, not even the state.
Activate(s, snapshot) ==
  IF s.manifest = snapshot THEN s ELSE ActivateNew(s, snapshot)

-----------------------------------------------------------------------------
(* ConflictRepository.queueResolution and dismiss.                         *)

MayResolve(s, c, choice) ==
  LET conflict == s.conflicts[c]
  IN /\ conflict.status = "open"
     /\ choice \in conflict.options \ {"dismiss"}
     /\ conflict.source # None
     /\ conflict.resolution = None
     /\ s.entity[conflict.entity].present
     /\ s.entity[conflict.entity].status = "conflict"
     /\ choice = "keep_local" => conflict.payload = conflict.local

\* removeRelatedOperations.
Replaced(s, conflict) ==
  {s.outbox[i].op.id : i \in {j \in Related(s, conflict.entity) :
     s.outbox[j].op.id = conflict.source \/ s.outbox[j].state = "conflict"}}

Chosen(conflict, choice, id) ==
  IF choice = "keep_local" THEN conflict.payload
  ELSE IF choice = "keep_remote" THEN conflict.remotePayload ELSE id

\* keep_remote of a conflict the server does not know stays on the device.
TakesRemoteLocally(conflict, choice) == ~conflict.recorded /\ choice = "keep_remote"

ResolutionOp(device, id, c, conflict, choice) ==
  LET deletes == choice = "keep_remote" /\ conflict.remoteDeleted
  IN [id |-> id, device |-> device, entity |-> conflict.entity,
      type |-> IF deletes THEN "delete" ELSE "update",
      base |-> conflict.remoteVersion, deps |-> {},
      payload |-> IF deletes THEN Empty ELSE Chosen(conflict, choice, id),
      res |-> IF conflict.recorded
                THEN [conflict |-> c, choice |-> choice,
                      expected |-> conflict.remoteVersion]
                ELSE None]

\* The record of a conflict that has been decided.
Decided(record, local, choice, id) ==
  [record EXCEPT !.status = IF local THEN "resolved_remote" ELSE "resolving",
                 !.resolution = IF local THEN @ ELSE id,
                 !.requested = choice]

\* conflict is the record as it was read before the transaction.
QueueResolution(s, device, id, c, conflict, choice) ==
  LET local == TakesRemoteLocally(conflict, choice)
      cleared == DropOps(s, Replaced(s, conflict))
      shown == [present |-> TRUE, version |-> conflict.remoteVersion,
                deleted |-> choice = "keep_remote" /\ conflict.remoteDeleted,
                payload |-> Chosen(conflict, choice, id),
                status |-> IF local THEN "clean" ELSE "pending"]
  IN [cleared EXCEPT
        !.entity[conflict.entity] = IF @.present THEN shown ELSE @,
        !.outbox = IF local THEN @
                   ELSE Append(@, [op |-> ResolutionOp(device, id, c, conflict, choice),
                                   state |-> "pending"]),
        !.conflicts[c] = Decided(@, local, choice, id)]

MayDismiss(s, c) ==
  s.conflicts[c].status = "open" /\ "dismiss" \in s.conflicts[c].options
Dismiss(s, c) == SetConflict(s, c, "dismissed")

=============================================================================
