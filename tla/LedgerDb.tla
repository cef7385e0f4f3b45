------------------------------ MODULE LedgerDb ------------------------------
(***************************************************************************)
(* The rows one workspace keeps in PostgreSQL for sync-v1, and what the    *)
(* handlers of a push do to them: sync/service.py (the change ledger and   *)
(* the idempotency table), sync/push.py (one operation of a batch) and     *)
(* sync/deletion.py (the scope of a deletion).                             *)
(*                                                                         *)
(* A database is a record, so that a transaction is a private copy of it   *)
(* which commit installs and rollback drops.  Every operator here is a     *)
(* function of a database; the modules that have a state use them.         *)
(*                                                                         *)
(*   epoch      workspace_sync_states.sync_epoch                           *)
(*   changes    the rows of workspace_changes, index = sequence            *)
(*   processed  processed_sync_operations: operation id -> operation       *)
(*   row        the domain tables: version 0 is "no such row"              *)
(*   conflicts  sync_conflicts: conflict id -> record                      *)
(*   retained   workspace_sync_states.min_retained_sequence                *)
(*   space      the Space all entities live in: its version, and whether   *)
(*              it is archived                                             *)
(***************************************************************************)
EXTENDS Naturals, Sequences, FiniteSets, SequencesExt

CONSTANTS
  OpId,      \* operation ids a client or a REST handler draws (uuid7)
  Device,    \* registered devices
  Entity,    \* entity ids of the workspace
  Kind,      \* [Entity -> Kinds]: entity_type
  Parent,    \* [Entity -> Entity \cup {None}]: the task or topic an entity names
  Payload,   \* payload hashes, one per distinct content
  Invalid,   \* payloads the request schema or the domain service refuses
  Unlink,    \* [Payload -> Payload]: the projection with task_id cleared
  Empty,     \* the hash of {}
  Space,     \* entity id of the space row
  None

Kinds == {"topic", "quiz_item", "source_link", "task", "resource"}
DeleteModels == {"topic", "quiz_item", "task"}     \* DELETE_MODELS
UpdateHandlers == {"topic", "quiz_item", "task", "resource"}

\* The kinds an entity may name: QuizItem.topic_id, Resource.task_id, and the
\* target of a KnowledgeSourceLink.
ParentKinds ==
  [quiz_item |-> {"topic"}, source_link |-> {"topic", "quiz_item"},
   resource |-> {"task"}, topic |-> {}, task |-> {}]

ASSUME LedgerConstants ==
  /\ Kind \in [Entity -> Kinds]
  /\ Parent \in [Entity -> Entity \cup {None}]
  /\ \A e \in Entity : Parent[e] # None => Kind[Parent[e]] \in ParentKinds[Kind[e]]
  /\ Unlink \in [Payload -> Payload]
  /\ \A p \in Payload : Unlink[Unlink[p]] = Unlink[p]
  /\ Invalid \subseteq Payload
  /\ Empty \notin Payload
  /\ Space \notin Entity
  /\ None \notin Entity
  /\ IsFiniteSet(Entity)
  /\ \A o \in OpId, e \in Entity : <<o, e>> \notin OpId

\* _append_derived names a derived operation uuid5(root operation, suffix).
DerivedId(o, e) == <<o, e>>
AnyId == OpId \cup {DerivedId(o, e) : o \in OpId, e \in Entity}

Content == Payload \cup {Empty}
ConflictId == [op : OpId, version : Nat, payload : Content]
ResolutionChoices == {"keep_local", "keep_remote", "merge", "dismiss"}
Resolution == [conflict : ConflictId, choice : ResolutionChoices, expected : Nat]
Operation == [id : OpId, device : Device, entity : Entity,
              type : {"create", "update", "delete"}, base : Nat,
              deps : SUBSET OpId, payload : Content,
              res : Resolution \cup {None}]

Put(f, k, v) == [x \in DOMAIN f \cup {k} |-> IF x = k THEN v ELSE f[x]]

\* How many of the positions I are no later than i, the first n of them, and
\* what q has at them, in their order.
Rank(I, i) == Cardinality({j \in I : j <= i})
FirstOf(I, n) == {i \in I : Rank(I, i) <= n}
Those(q, I) == [k \in 1..Cardinality(I) |-> q[CHOOSE i \in I : Rank(I, i) = k]]

-----------------------------------------------------------------------------
(* Reading the database.                                                   *)

Exists(db, e) == db.row[e].version > 0
Live(db, e) == Exists(db, e) /\ ~db.row[e].deleted
Gone(db, e) == Exists(db, e) /\ db.row[e].deleted

\* What a conflict or a replica is shown of an entity.
Shown(db, e) == IF db.row[e].deleted THEN Empty ELSE db.row[e].payload

\* A resource names its task only while task_id is set; the other kinds
\* name their parent for good.
Names(e, p) == Parent[e] # None /\ (Kind[e] = "resource" => Unlink[p] # p)

\* deletion_scope: what follows a deletion, what is detached by it, and the
\* live references that forbid it.
Followers(db, e) ==
  {c \in Entity : Kind[c] = "source_link" /\ Parent[c] = e /\ Live(db, c)}
\* Mutant: nothing is detached or blocks.
NoReferences(db, e) == {}
Detached(db, e) ==
  {c \in Entity : /\ Kind[c] = "resource" /\ Parent[c] = e /\ Live(db, c)
                  /\ Names(c, db.row[c].payload)}
Blockers(db, e) ==
  {c \in Entity : Kind[c] = "quiz_item" /\ Parent[c] = e /\ Live(db, c)}

\* _causal_base_version and the predecessors of _delete_entity: processed
\* operations among the dependencies, of this device, on this entity.
Predecessors(db, op) ==
  {d \in op.deps \cap DOMAIN db.processed :
     /\ db.processed[d].device = op.device
     /\ db.processed[d].entity = op.entity}

\* An update that names a processed predecessor is checked against the
\* version the row has now; one that names none, against its own base.
CausalBase(db, op) ==
  IF Predecessors(db, op) # {} THEN db.row[op.entity].version ELSE op.base

\* A deletion is checked against the newest version its predecessors wrote.
DeleteBase(db, op) ==
  LET written == {db.changes[i].version :
                    i \in {j \in DOMAIN db.changes :
                             db.changes[j].id \in Predecessors(db, op)}}
  IN IF written = {} THEN op.base
     ELSE CHOOSE v \in written : \A w \in written : w <= v

-----------------------------------------------------------------------------
(* Results and the effects a handler can have.                             *)

Result(op, status, version, seq, conflict) ==
  [op |-> op.id, status |-> status, version |-> version, seq |-> seq,
   conflict |-> conflict]
Reject(db, op) ==
  [db |-> db, result |-> Result(op, "rejected", 0, 0, None)]

ChangeRow(id, e, version, payload, tombstone, epoch) ==
  [id |-> id, entity |-> e, version |-> version, payload |-> payload,
   tombstone |-> tombstone, epoch |-> epoch]

\* append_applied: the sequence, the idempotency row and the change row.
AppendApplied(db, op, version, payload, tombstone) ==
  [db EXCEPT
     !.changes = Append(@, ChangeRow(op.id, op.entity, version, payload,
                                     tombstone, db.epoch)),
     !.processed = Put(@, op.id, op)]

Applied(db, op, version) ==
  [db |-> db, result |-> Result(op, "applied", version, Len(db.changes), None)]

\* find_replay answers with the version and sequence of the first delivery,
\* and refuses an id that returns with any other content.
Replay(db, op) ==
  LET seq == CHOOSE i \in DOMAIN db.changes : db.changes[i].id = op.id
  IN IF db.processed[op.id] = op
       THEN [db |-> db,
             result |-> Result(op, "duplicate", db.changes[seq].version, seq, None)]
       ELSE Reject(db, op)

OptionsFor(op, deleted) ==
  IF op.type = "delete" \/ deleted THEN {"keep_remote", "dismiss"}
  ELSE IF Kind[op.entity] = "resource" THEN ResolutionChoices
  ELSE IF Kind[op.entity] \in {"topic", "quiz_item"}
         THEN {"keep_local", "keep_remote", "dismiss"}
  ELSE {"keep_remote", "dismiss"}

\* _api_error_result for RESOURCE_VERSION_CONFLICT: the record is inserted
\* ON CONFLICT (conflict_id) DO NOTHING.
Conflicting(db, op) ==
  LET e == op.entity
      remote == db.row[e]
      id == [op |-> op.id, version |-> remote.version, payload |-> Shown(db, e)]
      record == [device |-> op.device, entity |-> e, base |-> op.base,
                 local |-> op.payload, remoteVersion |-> remote.version,
                 remotePayload |-> Shown(db, e), remoteDeleted |-> remote.deleted,
                 options |-> OptionsFor(op, remote.deleted),
                 status |-> "open", resolvedBy |-> None]
      after == IF id \in DOMAIN db.conflicts THEN db
               ELSE [db EXCEPT !.conflicts = Put(@, id, record)]
  IN [db |-> after,
      result |-> Result(op, "conflict", remote.version, 0,
                        [id |-> id, base |-> op.base, local |-> op.payload,
                         remoteVersion |-> remote.version,
                         remotePayload |-> Shown(db, e),
                         remoteDeleted |-> remote.deleted,
                         options |-> OptionsFor(op, remote.deleted)])]

-----------------------------------------------------------------------------
(* The handlers.                                                           *)

\* The domain service that writes the row: a fresh row has version 1.
Write(db, op) ==
  LET version == db.row[op.entity].version + 1
      written == [db EXCEPT !.row[op.entity] =
                    [version |-> version, deleted |-> FALSE, payload |-> op.payload]]
  IN Applied(AppendApplied(written, op, version, op.payload, FALSE), op, version)

\* The service answers 404 for an archived space or a parent that is not live.
Refused(db, op) ==
  \/ op.payload \notin Payload \ Invalid
  \/ db.space.archived
  \/ Names(op.entity, op.payload) /\ ~Live(db, Parent[op.entity])

Create(db, op) ==
  IF op.base # 0 \/ Refused(db, op) THEN Reject(db, op)
  ELSE IF Exists(db, op.entity) THEN Conflicting(db, op)
  ELSE Write(db, op)

Update(db, op) ==
  IF \/ Kind[op.entity] \notin UpdateHandlers
     \/ CausalBase(db, op) = 0
     \/ Refused(db, op)
     \/ ~Live(db, op.entity)
  THEN Reject(db, op)
  ELSE IF db.row[op.entity].version # CausalBase(db, op) THEN Conflicting(db, op)
  ELSE Write(db, op)

\* Mutants: the cascade changes the rows but derives no change for them, or
\* derives changes without their idempotency rows.
CascadeWithoutChanges(db, op) ==
  LET version == db.row[op.entity].version + 1
      gone == Followers(db, op.entity) \cup {op.entity}
      rows == [e \in Entity |-> IF e \in gone
                 THEN [db.row[e] EXCEPT !.version = @ + 1, !.deleted = TRUE]
                 ELSE db.row[e]]
  IN Applied(AppendApplied([db EXCEPT !.row = rows], op, version, Empty, TRUE), op, version)
CascadeWithoutIdentities(db, op) ==
  LET reply == CascadeWithoutChanges(db, op)
      child(e) == ChangeRow(DerivedId(op.id, e), e, reply.db.row[e].version, Empty,
                            TRUE, db.epoch)
      order == SetToSeq(Followers(db, op.entity) \ {op.entity})
  IN [reply EXCEPT !.db.changes = @ \o [i \in DOMAIN order |-> child(order[i])]]
\* Mutant: a detached resource keeps its version.
DetachWithoutVersion(db, op) ==
  LET detach == Detached(db, op.entity)
      version == db.row[op.entity].version + 1
      rows == [e \in Entity |->
                 IF e = op.entity THEN [db.row[e] EXCEPT !.version = version, !.deleted = TRUE]
                 ELSE IF e \in detach THEN [db.row[e] EXCEPT !.payload = Unlink[@]]
                 ELSE db.row[e]]
      order == SetToSeq(detach)
      child(e) == ChangeRow(DerivedId(op.id, e), e, rows[e].version, rows[e].payload,
                            FALSE, db.epoch)
      logged == [db EXCEPT !.row = rows,
                           !.changes = @ \o [i \in DOMAIN order |-> child(order[i])]]
  IN Applied(AppendApplied(logged, op, version, Empty, TRUE), op, version)

\* _delete_entity after its checks: followers are deleted and resources
\* detached, each with a derived change, then the root with its own.
DeleteWithScope(db, op) ==
  LET follow == Followers(db, op.entity) \ {op.entity}
      detach == Detached(db, op.entity) \ {op.entity}
      order == SetToSeq(follow \cup detach)
      after == [e \in Entity |->
                  IF e = op.entity \/ e \in follow
                    THEN [db.row[e] EXCEPT !.version = @ + 1, !.deleted = TRUE]
                  ELSE IF e \in detach
                    THEN [db.row[e] EXCEPT !.version = @ + 1, !.payload = Unlink[@]]
                  ELSE db.row[e]]
      derived(e) == [op EXCEPT !.id = DerivedId(op.id, e), !.entity = e,
                               !.type = IF e \in follow THEN "delete" ELSE "update",
                               !.payload = IF e \in follow THEN Empty ELSE after[e].payload]
      rows == [i \in DOMAIN order |->
                 ChangeRow(DerivedId(op.id, order[i]), order[i],
                           after[order[i]].version, derived(order[i]).payload,
                           order[i] \in follow, db.epoch)]
      cascaded == [db EXCEPT
                     !.row = after,
                     !.changes = @ \o rows,
                     !.processed =
                        [x \in DOMAIN @ \cup {DerivedId(op.id, e) : e \in follow \cup detach} |->
                           IF x \in DOMAIN @ THEN @[x] ELSE derived(x[2])]]
      version == after[op.entity].version
  IN Applied(AppendApplied(cascaded, op, version, Empty, TRUE), op, version)

Delete(db, op) ==
  IF \/ Kind[op.entity] \notin DeleteModels
     \/ op.payload # Empty
     \/ ~Exists(db, op.entity)
     \/ db.space.archived
     \/ Blockers(db, op.entity) # {}
  THEN Reject(db, op)
  ELSE IF \/ db.row[op.entity].deleted
          \/ DeleteBase(db, op) < 1
          \/ db.row[op.entity].version # DeleteBase(db, op)
  THEN Conflicting(db, op)
  ELSE DeleteWithScope(db, op)

Handler(db, op) ==
  IF op.type = "create" THEN Create(db, op)
  ELSE IF op.type = "update" THEN Update(db, op)
  ELSE Delete(db, op)

-----------------------------------------------------------------------------
(* Resolving a recorded conflict.                                          *)

\* Mutant: the version the entity has now is not compared.
ResolutionMaybeStale(db, op) ==
  /\ op.res.conflict \in DOMAIN db.conflicts
  /\ LET record == db.conflicts[op.res.conflict]
     IN /\ record.status = "open"
        /\ record.device = op.device
        /\ record.entity = op.entity
        /\ op.res.expected = record.remoteVersion
        /\ op.base = record.remoteVersion
        /\ op.res.choice \in record.options \ {"dismiss"}
        /\ op.res.choice = "keep_remote" => op.payload = record.remotePayload

\* _validate_conflict_resolution.
ResolutionValid(db, op) ==
  /\ op.res.conflict \in DOMAIN db.conflicts
  /\ LET record == db.conflicts[op.res.conflict]
         deleted == Kind[op.entity] \in DeleteModels /\ Gone(db, op.entity)
     IN /\ record.status = "open"
        /\ record.device = op.device
        /\ record.entity = op.entity
        /\ op.type = (IF deleted THEN "delete" ELSE "update")
        /\ deleted => op.res.choice = "keep_remote"
        /\ op.res.expected = record.remoteVersion
        /\ op.base = record.remoteVersion
        /\ op.res.choice \in record.options \ {"dismiss"}
        /\ db.row[op.entity].version = record.remoteVersion
        /\ op.res.choice = "keep_remote" => op.payload = record.remotePayload
        /\ op.res.choice = "keep_local" => op.payload = record.local

\* Mutant: the choice is stored as the status.
StatusIsChoice(choice) == choice

StatusOf(choice) ==
  CASE choice = "keep_local" -> "resolved_local"
    [] choice = "keep_remote" -> "resolved_remote"
    [] OTHER -> "resolved_merge"

\* keep_remote writes no row: the remote version is appended once more.
KeepRemote(db, op) ==
  IF Kind[op.entity] \in DeleteModels /\ db.space.archived THEN Reject(db, op)
  ELSE LET version == db.conflicts[op.res.conflict].remoteVersion
       IN Applied(AppendApplied(db, op, version, op.payload,
                    Kind[op.entity] \in DeleteModels /\ Gone(db, op.entity)),
                  op, version)

\* _complete_conflict_resolution after an applied result; a duplicate finds
\* the record already closed by the same operation.
Complete(op, reply) ==
  IF reply.result.status = "applied"
    THEN [reply EXCEPT !.db.conflicts[op.res.conflict] =
            [@ EXCEPT !.status = StatusOf(op.res.choice), !.resolvedBy = op.id]]
    ELSE reply

\* An update of a deleted row is answered with a conflict before its handler.
UpdatesDeleted(db, op) ==
  /\ op.type = "update"
  /\ op.res = None
  /\ Kind[op.entity] \in DeleteModels
  /\ Gone(db, op.entity)

\* _apply_one, with the completion push() adds to it.
ApplyOne(db, op) ==
  IF op.id \in DOMAIN db.processed THEN Replay(db, op)
  ELSE IF UpdatesDeleted(db, op)
    THEN IF db.space.archived THEN Reject(db, op) ELSE Conflicting(db, op)
  ELSE IF op.res = None THEN Handler(db, op)
  ELSE IF ~ResolutionValid(db, op) THEN Reject(db, op)
  ELSE IF op.res.choice = "keep_remote" THEN Complete(op, KeepRemote(db, op))
  ELSE Complete(op, Handler(db, op))

\* record_lifecycle: archiving or restoring the space appends a change of the
\* space itself and raises the retention floor to it.
ToggleSpace(db, id, device) ==
  LET version == db.space.version + 1
      op == [id |-> id, device |-> device, entity |-> Space, type |-> "update",
             base |-> db.space.version, deps |-> {}, payload |-> Empty, res |-> None]
      moved == [db EXCEPT !.space = [version |-> version,
                                     archived |-> ~db.space.archived]]
      logged == AppendApplied(moved, op, version, Empty, FALSE)
  IN [logged EXCEPT !.retained = Len(logged.changes)]

Succeeded(result) == result.status \in {"applied", "duplicate"}

-----------------------------------------------------------------------------
(* Reading for a replica: SyncReadService.pull and bootstrap.              *)

\* A live change of a row that is deleted now is withheld: its tombstone
\* follows.  Nothing of an archived space is visible.
Visible(db, change) ==
  /\ ~db.space.archived
  /\ change.entity # Space
  /\ change.tombstone \/ Live(db, change.entity)

\* Mutant: the cursor of the page is that of the last change it sends.
PageOfSent(db, cursor, limit) ==
  LET above == {i \in DOMAIN db.changes : i > cursor /\ db.changes[i].epoch = db.epoch}
      sent == {i \in FirstOf(above, limit) : Visible(db, db.changes[i])}
  IN [epoch |-> db.epoch, from |-> cursor,
      to |-> IF sent = {} THEN 0 ELSE CHOOSE i \in sent : \A j \in sent : j <= i,
      more |-> Cardinality(above) > limit,
      changes |-> Those(db.changes, sent)]

\* One page of the epoch's changes above the cursor; the withheld ones still
\* move the cursor.
Page(db, cursor, limit) ==
  LET above == {i \in DOMAIN db.changes : i > cursor /\ db.changes[i].epoch = db.epoch}
      page == FirstOf(above, limit)
  IN [epoch |-> db.epoch, from |-> cursor,
      to |-> IF page = {} THEN cursor ELSE CHOOSE i \in page : \A j \in page : j <= i,
      more |-> Cardinality(above) > limit,
      changes |-> Those(db.changes, {i \in page : Visible(db, db.changes[i])})]

\* What _memory_records, _task_records and _content_records select.
Records(db) ==
  [e \in {x \in Entity : Live(db, x) /\ ~db.space.archived} |-> db.row[e]]

\* A bootstrap: the live rows with the head of the ledger as the cursor.
Snapshot(db) ==
  [epoch |-> db.epoch, cursor |-> Len(db.changes), records |-> Records(db)]

\* A workspace as lock_workspace_state first creates its state row.
EmptyDb ==
  [epoch |-> 0, changes |-> <<>>, processed |-> <<>>,
   row |-> [e \in Entity |-> [version |-> 0, deleted |-> FALSE, payload |-> Empty]],
   conflicts |-> <<>>, retained |-> 0,
   space |-> [version |-> 1, archived |-> FALSE]]

-----------------------------------------------------------------------------
(* What a database may hold, and how it may grow.                          *)

RowType == [version : Nat, deleted : BOOLEAN, payload : Content]
ChangeType ==
  [id : AnyId, entity : Entity \cup {Space}, version : Nat, payload : Content,
   tombstone : BOOLEAN, epoch : Nat]
IdentityType ==
  [id : AnyId, device : Device, entity : Entity \cup {Space},
   type : {"create", "update", "delete"}, base : Nat, deps : SUBSET OpId,
   payload : Content, res : Resolution \cup {None}]
ConflictType ==
  [device : Device, entity : Entity, base : Nat, local : Content,
   remoteVersion : Nat, remotePayload : Content, remoteDeleted : BOOLEAN,
   options : SUBSET ResolutionChoices,
   status : {"open", "resolved_local", "resolved_remote", "resolved_merge"},
   resolvedBy : OpId \cup {None}]

ShownConflict ==
  [id : ConflictId, base : Nat, local : Content, remoteVersion : Nat,
   remotePayload : Content, remoteDeleted : BOOLEAN,
   options : SUBSET ResolutionChoices]
AnswerType ==
  [op : OpId, status : {"applied", "duplicate", "conflict", "rejected",
                        "blocked_dependency"},
   version : Nat, seq : Nat, conflict : ShownConflict \cup {None}]

DbType(d) ==
  /\ DOMAIN d = {"epoch", "changes", "processed", "row", "conflicts",
                 "retained", "space"}
  /\ d.epoch \in Nat
  /\ d.changes \in Seq(ChangeType)
  /\ DOMAIN d.processed \subseteq AnyId
  /\ \A id \in DOMAIN d.processed : d.processed[id] \in IdentityType
  /\ d.row \in [Entity -> RowType]
  /\ \A e \in Entity : Exists(d, e) => d.row[e].payload \in Payload
  /\ DOMAIN d.conflicts \subseteq ConflictId
  /\ \A c \in DOMAIN d.conflicts : d.conflicts[c] \in ConflictType
  /\ d.retained \in Nat
  /\ d.space \in [version : Nat, archived : BOOLEAN]

\* The change rows and the idempotency rows have the same ids, once each.
Matched(d) ==
  /\ {d.changes[i].id : i \in DOMAIN d.changes} = DOMAIN d.processed
  /\ \A i, j \in DOMAIN d.changes : d.changes[i].id = d.changes[j].id => i = j

\* new is old with history added: the ledger has grown, the floor has not
\* sunk and does not pass the head, and a closed conflict is as it was.
Extends(old, new) ==
  /\ Len(old.changes) <= Len(new.changes)
  /\ \A i \in 1..Len(old.changes) : new.changes[i] = old.changes[i]
  /\ old.retained <= new.retained /\ new.retained <= Len(new.changes)
  /\ \A c \in DOMAIN old.conflicts :
       /\ c \in DOMAIN new.conflicts
       /\ old.conflicts[c].status # "open" => new.conflicts[c] = old.conflicts[c]
=============================================================================
