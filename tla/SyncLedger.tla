----------------------------- MODULE SyncLedger -----------------------------
(***************************************************************************)
(* The server side of sync-v1 for one workspace.  A push is a transaction  *)
(* that holds the workspace lock from its first statement to its commit:   *)
(* it works on a copy of the database, one operation of the batch per      *)
(* step, and ends in a commit, in the rollback an old client forces, or in *)
(* a crash.  The online_routes and the space lifecycle take the same lock. *)
(* The older REST routes take only the row lock of the space and write     *)
(* nothing to the ledger.  A backup is an earlier database, and restoring  *)
(* it draws a new epoch.                                                   *)
(*                                                                         *)
(* Requests come from anywhere in Requests, in any order and any number of *)
(* times: that covers a lost response, a retry and two tabs.               *)
(***************************************************************************)
EXTENDS LedgerDb

CONSTANTS
  Requests,     \* the operations devices may send, an operation per id
  Capable,      \* devices whose client declares the deletion capability
  OnlineId,     \* the ids REST and lifecycle handlers draw
  DirectKinds,  \* the kinds somebody writes through the older REST routes
  MaxBatch,     \* operations per push
  MaxEpoch,     \* bound: restores
  MaxVersion    \* bound: the version up to which the older REST routes write

ASSUME RequestAssumption ==
  /\ Requests \subseteq Operation
  /\ \A p, q \in Requests : p.id = q.id => p = q
  /\ Capable \subseteq Device
  /\ OnlineId \subseteq OpId
  /\ \A p \in Requests : p.id \notin OnlineId
  /\ DirectKinds \subseteq {"topic", "quiz_item", "task", "resource"}
  /\ MaxBatch \in Nat /\ MaxEpoch \in Nat /\ MaxVersion \in Nat

VARIABLES
  db,       \* the committed database
  txn,      \* the push in progress, or None
  waiting,  \* topics and quiz items whose creation waits for the lock
  backup,   \* the database the last backup saved
  epochs    \* the newest epoch drawn

vars == <<db, txn, waiting, backup, epochs>>

\* The workspace lock is free.
Unlocked == txn = None

Batches ==
  UNION {{b \in [1..n -> Requests] :
            \A i, j \in 1..n : i # j => b[i].id # b[j].id} : n \in 1..MaxBatch}

Init ==
  /\ db = EmptyDb
  /\ txn = None
  /\ waiting = {}
  /\ backup = EmptyDb
  /\ epochs = 0

\* routes.push takes the lock.  A request of another epoch, and a deletion
\* from a client without the capability, are answered by a control message
\* and change nothing, so neither starts a transaction here.
BeginPush ==
  /\ Unlocked
  /\ \E device \in Device, batch \in Batches :
       /\ \A i \in DOMAIN batch : batch[i].device = device
       /\ device \in Capable \/ \A i \in DOMAIN batch : batch[i].type # "delete"
       /\ txn' = [work |-> db, batch |-> batch, results |-> <<>>,
                  capable |-> device \in Capable]
  /\ UNCHANGED <<db, waiting, backup, epochs>>

\* An operation waits for those of its dependencies that share the batch.
DependencyFailed(batch, results, op) ==
  \E i \in DOMAIN batch :
    /\ batch[i].id \in op.deps
    /\ i \notin DOMAIN results \/ ~Succeeded(results[i])

\* One iteration of SyncPushService.push.
PushOne ==
  /\ ~Unlocked
  /\ Len(txn.results) < Len(txn.batch)
  /\ LET op == txn.batch[Len(txn.results) + 1]
         reply == IF DependencyFailed(txn.batch, txn.results, op)
                    THEN [db |-> txn.work,
                          result |-> Result(op, "blocked_dependency", 0, 0, None)]
                    ELSE ApplyOne(txn.work, op)
     IN txn' = [txn EXCEPT !.work = reply.db,
                           !.results = Append(@, reply.result)]
  /\ UNCHANGED <<db, waiting, backup, epochs>>

\* What a client without the deletion capability could not read.
MentionsDeletion(result) ==
  /\ result.status = "conflict"
  /\ result.conflict.remoteDeleted

Finished == ~Unlocked /\ Len(txn.results) = Len(txn.batch)

CommitPush ==
  /\ Finished
  /\ txn.capable \/ \A i \in DOMAIN txn.results : ~MentionsDeletion(txn.results[i])
  /\ db' = txn.work
  /\ txn' = None
  /\ UNCHANGED <<waiting, backup, epochs>>

\* UpgradeControl after the fact: the control acknowledges nothing.
UpgradeRollback ==
  /\ Finished
  /\ ~txn.capable
  /\ \E i \in DOMAIN txn.results : MentionsDeletion(txn.results[i])
  /\ txn' = None
  /\ UNCHANGED <<db, waiting, backup, epochs>>

\* The process or the connection dies before the commit.
Crash ==
  /\ ~Unlocked
  /\ txn' = None
  /\ UNCHANGED <<db, waiting, backup, epochs>>

Unused(id) == id \notin DOMAIN db.processed

\* The kinds of LedgerDb that have online_routes.
OnlineKinds == {"topic", "quiz_item"}

\* A write of memory/online_routes: same lock, same domain service, same
\* ledger, with a fresh operation id and If-Match on the current version.
OnlineWrite ==
  /\ Unlocked
  /\ \E id \in OnlineId, device \in Device, e \in Entity, p \in Content :
       /\ Unused(id)
       /\ Kind[e] \in OnlineKinds
       /\ LET op == [id |-> id, device |-> device, entity |-> e,
                     type |-> IF p = Empty THEN "delete"
                              ELSE IF Exists(db, e) THEN "update" ELSE "create",
                     base |-> db.row[e].version, deps |-> {}, payload |-> p,
                     res |-> None]
              reply == Handler(db, op)
          IN /\ reply.result.status = "applied"
             /\ db' = reply.db
  /\ UNCHANGED <<txn, waiting, backup, epochs>>

\* A push that has written rows holds the row lock of the space, which every
\* domain service takes before it writes.
SpaceFree ==
  ~Unlocked => \A i \in DOMAIN txn.results : txn.results[i].status # "applied"

\* The row a domain service writes for a route that has no ledger entry; a
\* push that has written nothing yet sees it.
WriteRow(e, payload) ==
  LET written == [db.row EXCEPT ![e] =
                    [version |-> @.version + 1, deleted |-> FALSE, payload |-> payload]]
  IN /\ db' = [db EXCEPT !.row = written]
     /\ txn' = IF Unlocked THEN None ELSE [txn EXCEPT !.work.row = written]

\* The writes of tasks and resources: what they depend on is checked under the
\* lock of the space, but for the space of a task, which may be archived while
\* the request waits.
DirectWrite ==
  /\ SpaceFree
  /\ \E e \in Entity, p \in Payload \ Invalid :
       /\ Kind[e] \in DirectKinds \cap {"task", "resource"}
       /\ Kind[e] = "resource" => ~db.space.archived
       /\ Exists(db, e) => Live(db, e)
       /\ db.row[e].version < MaxVersion
       /\ Names(e, p) => Live(db, Parent[e])
       /\ WriteRow(e, p)
  /\ UNCHANGED <<waiting, backup, epochs>>

\* POST topics and quiz-items look at the space, and at the topic a quiz item
\* names, before they ask for the lock.
DirectMemoryReads ==
  /\ ~db.space.archived
  /\ \E e \in Entity \ waiting :
       /\ Kind[e] \in DirectKinds \cap {"topic", "quiz_item"}
       /\ Kind[e] = "quiz_item" => Live(db, Parent[e])
       /\ waiting' = waiting \cup {e}
  /\ UNCHANGED <<db, txn, backup, epochs>>

\* create_topic and create_quiz_item once they have it: only the identifier
\* is looked up.
DirectMemoryWrites ==
  /\ SpaceFree
  /\ \E e \in waiting, p \in Payload \ Invalid :
       /\ ~Exists(db, e)
       /\ WriteRow(e, p)
       /\ waiting' = waiting \ {e}
  /\ UNCHANGED <<backup, epochs>>

\* Archiving or restoring the space, under the same lock.
ChangeLifecycle ==
  /\ Unlocked
  /\ \E id \in OnlineId, device \in Device :
       Unused(id) /\ db' = ToggleSpace(db, id, device)
  /\ UNCHANGED <<txn, waiting, backup, epochs>>

\* infra/backup: a dump of the committed state.  The bound on restores is one
\* on dumps too: one that is never restored shows nothing.
TakeBackup ==
  /\ epochs < MaxEpoch
  /\ backup # db
  /\ backup' = db
  /\ UNCHANGED <<db, txn, waiting, epochs>>

\* Mutant: the transaction at work survives the restore.
RestoreUnderPush ==
  /\ epochs < MaxEpoch
  /\ epochs' = epochs + 1
  /\ db' = [backup EXCEPT !.epoch = epochs + 1]
  /\ UNCHANGED <<txn, waiting, backup>>
\* Mutant: the epoch stays.
RestoreInEpoch ==
  /\ db' = backup
  /\ txn' = None
  /\ waiting' = {}
  /\ UNCHANGED <<backup, epochs>>

\* restore-backup.sh loads the dump with the service down and replaces the
\* epoch of every workspace.
RestoreBackup ==
  /\ epochs < MaxEpoch
  /\ epochs' = epochs + 1
  /\ db' = [backup EXCEPT !.epoch = epochs + 1]
  /\ txn' = None
  /\ waiting' = {}
  /\ UNCHANGED backup

Next ==
  \/ BeginPush
  \/ PushOne
  \/ CommitPush
  \/ UpgradeRollback
  \/ Crash
  \/ OnlineWrite
  \/ DirectWrite
  \/ DirectMemoryReads
  \/ DirectMemoryWrites
  \/ ChangeLifecycle
  \/ TakeBackup
  \/ RestoreBackup

Spec == Init /\ [][Next]_vars

-----------------------------------------------------------------------------
(* What the ledger promises.  Each predicate is about a database, and is   *)
(* required of the committed one and of the copy a push works on.          *)

TxnType(t) ==
  /\ DOMAIN t = {"work", "batch", "results", "capable"}
  /\ DbType(t.work)
  /\ t.batch \in Seq(Requests)
  /\ t.results \in Seq(AnswerType)
  /\ t.capable \in BOOLEAN
  /\ Len(t.results) <= Len(t.batch)

\* The types of the variables: two databases, the push transaction of
\* SyncPushService.push, the waiting requests and the epoch counter.
TypeOK ==
  /\ DbType(db)
  /\ DbType(backup)
  /\ epochs \in Nat
  /\ waiting \subseteq Entity
  /\ Unlocked \/ TxnType(txn)

Databases == {db, backup} \cup IF Unlocked THEN {} ELSE {txn.work}

\* Every processed operation has exactly one change row, and every change
\* row is that of a processed operation (append_applied: idempotency row
\* and change row in one flush, replay detected before either).
OneChangePerOperation == \A d \in Databases : Matched(d)

\* The newest change of an entity shows what its row holds.
ShowsRow(d, e) ==
  LET of == {i \in DOMAIN d.changes : d.changes[i].entity = e}
  IN IF of = {} THEN ~Exists(d, e)
     ELSE LET last == d.changes[CHOOSE i \in of : \A j \in of : j <= i]
          IN /\ last.version = d.row[e].version
             /\ last.tombstone = d.row[e].deleted
             /\ last.payload = Shown(d, e)

\* A replica that has applied every change has the rows, of the kinds nobody
\* writes through the older REST routes (the handlers of a push and the
\* online_routes write the row and append the change together, the derived
\* changes of a deletion included; docs/sync/server-sync-ledger.md has each
\* domain change do so, and the older REST routes do not).
LedgerShowsRows ==
  \A d \in Databases : \A e \in Entity : Kind[e] \notin DirectKinds => ShowsRow(d, e)

\* A version names one content, in the ledger and in the row: along the ledger
\* the versions of an entity do not decrease and do not pass the row's, and
\* the same version always carries the same content.  keep_remote appends a
\* version a second time, and must not relabel it; a row the ledger has not
\* heard of is at a version of its own.
VersionNamesContent ==
  \A d \in Databases : \A i \in DOMAIN d.changes :
    LET c == d.changes[i]
    IN /\ c.entity \in Entity =>
            /\ c.version <= d.row[c.entity].version
            /\ c.version = d.row[c.entity].version =>
                 c.payload = Shown(d, c.entity) /\ c.tombstone = d.row[c.entity].deleted
       /\ \A j \in 1..(i - 1) : d.changes[j].entity = c.entity =>
            /\ d.changes[j].version <= c.version
            /\ d.changes[j].version = c.version =>
                 d.changes[j].payload = c.payload /\ d.changes[j].tombstone = c.tombstone

\* A recorded conflict is closed by exactly one processed operation, which
\* names it, and every processed resolution closed its conflict: the
\* RuntimeErrors of _complete_conflict_resolution are unreachable.
ConflictClosedOnce ==
  \A d \in Databases :
    /\ \A c \in DOMAIN d.conflicts :
         IF d.conflicts[c].status = "open" THEN d.conflicts[c].resolvedBy = None
         ELSE /\ d.conflicts[c].resolvedBy \in DOMAIN d.processed
              /\ d.processed[d.conflicts[c].resolvedBy].res.conflict = c
    /\ \A id \in DOMAIN d.processed \cap OpId :
         d.processed[id].res # None =>
           /\ d.processed[id].res.conflict \in DOMAIN d.conflicts
           /\ d.conflicts[d.processed[id].res.conflict].resolvedBy = id

\* A resolution replaces the version its author was shown and no other:
\* whatever was written between the conflict and its resolution survives
\* (_validate_conflict_resolution, SYNC_CONFLICT_STALE).
ResolutionReplacesShownVersion ==
  \A d \in Databases : \A i \in DOMAIN d.changes :
    LET change == d.changes[i]
        res == d.processed[change.id].res
    IN change.id \in OpId /\ res # None =>
         /\ change.version = res.expected + (IF res.choice = "keep_remote" THEN 0 ELSE 1)
         /\ \A j \in 1..(i - 1) :
              d.changes[j].entity = change.entity => d.changes[j].version <= res.expected

\* Every conflict ends once, over the version that was shown.
ConflictsEndOnce == ConflictClosedOnce /\ ResolutionReplacesShownVersion

\* No live row names a parent that is not live, whatever order creations,
\* deletions and links arrive in (deletion_scope and the 404 of the services;
\* docs/adr/0031-entity-deletion.md asks it of the online paths as well).
ReferencesAreLive ==
  \A d \in Databases : \A c \in Entity :
    Live(d, c) /\ Names(c, d.row[c].payload) => Live(d, Parent[c])

\* What a push answers is what the ledger holds: an applied operation has a
\* change of its own above the committed ones, a duplicate the change of its
\* first delivery.
AnswersMatchLedger ==
  ~Unlocked =>
    \A i \in DOMAIN txn.results :
      LET r == txn.results[i]
      IN Succeeded(r) =>
           /\ r.seq \in DOMAIN txn.work.changes
           /\ txn.work.changes[r.seq].id = r.op
           /\ txn.work.changes[r.seq].version = r.version
           /\ r.status = "applied" <=> r.seq > Len(db.changes)

\* Within an epoch neither the history nor the floor nor a closed conflict
\* is taken back: every step but a restore extends the committed database
\* (routes.push commits or rolls back a batch as a whole).
HistoryIsKept == [][epochs' = epochs => Extends(db, db')]_vars

\* The server implements a ChangeLog: pushes, replays, conflicts, REST and
\* lifecycle writes, crashes and backups add whole operations or nothing, and
\* only a restore goes back, to a point the log has been at.  epochs is the
\* epoch of the committed database.
Ledger == INSTANCE ChangeLog WITH log <- db.changes, epoch <- epochs
IsChangeLog == Ledger!LogSpec
=============================================================================
