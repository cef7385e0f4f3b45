-------------------------- MODULE SyncLedgerProofs --------------------------
(***************************************************************************)
(* Theorems about SyncLedger, for every set of devices, entities, payloads *)
(* and requests: first what a push transaction keeps, then what the ledger *)
(* tells of the rows.                                                      *)
(***************************************************************************)
EXTENDS SyncLedger, LedgerDbProofs

-----------------------------------------------------------------------------
(* The state machine.                                                      *)

\* A push in progress: its copy extends the committed database by what its
\* answers say and nothing else.
TxnInv(t, d) ==
  /\ TxnType(t)
  /\ DbInv(t.work)
  /\ Extends(d, t.work)
  /\ \A i, j \in DOMAIN t.batch : t.batch[i].id = t.batch[j].id => i = j
  /\ \A k \in DOMAIN t.work.changes :
       k > Len(d.changes) /\ t.work.changes[k].id \in OpId =>
         \E i \in DOMAIN t.results : t.batch[i].id = t.work.changes[k].id
  /\ \A i \in DOMAIN t.results :
       LET r == t.results[i]
       IN Succeeded(r) => /\ r.seq \in DOMAIN t.work.changes
                          /\ t.work.changes[r.seq].id = r.op
                          /\ t.work.changes[r.seq].version = r.version
                          /\ r.status = "applied" <=> r.seq > Len(d.changes)

IInv ==
  /\ DbInv(db)
  /\ DbInv(backup)
  /\ epochs \in Nat
  /\ waiting \subseteq Entity
  /\ Unlocked \/ TxnInv(txn, db)

\* An empty workspace has an empty ledger.
LEMMA InitInv == Init => IInv
<1>1. DbType(EmptyDb)
  BY DEF EmptyDb, DbType, RowType, Content, Exists
<1>2. DbInv(EmptyDb)
  BY <1>1 DEF DbInv, Matched, Rooted, EmptyDb
<1> QED
  BY <1>2 DEF Init, IInv, Unlocked

\* The copy a push starts from is the committed database.
LEMMA BeginPushInv == IInv /\ BeginPush => IInv'
<1> SUFFICES ASSUME IInv, BeginPush PROVE IInv'
  OBVIOUS
<1>1. PICK device \in Device, batch \in Batches :
        txn' = [work |-> db, batch |-> batch, results |-> <<>>,
                capable |-> device \in Capable]
  BY DEF BeginPush
<1>2. PICK n \in 1..MaxBatch : /\ batch \in [1..n -> Requests]
                               /\ \A i, j \in 1..n : i # j => batch[i].id # batch[j].id
  BY DEF Batches
<1>3. n \in Nat /\ batch \in Seq(Requests) /\ DOMAIN batch = 1..n
      /\ Len(batch) = n
  BY <1>2, RequestAssumption
<1>4. TxnType(txn')
  BY <1>1, <1>3 DEF TxnType, IInv, DbInv
<1>5. Extends(db, db)
  BY ExtendsReflexive DEF IInv
<1>6. TxnInv(txn', db)
  <2>1. /\ txn'.work = db /\ txn'.batch = batch /\ txn'.results = <<>>
        /\ DOMAIN txn'.results = {}
    BY <1>1
  <2>2. \A i, j \in DOMAIN txn'.batch : txn'.batch[i].id = txn'.batch[j].id => i = j
    BY <1>2, <1>3, <2>1
  <2>3. \A k \in DOMAIN db.changes : ~(k > Len(db.changes))
    BY DEF IInv, DbInv, DbType
  <2> QED
    BY <1>4, <1>5, <2>1, <2>2, <2>3 DEF TxnInv, IInv
<1> QED
  BY <1>6 DEF BeginPush, IInv

\* The copy after one more operation.
LEMMA PushOneInv == IInv /\ PushOne => IInv'
<1> SUFFICES ASSUME IInv, PushOne PROVE IInv'
  OBVIOUS
<1> DEFINE n == Len(txn.results)
           op == txn.batch[n + 1]
           reply == IF DependencyFailed(txn.batch, txn.results, op)
                      THEN [db |-> txn.work,
                            result |-> Result(op, "blocked_dependency", 0, 0, None)]
                      ELSE ApplyOne(txn.work, op)
<1>1. /\ TxnInv(txn, db) /\ DbInv(db)
      /\ n < Len(txn.batch)
      /\ txn' = [txn EXCEPT !.work = reply.db, !.results = Append(@, reply.result)]
  BY DEF PushOne, IInv
<1>2. /\ TxnType(txn) /\ DbInv(txn.work) /\ n \in Nat
      /\ DOMAIN txn.results = 1..n
  BY <1>1 DEF TxnInv, TxnType
<1>3. n + 1 \in DOMAIN txn.batch /\ op \in Operation
  BY <1>1, <1>2, RequestAssumption DEF TxnType
<1>4. Keeps(txn.work, op.id, reply)
  <2>1. CASE ~DependencyFailed(txn.batch, txn.results, op)
    BY <1>2, <1>3, <2>1, ApplyOneKeeps
  <2>2. CASE DependencyFailed(txn.batch, txn.results, op)
    <3>1. /\ reply.db = txn.work /\ DOMAIN reply = {"db", "result"}
          /\ reply.result = Result(op, "blocked_dependency", 0, 0, None)
      BY <2>2
    <3>2. /\ reply.result \in AnswerType /\ reply.result.op = op.id
          /\ reply.result.status = "blocked_dependency"
      BY <1>3, <3>1 DEF Result, AnswerType, Operation
    <3>3. Extends(txn.work, txn.work)
      BY <1>2, ExtendsReflexive
    <3>4. OnlyNew(txn.work, txn.work, op.id)
      BY <1>2 DEF OnlyNew, DbInv, DbType
    <3> QED
      BY <1>2, <3>1, <3>2, <3>3, <3>4 DEF Keeps, Answered, Succeeded
  <2> QED
    BY <2>1, <2>2
<1> HIDE DEF reply, op
<1>5. /\ txn'.work = reply.db /\ txn'.batch = txn.batch
      /\ txn'.results = Append(txn.results, reply.result)
      /\ txn'.capable = txn.capable /\ DOMAIN txn' = DOMAIN txn
  BY <1>1, <1>2 DEF TxnType
<1>6. /\ DbInv(reply.db) /\ Extends(txn.work, reply.db)
      /\ OnlyNew(txn.work, reply.db, op.id) /\ reply.result \in AnswerType
      /\ Answered(txn.work, op.id, reply)
  BY <1>4 DEF Keeps
<1>7. /\ DOMAIN txn'.results = 1..(n + 1) /\ Len(txn'.results) = n + 1
      /\ \A i \in 1..n : txn'.results[i] = txn.results[i]
      /\ txn'.results[n + 1] = reply.result
      /\ txn'.results \in Seq(AnswerType)
  BY <1>2, <1>5, <1>6 DEF TxnType
<1>8. TxnType(txn')
  BY <1>1, <1>2, <1>5, <1>6, <1>7 DEF TxnType, DbInv
<1>9. Extends(db, reply.db)
  BY <1>1, <1>2, <1>6, ExtendsTransitive DEF TxnInv, DbInv
<1>10. /\ Len(db.changes) \in Nat /\ Len(txn.work.changes) \in Nat
       /\ Len(reply.db.changes) \in Nat
       /\ Len(db.changes) <= Len(txn.work.changes)
       /\ Len(txn.work.changes) <= Len(reply.db.changes)
       /\ DOMAIN txn.work.changes = 1..Len(txn.work.changes)
       /\ DOMAIN reply.db.changes = 1..Len(reply.db.changes)
       /\ \A k \in DOMAIN txn.work.changes : reply.db.changes[k] = txn.work.changes[k]
  <2>1. DbType(db) /\ DbType(txn.work) /\ DbType(reply.db)
    BY <1>1, <1>2, <1>6 DEF DbInv
  <2>2. Extends(db, txn.work) /\ Extends(txn.work, reply.db)
    BY <1>1, <1>6 DEF TxnInv
  <2>3. /\ Len(db.changes) \in Nat /\ Len(txn.work.changes) \in Nat
        /\ Len(reply.db.changes) \in Nat
        /\ DOMAIN txn.work.changes = 1..Len(txn.work.changes)
        /\ DOMAIN reply.db.changes = 1..Len(reply.db.changes)
    BY <2>1 DEF DbType
  <2>4. /\ Len(db.changes) <= Len(txn.work.changes)
        /\ Len(txn.work.changes) <= Len(reply.db.changes)
        /\ \A k \in 1..Len(txn.work.changes) :
             reply.db.changes[k] = txn.work.changes[k]
    BY <2>2 DEF Extends
  <2> QED
    BY <2>3, <2>4
<1>15. /\ \A k \in DOMAIN txn.work.changes :
            k > Len(db.changes) /\ txn.work.changes[k].id \in OpId =>
              \E i \in 1..n : txn.batch[i].id = txn.work.changes[k].id
       /\ \A i \in 1..n :
            Succeeded(txn.results[i]) =>
              /\ txn.results[i].seq \in DOMAIN txn.work.changes
              /\ txn.work.changes[txn.results[i].seq].id = txn.results[i].op
              /\ txn.work.changes[txn.results[i].seq].version = txn.results[i].version
              /\ txn.results[i].status = "applied" <=>
                   txn.results[i].seq > Len(db.changes)
       /\ op.id \in OpId
  BY <1>1, <1>2, <1>3 DEF TxnInv, Operation
<1>11. ASSUME NEW k \in DOMAIN reply.db.changes, k > Len(db.changes),
              reply.db.changes[k].id \in OpId
       PROVE  \E i \in 1..(n + 1) : txn.batch[i].id = reply.db.changes[k].id
  <2>1. CASE k <= Len(txn.work.changes)
    <3>1. k \in DOMAIN txn.work.changes /\ reply.db.changes[k] = txn.work.changes[k]
      BY <1>10, <2>1
    <3>2. PICK i \in 1..n : txn.batch[i].id = reply.db.changes[k].id
      BY <1>11, <1>15, <3>1
    <3> QED
      BY <1>2, <3>2
  <2>2. CASE k > Len(txn.work.changes)
    <3>1. reply.db.changes[k].id = op.id
      BY <1>6, <1>11, <2>2 DEF OnlyNew
    <3>2. txn.batch[n + 1].id = op.id /\ n + 1 \in 1..(n + 1)
      BY <1>2 DEF op
    <3> QED
      BY <3>1, <3>2
  <2> QED
    BY <1>10, <2>1, <2>2
<1>12. ASSUME Succeeded(reply.result)
       PROVE  /\ reply.result.seq \in DOMAIN reply.db.changes
              /\ reply.db.changes[reply.result.seq].id = reply.result.op
              /\ reply.db.changes[reply.result.seq].version = reply.result.version
              /\ reply.result.status = "applied" <=> reply.result.seq > Len(db.changes)
  <2> DEFINE seq == reply.result.seq
  <2>1. /\ seq \in DOMAIN reply.db.changes /\ reply.result.op = op.id
        /\ reply.db.changes[seq].id = op.id
        /\ reply.db.changes[seq].version = reply.result.version
        /\ reply.result.status = "applied" <=> seq > Len(txn.work.changes)
    BY <1>6, <1>12 DEF Answered
  <2>2. ASSUME seq > Len(db.changes), seq <= Len(txn.work.changes)
        PROVE  FALSE
    <3>1. seq \in DOMAIN txn.work.changes /\ txn.work.changes[seq].id = op.id
      BY <1>10, <2>1, <2>2
    <3>2. PICK i \in 1..n : txn.batch[i].id = op.id
      BY <1>15, <2>2, <3>1
    <3>3. i \in DOMAIN txn.batch /\ n + 1 \in DOMAIN txn.batch
      BY <1>1, <1>2, <1>3 DEF TxnType
    <3>4. i = n + 1
      BY <1>1, <3>2, <3>3 DEF TxnInv, op
    <3> QED
      BY <1>2, <3>4
  <2> QED
    BY <1>10, <2>1, <2>2
<1>13. ASSUME NEW i \in 1..n, Succeeded(txn.results[i])
       PROVE  LET r == txn.results[i]
              IN /\ r.seq \in DOMAIN reply.db.changes
                 /\ reply.db.changes[r.seq].id = r.op
                 /\ reply.db.changes[r.seq].version = r.version
                 /\ r.status = "applied" <=> r.seq > Len(db.changes)
  <2> DEFINE seq == txn.results[i].seq
  <2>1. /\ seq \in DOMAIN txn.work.changes
        /\ txn.work.changes[seq].id = txn.results[i].op
        /\ txn.work.changes[seq].version = txn.results[i].version
        /\ txn.results[i].status = "applied" <=> seq > Len(db.changes)
    BY <1>13, <1>15
  <2> HIDE DEF seq
  <2>2. reply.db.changes[seq] = txn.work.changes[seq]
    BY <1>10, <2>1
  <2>3. seq \in DOMAIN reply.db.changes
    BY <1>10, <2>1
  <2> QED
    BY <2>1, <2>2, <2>3 DEF seq
<1>14. TxnInv(txn', db)
  <2>1. \A i \in DOMAIN txn'.results :
          LET r == txn'.results[i]
          IN Succeeded(r) => /\ r.seq \in DOMAIN txn'.work.changes
                             /\ txn'.work.changes[r.seq].id = r.op
                             /\ txn'.work.changes[r.seq].version = r.version
                             /\ r.status = "applied" <=> r.seq > Len(db.changes)
    <3> SUFFICES ASSUME NEW i \in 1..(n + 1), Succeeded(txn'.results[i])
                 PROVE  LET r == txn'.results[i]
                        IN /\ r.seq \in DOMAIN reply.db.changes
                           /\ reply.db.changes[r.seq].id = r.op
                           /\ reply.db.changes[r.seq].version = r.version
                           /\ r.status = "applied" <=> r.seq > Len(db.changes)
      BY <1>5, <1>7
    <3>1. CASE i = n + 1
      BY <1>7, <1>12, <3>1
    <3>2. CASE i # n + 1
      <4>1. i \in 1..n
        BY <1>2, <3>2
      <4>2. txn'.results[i] = txn.results[i]
        BY <1>7, <4>1
      <4> QED
        BY <1>13, <4>1, <4>2
    <3> QED
      BY <3>1, <3>2
  <2>2. \A k \in DOMAIN txn'.work.changes :
          k > Len(db.changes) /\ txn'.work.changes[k].id \in OpId =>
            \E i \in DOMAIN txn'.results : txn'.batch[i].id = txn'.work.changes[k].id
    BY <1>5, <1>7, <1>11
  <2>3. \A i, j \in DOMAIN txn'.batch : txn'.batch[i].id = txn'.batch[j].id => i = j
    BY <1>1, <1>5 DEF TxnInv
  <2> QED
    BY <1>5, <1>6, <1>8, <1>9, <2>1, <2>2, <2>3 DEF TxnInv
<1> QED
  BY <1>14 DEF PushOne, IInv

\* What a commit installs, and what a rollback and a crash drop.
LEMMA EndOfPushInv == IInv /\ (CommitPush \/ UpgradeRollback \/ Crash) => IInv'
<1>1. IInv /\ CommitPush => IInv'
  BY DEF IInv, CommitPush, Finished, Unlocked, TxnInv
<1>2. IInv /\ (UpgradeRollback \/ Crash) => IInv'
  BY DEF IInv, UpgradeRollback, Crash, Unlocked
<1> QED
  BY <1>1, <1>2

\* A REST write goes through the handlers of a push.
LEMMA OnlineWriteKeeps ==
  IInv /\ OnlineWrite => DbInv(db') /\ Extends(db, db')
<1> SUFFICES ASSUME IInv, OnlineWrite PROVE DbInv(db') /\ Extends(db, db')
  OBVIOUS
<1>1. PICK id \in OnlineId, device \in Device, e \in Entity, p \in Content :
        /\ Unused(id)
        /\ LET op == [id |-> id, device |-> device, entity |-> e,
                      type |-> IF p = Empty THEN "delete"
                               ELSE IF Exists(db, e) THEN "update" ELSE "create",
                      base |-> db.row[e].version, deps |-> {}, payload |-> p,
                      res |-> None]
           IN db' = Handler(db, op).db
  BY DEF OnlineWrite
<1> DEFINE op == [id |-> id, device |-> device, entity |-> e,
                  type |-> IF p = Empty THEN "delete"
                           ELSE IF Exists(db, e) THEN "update" ELSE "create",
                  base |-> db.row[e].version, deps |-> {}, payload |-> p, res |-> None]
<1>2. db.row[e].version \in Nat
  BY DEF IInv, DbInv, DbType, RowType
<1>3. op \in Operation
  BY <1>2, RequestAssumption DEF Operation, Content
<1>4. op.id \notin DOMAIN db.processed /\ db' = Handler(db, op).db
  BY <1>1 DEF Unused
<1> HIDE DEF op
<1>5. Handles(db, op.id, Handler(db, op))
  BY <1>3, <1>4, HandlerKeeps DEF IInv
<1> QED
  BY <1>4, <1>5 DEF Handles, Keeps

LEMMA OnlineInv == IInv /\ (OnlineWrite \/ ChangeLifecycle) => IInv' /\ Extends(db, db')
<1>1. IInv /\ OnlineWrite => IInv' /\ Extends(db, db')
  BY OnlineWriteKeeps DEF IInv, OnlineWrite, Unlocked
<1>2. ASSUME IInv, ChangeLifecycle
      PROVE  IInv' /\ Extends(db, db')
  <2>1. PICK id \in OnlineId, device \in Device :
          id \notin DOMAIN db.processed /\ db' = ToggleSpace(db, id, device)
    BY <1>2 DEF ChangeLifecycle, Unused
  <2>2. DbInv(db') /\ Extends(db, db')
    BY <1>2, <2>1, ToggleSpaceKeeps, RequestAssumption DEF IInv
  <2> QED
    BY <1>2, <2>2 DEF IInv, ChangeLifecycle, Unlocked
<1> QED
  BY <1>1, <1>2

\* A row written outside the ledger is as good as any other for what is said
\* of changes and idempotency rows, in a push that has not written too.
LEMMA WriteRowKeeps ==
  ASSUME IInv, NEW e \in Entity, NEW p \in Payload, WriteRow(e, p),
         UNCHANGED <<backup, epochs>>, waiting' \subseteq Entity
  PROVE  IInv' /\ Extends(db, db')
<1> DEFINE written == [db.row EXCEPT ![e] =
                         [version |-> @.version + 1, deleted |-> FALSE, payload |-> p]]
<1>1. /\ db' = [db EXCEPT !.row = written]
      /\ txn' = IF Unlocked THEN None ELSE [txn EXCEPT !.work.row = written]
  BY DEF WriteRow
<1>2. /\ written \in [Entity -> RowType]
      /\ \A c \in Entity : written[c].version > 0 => written[c].payload \in Payload
  <2>1. /\ db.row \in [Entity -> RowType]
        /\ \A c \in Entity : db.row[c].version > 0 => db.row[c].payload \in Payload
    BY DEF IInv, DbInv, DbType, Exists
  <2> QED
    BY <2>1 DEF RowType, Content
<1> HIDE DEF written
<1>3. ASSUME NEW d, DbInv(d)
      PROVE  DbInv([d EXCEPT !.row = written]) /\ Extends(d, [d EXCEPT !.row = written])
  <2> DEFINE w == [d EXCEPT !.row = written]
  <2>1. /\ w.changes = d.changes /\ w.processed = d.processed
        /\ w.retained = d.retained /\ w.conflicts = d.conflicts
        /\ w.epoch = d.epoch /\ w.space = d.space /\ w.row = written
        /\ DOMAIN w = DOMAIN d
    BY <1>3 DEF DbInv, DbType
  <2> HIDE DEF w
  <2>2. DbType(w)
    BY <1>2, <1>3, <2>1 DEF DbInv, DbType, Exists
  <2>3. DbInv(w)
    BY <1>3, <2>1, <2>2, SameLedger
  <2>4. Extends(d, w)
    BY <1>3, <2>1 DEF Extends, DbInv, DbType
  <2> QED
    BY <2>3, <2>4 DEF w
<1>4. DbInv(db') /\ Extends(db, db')
  BY <1>1, <1>3 DEF IInv
<1>5. ASSUME ~Unlocked
      PROVE  TxnInv(txn', db')
  <2>1. TxnInv(txn, db) /\ DbInv(txn.work) /\ DbInv(db)
    BY <1>5 DEF IInv, TxnInv
  <2>2. /\ txn'.work = [txn.work EXCEPT !.row = written] /\ txn'.batch = txn.batch
        /\ txn'.results = txn.results /\ txn'.capable = txn.capable
        /\ DOMAIN txn' = DOMAIN txn
    BY <1>1, <1>5, <2>1 DEF TxnInv, TxnType
  <2>3. DbInv(txn'.work)
    BY <1>3, <2>1, <2>2
  <2>4. /\ txn'.work.changes = txn.work.changes /\ db'.changes = db.changes
        /\ txn'.work.retained = txn.work.retained /\ db'.retained = db.retained
        /\ txn'.work.conflicts = txn.work.conflicts /\ db'.conflicts = db.conflicts
    BY <1>1, <2>1, <2>2 DEF DbInv, DbType
  <2>5. TxnType(txn')
    BY <2>1, <2>2, <2>3 DEF TxnInv, TxnType, DbInv
  <2>6. Extends(db', txn'.work)
    BY <2>1, <2>4 DEF TxnInv, Extends
  <2> DEFINE Own(t, changes, n) ==
               \A k \in DOMAIN changes :
                 k > n /\ changes[k].id \in OpId =>
                   \E i \in DOMAIN t.results : t.batch[i].id = changes[k].id
             TellsOf(t, changes, n) ==
               \A i \in DOMAIN t.results :
                 LET r == t.results[i]
                 IN Succeeded(r) => /\ r.seq \in DOMAIN changes
                                    /\ changes[r.seq].id = r.op
                                    /\ changes[r.seq].version = r.version
                                    /\ r.status = "applied" <=> r.seq > n
  <2>7. Own(txn, txn.work.changes, Len(db.changes)) /\ TellsOf(txn, txn.work.changes, Len(db.changes))
    BY <2>1 DEF TxnInv
  <2>8. Own(txn', txn'.work.changes, Len(db'.changes)) /\ TellsOf(txn', txn'.work.changes, Len(db'.changes))
    BY <2>2, <2>4, <2>7
  <2>9. \A i, j \in DOMAIN txn'.batch : txn'.batch[i].id = txn'.batch[j].id => i = j
    BY <2>1, <2>2 DEF TxnInv
  <2> QED
    BY <2>3, <2>5, <2>6, <2>8, <2>9 DEF TxnInv
<1> QED
  BY <1>1, <1>4, <1>5 DEF IInv, Unlocked

LEMMA DirectInv ==
  IInv /\ (DirectWrite \/ DirectMemoryReads \/ DirectMemoryWrites)
    => IInv' /\ Extends(db, db')
<1>1. IInv /\ DirectWrite => IInv' /\ Extends(db, db')
  BY WriteRowKeeps DEF DirectWrite, IInv
<1>2. IInv /\ DirectMemoryReads => IInv' /\ Extends(db, db')
  BY ExtendsReflexive DEF DirectMemoryReads, IInv, Unlocked
<1>3. IInv /\ DirectMemoryWrites => IInv' /\ Extends(db, db')
  BY WriteRowKeeps DEF DirectMemoryWrites, IInv
<1> QED
  BY <1>1, <1>2, <1>3

\* A backup copies the committed database; a restore only renames its epoch.
LEMMA BackupInv == IInv /\ (TakeBackup \/ RestoreBackup) => IInv'
<1>1. IInv /\ TakeBackup => IInv'
  BY DEF IInv, TakeBackup, Unlocked
<1>2. ASSUME IInv, RestoreBackup
      PROVE  IInv'
  <2>1. db' = [backup EXCEPT !.epoch = epochs + 1] /\ epochs + 1 \in Nat
    BY <1>2 DEF RestoreBackup, IInv
  <2>2. /\ db'.changes = backup.changes /\ db'.processed = backup.processed
        /\ db'.retained = backup.retained /\ db'.conflicts = backup.conflicts
        /\ db'.row = backup.row /\ db'.space = backup.space
        /\ db'.epoch = epochs + 1 /\ DOMAIN db' = DOMAIN backup
    BY <1>2, <2>1 DEF IInv, DbInv, DbType
  <2>3. DbType(db')
    BY <1>2, <2>1, <2>2 DEF IInv, DbInv, DbType, Exists
  <2>4. DbInv(db')
    BY <1>2, <2>2, <2>3, SameLedger DEF IInv
  <2> QED
    BY <1>2, <2>1, <2>4 DEF IInv, RestoreBackup, Unlocked
<1> QED
  BY <1>1, <1>2

\* The invariant is inductive.
LEMMA NextInv == IInv /\ [Next]_vars => IInv'
<1>1. IInv /\ UNCHANGED vars => IInv'
  BY DEF IInv, vars, Unlocked
<1> QED
  BY <1>1, BeginPushInv, PushOneInv, EndOfPushInv, OnlineInv, DirectInv, BackupInv
  DEF Next

\* DbInv of the three databases, and what a push in progress owes them,
\* holds in every reachable state.
THEOREM Invariance == Spec => []IInv
  BY InitInv, NextInv, PTL DEF Spec

-----------------------------------------------------------------------------
(* What follows from it.                                                   *)

\* Type correctness: no handler, batch, backup or restore leaves the types.
THEOREM TypeCorrect == Spec => []TypeOK
<1>1. IInv => TypeOK
  BY DEF IInv, DbInv, TxnInv, TypeOK
<1> QED
  BY <1>1, Invariance, PTL

\* Idempotency rows and change rows correspond one to one in the committed
\* database, in the copy of a push and in every backup, so an operation id
\* delivered any number of times is in the ledger at most once.
THEOREM ChangePerOperation == Spec => []OneChangePerOperation
<1>1. IInv => OneChangePerOperation
  BY DEF IInv, DbInv, TxnInv, OneChangePerOperation, Databases
<1> QED
  BY <1>1, Invariance, PTL

\* Every answer of success a push collects names the change the ledger
\* holds of its operation, also when it is a replay of an earlier delivery.
THEOREM TruthfulAnswers == Spec => []AnswersMatchLedger
<1>1. IInv => AnswersMatchLedger
  BY DEF IInv, TxnInv, AnswersMatchLedger
<1> QED
  BY <1>1, Invariance, PTL

\* A step that draws no new epoch extends the committed database.
LEMMA StepExtends ==
  ASSUME IInv, Next, epochs' = epochs
  PROVE  Extends(db, db')
<1>1. CASE db' = db
  BY <1>1, ExtendsReflexive DEF IInv
<1>2. CASE CommitPush
  BY <1>2 DEF CommitPush, Finished, IInv, TxnInv
<1>3. CASE OnlineWrite \/ ChangeLifecycle
  BY <1>3, OnlineInv
<1>4. CASE DirectWrite \/ DirectMemoryReads \/ DirectMemoryWrites
  BY <1>4, DirectInv
<1>5. CASE RestoreBackup
  BY <1>5 DEF RestoreBackup, IInv
<1> QED
  BY <1>1, <1>2, <1>3, <1>4, <1>5
  DEF Next, BeginPush, PushOne, UpgradeRollback, Crash, TakeBackup

\* Within an epoch the committed ledger only grows, its floor only rises,
\* and a closed conflict is not touched again.
THEOREM HistoryKept == Spec => HistoryIsKept
<1>1. IInv /\ [Next]_vars => [epochs' = epochs => Extends(db, db')]_vars
  BY StepExtends
<1> QED
  BY <1>1, Invariance, PTL DEF Spec, HistoryIsKept

-----------------------------------------------------------------------------
(* Refinement.                                                             *)

\* The committed database extends the one the last backup saved, so a restore
\* goes back to a point the log has been at.
BackupIsPast == Extends(backup, db)

LEMMA BackupStaysPast == IInv /\ IInv' /\ BackupIsPast /\ [Next]_vars => BackupIsPast'
<1> SUFFICES ASSUME IInv, IInv', BackupIsPast, [Next]_vars PROVE BackupIsPast'
  OBVIOUS
<1>1. CASE UNCHANGED <<db, backup>>
  BY <1>1 DEF BackupIsPast, Extends
<1>2. CASE backup' = backup /\ Extends(db, db')
  BY <1>2, ExtendsTransitive DEF IInv, DbInv, BackupIsPast
<1>3. CASE TakeBackup
  BY <1>3, ExtendsReflexive DEF TakeBackup, IInv, BackupIsPast
<1>4. CASE RestoreBackup
  <2>1. /\ db'.changes = backup.changes /\ db'.retained = backup.retained
        /\ db'.conflicts = backup.conflicts /\ backup' = backup
    BY <1>4 DEF RestoreBackup, IInv, DbInv, DbType
  <2> QED
    BY <2>1, ExtendsReflexive DEF IInv, BackupIsPast, Extends
<1>5. CASE CommitPush
  BY <1>2, <1>5 DEF CommitPush, Finished, IInv, TxnInv
<1>6. CASE OnlineWrite \/ ChangeLifecycle
  BY <1>2, <1>6, OnlineInv DEF OnlineWrite, ChangeLifecycle
<1>7. CASE DirectWrite \/ DirectMemoryReads \/ DirectMemoryWrites
  BY <1>2, <1>7, DirectInv DEF DirectWrite, DirectMemoryReads, DirectMemoryWrites
<1> QED
  BY <1>1, <1>3, <1>4, <1>5, <1>6, <1>7
  DEF Next, vars, BeginPush, PushOne, UpgradeRollback, Crash

\* Every step of the server is a step of the log it implements, or none.
LEMMA StepIsLogStep ==
  IInv /\ IInv' /\ BackupIsPast /\ [Next]_vars => [Ledger!LogNext]_<<db.changes, epochs>>
<1> SUFFICES ASSUME IInv, IInv', BackupIsPast, Next
             PROVE  Ledger!LogNext \/ UNCHANGED <<db.changes, epochs>>
  BY DEF vars
<1>1. CASE epochs' = epochs
  <2>1. Extends(db, db')
    BY <1>1, StepExtends
  <2>2. Ledger!StartsWith(db'.changes, db.changes)
    BY <2>1 DEF Extends, Ledger!StartsWith
  <2>3. Ledger!OncePerOperation(db'.changes)
    BY DEF IInv, DbInv, Matched, Ledger!OncePerOperation
  <2> QED
    BY <1>1, <2>2, <2>3 DEF Ledger!LogNext, Ledger!AddChanges
<1>2. CASE epochs' # epochs
  <2>1. RestoreBackup
    BY <1>2 DEF Next, BeginPush, PushOne, CommitPush, UpgradeRollback, Crash, OnlineWrite,
      DirectWrite, DirectMemoryReads, DirectMemoryWrites, ChangeLifecycle, TakeBackup
  <2>2. db'.changes = backup.changes /\ epochs' > epochs
    BY <2>1 DEF RestoreBackup, IInv, DbInv, DbType
  <2>3. Ledger!StartsWith(db.changes, db'.changes)
    BY <2>2 DEF BackupIsPast, Extends, Ledger!StartsWith
  <2> QED
    BY <2>2, <2>3 DEF Ledger!LogNext, Ledger!GoBack
<1> QED
  BY <1>1, <1>2

\* The server's ledger implements the abstract change log: it starts empty,
\* and every push, replay, online write, crash, backup and restore maps to an
\* addition of whole operations, a return to the past in a new epoch, or
\* nothing.
THEOREM LedgerIsChangeLog == Spec => IsChangeLog
<1>1. Init => Ledger!LogInit
  BY DEF Init, EmptyDb, Ledger!LogInit
<1>2. Init => BackupIsPast
  BY DEF Init, EmptyDb, BackupIsPast, Extends
<1>3. Spec => []BackupIsPast
  BY <1>2, BackupStaysPast, Invariance, PTL DEF Spec
<1> QED
  BY <1>1, <1>3, StepIsLogStep, Invariance, PTL DEF Spec, IsChangeLog, Ledger!LogSpec

-----------------------------------------------------------------------------
(* What the ledger tells of the rows: versions name contents, conflicts    *)
(* end once, rows name live parents.  Contents is about one database;      *)
(* Tells and Overtakes say how a step may move it on.                      *)

\* What the row of x holds, as a change would tell it.
Now(d, x) ==
  IF x = Space THEN [version |-> d.space.version, payload |-> Empty, tombstone |-> FALSE]
  ELSE [version |-> d.row[x].version, payload |-> Shown(d, x),
        tombstone |-> d.row[x].deleted]

SameContent(c, s) ==
  c.version = s.version /\ c.payload = s.payload /\ c.tombstone = s.tombstone

\* c was told before s, or is s.
Precedes(c, s) ==
  /\ c.version <= s.version
  /\ c.version = s.version => SameContent(c, s)

\* The changes of an entity follow one another, and the last one its row.
Told(d) ==
  \A i \in DOMAIN d.changes :
    /\ Precedes(d.changes[i], Now(d, d.changes[i].entity))
    /\ \A j \in 1..(i - 1) :
         d.changes[j].entity = d.changes[i].entity => Precedes(d.changes[j], d.changes[i])

\* What the author of a conflict was shown.
RemoteOf(r) ==
  [version |-> r.remoteVersion, payload |-> r.remotePayload, tombstone |-> r.remoteDeleted]

\* A recorded conflict shows a content its entity had.
Witnessed(d) ==
  \A c \in DOMAIN d.conflicts :
    LET r == d.conflicts[c]
    IN /\ r.remoteVersion > 0
       /\ Precedes(RemoteOf(r), Now(d, r.entity))
       /\ r.remoteDeleted => Kind[r.entity] \in DeleteModels

\* Of the kinds that are not deleted by a request of their own, only links
\* are deleted at all, with the topic they name.
DeletedWithParent(d) ==
  \A e \in Entity :
    Gone(d, e) /\ Kind[e] \notin DeleteModels =>
      Kind[e] = "source_link" /\ Parent[e] # None /\ Gone(d, Parent[e])

\* A closed conflict names the operation that closed it, and a resolution the
\* conflict it closed.
NamesCloser(d, c) ==
  IF d.conflicts[c].status = "open" THEN d.conflicts[c].resolvedBy = None
  ELSE /\ d.conflicts[c].resolvedBy \in DOMAIN d.processed
       /\ d.processed[d.conflicts[c].resolvedBy].res.conflict = c
NamesClosed(d, id) ==
  LET c == d.processed[id].res.conflict
  IN /\ c \in DOMAIN d.conflicts
     /\ d.conflicts[c].status # "open" /\ d.conflicts[c].resolvedBy = id
ClosedOnce(d) ==
  /\ \A c \in DOMAIN d.conflicts : NamesCloser(d, c)
  /\ \A id \in DOMAIN d.processed \cap OpId :
       d.processed[id].res # None => NamesClosed(d, id)

\* The change of a resolution replaces the version that was expected.
Replaced(d, i) ==
  LET change == d.changes[i]
      res == d.processed[change.id].res
  IN change.id \in OpId /\ res # None =>
       /\ change.version = res.expected + (IF res.choice = "keep_remote" THEN 0 ELSE 1)
       /\ \A j \in 1..(i - 1) :
            d.changes[j].entity = change.entity => d.changes[j].version <= res.expected
ReplacesShown(d) == \A i \in DOMAIN d.changes : Replaced(d, i)

HistoryInv(d) ==
  /\ Told(d)
  /\ Witnessed(d)
  /\ DeletedWithParent(d)
  /\ ClosedOnce(d)
  /\ ReplacesShown(d)

\* A push that has written nothing reads the committed rows, which the older
\* REST routes may still move.
Reading(t, d) ==
  (\A i \in DOMAIN t.results : t.results[i].status # "applied") => t.work.row = d.row

\* The newest change of e, if there is one, tells what its row holds.
TellsRow(d, e) ==
  \/ ~Exists(d, e) /\ \A i \in DOMAIN d.changes : d.changes[i].entity # e
  \/ \E i \in DOMAIN d.changes :
       /\ d.changes[i].entity = e
       /\ SameContent(d.changes[i], Now(d, e))
       /\ \A j \in DOMAIN d.changes : j > i => d.changes[j].entity # e

RowsTold(d) == \A e \in Entity : Kind[e] \notin DirectKinds => TellsRow(d, e)

RefsLive(d) ==
  \A c \in Entity : Live(d, c) /\ Names(c, d.row[c].payload) => Live(d, Parent[c])

\* What the databases owe their readers.  The creation of a quiz item through
\* the older REST routes looks at its topic before it waits for the lock: where
\* there is none, live rows name live rows.
Contents(d) ==
  /\ HistoryInv(d)
  /\ RowsTold(d)
  /\ "quiz_item" \notin DirectKinds => RefsLive(d)

CInv ==
  /\ Contents(db)
  /\ Contents(backup)
  /\ \A e \in waiting : Kind[e] \in DirectKinds \cap {"topic", "quiz_item"}
  /\ ~Unlocked => Contents(txn.work) /\ Reading(txn, db)

-----------------------------------------------------------------------------
(* The relations a step stands in to the database before it.               *)

\* Some change w has above d is about x, and one of them is the last.
NewlyTold(d, w, x) ==
  \E i \in DOMAIN w.changes :
    /\ i > Len(d.changes) /\ w.changes[i].entity = x
    /\ \A j \in DOMAIN w.changes : j > i => w.changes[j].entity # x

\* The changes w has above d tell its rows, and every row that has moved is
\* told, at a version of its own.
Tells(d, w) ==
  /\ Len(d.changes) <= Len(w.changes)
  /\ \A i \in 1..Len(d.changes) : w.changes[i] = d.changes[i]
  /\ \A i \in DOMAIN w.changes :
       i > Len(d.changes) => SameContent(w.changes[i], Now(w, w.changes[i].entity))
  /\ \A x \in Entity \cup {Space} :
       \/ Now(w, x) = Now(d, x)
       \/ Now(w, x).version > Now(d, x).version /\ NewlyTold(d, w, x)
  /\ \A i \in DOMAIN w.changes :
       i > Len(d.changes) => NewlyTold(d, w, w.changes[i].entity)

\* Rows that have moved without a change are at a version of their own.
Overtakes(d, w) ==
  /\ w.changes = d.changes
  /\ \A x \in Entity \cup {Space} :
       Now(w, x) = Now(d, x) \/ Now(w, x).version > Now(d, x).version

\* Versions are numbers.
LEMMA VersionsAreNat ==
  ASSUME NEW d, DbType(d)
  PROVE  /\ \A x \in Entity \cup {Space} : Now(d, x).version \in Nat
         /\ \A i \in DOMAIN d.changes :
              d.changes[i].version \in Nat /\ d.changes[i].entity \in Entity \cup {Space}
         /\ Len(d.changes) \in Nat /\ DOMAIN d.changes = 1..Len(d.changes)
<1>1. d.space.version \in Nat /\ \A e \in Entity : d.row[e].version \in Nat
  BY DEF DbType, RowType
<1>2. \A x \in Entity \cup {Space} : Now(d, x).version \in Nat
  BY <1>1 DEF Now
<1>3. d.changes \in Seq(ChangeType)
  BY DEF DbType
<1>4. \A c \in ChangeType : c.version \in Nat /\ c.entity \in Entity \cup {Space}
  BY DEF ChangeType
<1> QED
  BY <1>2, <1>3, <1>4

\* A content that precedes a row precedes what the row becomes.
LEMMA PrecedesOn ==
  ASSUME NEW c, NEW s, NEW t, c.version \in Nat, s.version \in Nat, t.version \in Nat,
         Precedes(c, s), t = s \/ t.version > s.version
  PROVE  Precedes(c, t)
  BY DEF Precedes, SameContent

LEMMA TellsKeepsTold ==
  ASSUME NEW d, NEW w, DbType(d), DbType(w), Told(d), Tells(d, w)
  PROVE  Told(w)
<1>1. ASSUME NEW i \in DOMAIN w.changes, i <= Len(d.changes)
      PROVE  /\ i \in DOMAIN d.changes /\ w.changes[i] = d.changes[i]
             /\ Precedes(w.changes[i], Now(w, w.changes[i].entity))
  <2>1. i \in DOMAIN d.changes /\ w.changes[i] = d.changes[i]
    BY <1>1, VersionsAreNat DEF Tells
  <2>2. Precedes(d.changes[i], Now(d, d.changes[i].entity))
    BY <2>1 DEF Told
  <2> QED
    BY <2>1, <2>2, VersionsAreNat, PrecedesOn DEF Tells
<1>2. ASSUME NEW i \in DOMAIN w.changes, i > Len(d.changes)
      PROVE  /\ SameContent(w.changes[i], Now(w, w.changes[i].entity))
             /\ Precedes(w.changes[i], Now(w, w.changes[i].entity))
  BY <1>2, VersionsAreNat DEF Tells, Precedes, SameContent
<1>3. ASSUME NEW i \in DOMAIN w.changes, NEW j \in 1..(i - 1),
             w.changes[j].entity = w.changes[i].entity
      PROVE  Precedes(w.changes[j], w.changes[i])
  <2>1. j \in DOMAIN w.changes /\ i \in Nat /\ j < i
    BY VersionsAreNat
  <2>2. CASE i <= Len(d.changes)
    <3>1. /\ i \in DOMAIN d.changes /\ w.changes[i] = d.changes[i]
          /\ j \in DOMAIN d.changes /\ w.changes[j] = d.changes[j]
      BY <1>1, <2>1, <2>2, VersionsAreNat
    <3> QED
      BY <1>3, <3>1 DEF Told
  <2>3. CASE i > Len(d.changes)
    <3>1. SameContent(w.changes[i], Now(w, w.changes[i].entity))
      BY <1>2, <2>3
    <3>2. Precedes(w.changes[j], Now(w, w.changes[i].entity))
      BY <1>1, <1>2, <1>3, <2>1, VersionsAreNat
    <3> QED
      BY <3>1, <3>2 DEF Precedes, SameContent
  <2> QED
    BY <2>1, <2>2, <2>3, VersionsAreNat
<1>4. \A i \in DOMAIN w.changes : Precedes(w.changes[i], Now(w, w.changes[i].entity))
  BY <1>1, <1>2, VersionsAreNat
<1> QED
  BY <1>3, <1>4 DEF Told

LEMMA OvertakesKeepsTold ==
  ASSUME NEW d, NEW w, DbType(d), DbType(w), Told(d), Overtakes(d, w)
  PROVE  Told(w)
<1>1. \A i \in DOMAIN d.changes : Precedes(d.changes[i], Now(w, d.changes[i].entity))
  BY VersionsAreNat, PrecedesOn DEF Overtakes, Told
<1> QED
  BY <1>1 DEF Overtakes, Told

\* What an author was shown stays a content of the past.
LEMMA WitnessedOn ==
  ASSUME NEW d, NEW w, DbType(d), DbType(w), Witnessed(d), w.conflicts = d.conflicts,
         \A x \in Entity : Now(w, x) = Now(d, x) \/ Now(w, x).version > Now(d, x).version
  PROVE  Witnessed(w)
<1> SUFFICES ASSUME NEW c \in DOMAIN d.conflicts
             PROVE  Precedes(RemoteOf(d.conflicts[c]), Now(w, d.conflicts[c].entity))
  BY DEF Witnessed
<1> DEFINE r == d.conflicts[c]
<1>1. r.entity \in Entity /\ RemoteOf(r).version \in Nat
  BY DEF DbType, ConflictType, RemoteOf
<1>2. Precedes(RemoteOf(r), Now(d, r.entity))
  BY DEF Witnessed
<1> HIDE DEF r
<1>3. Precedes(RemoteOf(r), Now(w, r.entity))
  BY <1>1, <1>2, VersionsAreNat, PrecedesOn
<1> QED
  BY <1>3 DEF r

\* A row nobody writes beside the ledger is told after a step as before it.
LEMMA TellsKeepsRows ==
  ASSUME NEW d, NEW w, DbType(d), DbType(w), Tells(d, w),
         NEW e \in Entity, TellsRow(d, e)
  PROVE  TellsRow(w, e)
<1> USE VersionsAreNat
<1>1. e # Space
  BY LedgerConstants
<1>2. CASE \E i \in DOMAIN w.changes : i > Len(d.changes) /\ w.changes[i].entity = e
  <2>1. NewlyTold(d, w, e)
    BY <1>2 DEF Tells
  <2> QED
    BY <2>1 DEF NewlyTold, Tells, TellsRow
<1>3. CASE ~\E i \in DOMAIN w.changes : i > Len(d.changes) /\ w.changes[i].entity = e
  <2>1. Now(w, e) = Now(d, e)
    BY <1>3 DEF Tells, NewlyTold
  <2>2. Exists(w, e) <=> Exists(d, e)
    BY <1>1, <2>1 DEF Exists, Now
  <2>3. \A i \in DOMAIN d.changes : i \in DOMAIN w.changes /\ w.changes[i] = d.changes[i]
    BY DEF Tells
  <2>4. \A i \in DOMAIN w.changes : w.changes[i].entity = e => i \in DOMAIN d.changes
    BY <1>3
  <2> QED
    BY <2>1, <2>2, <2>3, <2>4 DEF TellsRow
<1> QED
  BY <1>2, <1>3

\* The idempotency rows w has above d: that of op, and those of derived
\* operations.
Identified(d, w, op) ==
  /\ DOMAIN d.processed \cup {op.id} \subseteq DOMAIN w.processed
  /\ \A id \in DOMAIN d.processed : w.processed[id] = d.processed[id]
  /\ w.processed[op.id] = op
  /\ DOMAIN w.processed \cap OpId \subseteq DOMAIN d.processed \cup {op.id}

\* An operation that was applied and closed no conflict.
Moved(d, op, w) ==
  /\ Tells(d, w)
  /\ Identified(d, w, op)
  /\ OnlyNew(d, w, op.id)
  /\ w.conflicts = d.conflicts
  /\ DeletedWithParent(w)

\* An operation that was not applied: it may have recorded a conflict.
Unmoved(d, w) ==
  /\ w.changes = d.changes /\ w.processed = d.processed
  /\ w.row = d.row /\ w.space = d.space
  /\ \A c \in DOMAIN d.conflicts : c \in DOMAIN w.conflicts /\ w.conflicts[c] = d.conflicts[c]
  /\ \A c \in DOMAIN w.conflicts \ DOMAIN d.conflicts :
       LET r == w.conflicts[c]
       IN /\ r.status = "open" /\ r.resolvedBy = None
          /\ r.remoteVersion > 0
          /\ Precedes(RemoteOf(r), Now(d, r.entity))
          /\ r.remoteDeleted => Kind[r.entity] \in DeleteModels

\* The change of op is the last one of w, and the only one it has on its entity.
Wrote(d, op, w, version) ==
  LET n == Len(d.changes) + 1
  IN /\ Len(w.changes) = n
     /\ w.changes[n].entity = op.entity /\ w.changes[n].version = version

LEMMA UnmovedKeeps ==
  ASSUME NEW d, NEW w, HistoryInv(d), Unmoved(d, w)
  PROVE  HistoryInv(w)
<1>1. \A x : Now(w, x) = Now(d, x)
  BY DEF Unmoved, Now, Shown
<1>2. w.changes = d.changes /\ w.row = d.row /\ w.processed = d.processed
  BY DEF Unmoved
<1>3. Told(w)
  <2>1. Told(d)
    BY DEF HistoryInv
  <2> QED
    BY <1>1, <1>2, <2>1 DEF Told
<1>4. ReplacesShown(w)
  <2>1. ReplacesShown(d)
    BY DEF HistoryInv
  <2> QED
    BY <1>2, <2>1 DEF ReplacesShown, Replaced
<1>5. DeletedWithParent(w)
  <2>1. DeletedWithParent(d)
    BY DEF HistoryInv
  <2> QED
    BY <1>2, <2>1 DEF DeletedWithParent, Gone, Exists
<1>6. Witnessed(w)
  <2>1. Witnessed(d)
    BY DEF HistoryInv
  <2>2. \A c \in DOMAIN w.conflicts \cap DOMAIN d.conflicts : w.conflicts[c] = d.conflicts[c]
    BY DEF Unmoved
  <2>3. \A c \in DOMAIN w.conflicts \ DOMAIN d.conflicts :
          LET r == w.conflicts[c]
          IN /\ r.remoteVersion > 0
             /\ Precedes(RemoteOf(r), Now(d, r.entity))
             /\ r.remoteDeleted => Kind[r.entity] \in DeleteModels
    BY DEF Unmoved
  <2> QED
    BY <1>1, <2>1, <2>2, <2>3 DEF Witnessed
<1>7. ClosedOnce(w)
  <2>1. ClosedOnce(d)
    BY DEF HistoryInv
  <2>2. /\ \A c \in DOMAIN d.conflicts :
             c \in DOMAIN w.conflicts /\ w.conflicts[c] = d.conflicts[c]
        /\ \A c \in DOMAIN w.conflicts \ DOMAIN d.conflicts :
             w.conflicts[c].status = "open" /\ w.conflicts[c].resolvedBy = None
    BY DEF Unmoved
  <2>3. ASSUME NEW c \in DOMAIN w.conflicts
        PROVE  NamesCloser(w, c)
    <3>1. CASE c \in DOMAIN d.conflicts
      <4>1. NamesCloser(d, c) /\ w.conflicts[c] = d.conflicts[c]
        BY <2>1, <2>2, <3>1 DEF ClosedOnce
      <4> QED
        BY <1>2, <4>1 DEF NamesCloser
    <3>2. CASE c \notin DOMAIN d.conflicts
      BY <2>2, <3>2 DEF NamesCloser
    <3> QED
      BY <3>1, <3>2
  <2>4. ASSUME NEW id \in DOMAIN w.processed \cap OpId, w.processed[id].res # None
        PROVE  NamesClosed(w, id)
    <3>1. NamesClosed(d, id)
      BY <1>2, <2>1, <2>4 DEF ClosedOnce
    <3> QED
      BY <1>2, <2>2, <3>1 DEF NamesClosed
  <2> QED
    BY <2>3, <2>4 DEF ClosedOnce
<1> QED
  BY <1>3, <1>4, <1>5, <1>6, <1>7 DEF HistoryInv

\* What is said of the replacements of the past is not unsaid.
LEMMA OldReplacements ==
  ASSUME NEW d, NEW w, NEW op, DbInv(d), ReplacesShown(d), Tells(d, w),
         Identified(d, w, op), NEW i \in DOMAIN d.changes
  PROVE  Replaced(w, i)
<1>1. \A j \in 1..i : j \in DOMAIN d.changes /\ w.changes[j] = d.changes[j]
  BY DEF DbInv, DbType, Tells
<1>2. i \in 1..i /\ i \in Nat
  BY DEF DbInv, DbType
<1>3. d.changes[i].id \in DOMAIN d.processed
  BY DEF DbInv, Matched
<1>4. w.processed[d.changes[i].id] = d.processed[d.changes[i].id]
  BY <1>3 DEF Identified
<1>5. Replaced(d, i)
  BY DEF ReplacesShown
<1>6. w.changes[i] = d.changes[i] /\ \A j \in 1..(i - 1) : w.changes[j] = d.changes[j]
  BY <1>1, <1>2
<1> QED
  BY <1>4, <1>5, <1>6 DEF Replaced

\* An applied operation that resolves nothing keeps the history.
LEMMA MovedKeeps ==
  ASSUME NEW d, NEW w, NEW op \in IdentityType, DbInv(d), DbInv(w), HistoryInv(d),
         Moved(d, op, w), op.id \notin DOMAIN d.processed, op.res = None
  PROVE  HistoryInv(w)
<1>1. Told(w)
  BY TellsKeepsTold DEF Moved, HistoryInv, DbInv
<1>2. Witnessed(w)
  BY WitnessedOn DEF Moved, HistoryInv, DbInv, Tells
<1>3. ClosedOnce(w)
  <2>1. ClosedOnce(d)
    BY DEF HistoryInv
  <2>2. /\ w.conflicts = d.conflicts
        /\ \A id \in DOMAIN d.processed : id \in DOMAIN w.processed
                                           /\ w.processed[id] = d.processed[id]
        /\ w.processed[op.id].res = None
        /\ DOMAIN w.processed \cap OpId \subseteq DOMAIN d.processed \cup {op.id}
    BY DEF Moved, Identified
  <2>3. ASSUME NEW c \in DOMAIN w.conflicts
        PROVE  NamesCloser(w, c)
    <3>1. NamesCloser(d, c) /\ w.conflicts[c] = d.conflicts[c]
      BY <2>1, <2>2 DEF ClosedOnce
    <3> QED
      BY <2>2, <3>1 DEF NamesCloser
  <2>4. ASSUME NEW id \in DOMAIN w.processed \cap OpId, w.processed[id].res # None
        PROVE  NamesClosed(w, id)
    <3>1. id \in DOMAIN d.processed \cap OpId /\ w.processed[id] = d.processed[id]
      BY <2>2, <2>4
    <3>2. NamesClosed(d, id)
      BY <2>1, <2>4, <3>1 DEF ClosedOnce
    <3> QED
      BY <2>2, <3>1, <3>2 DEF NamesClosed
  <2> QED
    BY <2>3, <2>4 DEF ClosedOnce
<1>4. ReplacesShown(w)
  <2> SUFFICES ASSUME NEW i \in DOMAIN w.changes, w.changes[i].id \in OpId,
                      w.processed[w.changes[i].id].res # None,
                      i \notin DOMAIN d.changes
               PROVE  FALSE
    BY OldReplacements DEF Moved, HistoryInv, ReplacesShown, Replaced
  <2>1. i > Len(d.changes)
    BY DEF DbInv, DbType
  <2>2. w.changes[i].id = op.id
    BY <2>1 DEF Moved, OnlyNew
  <2> QED
    BY <2>2 DEF Moved, Identified
<1> QED
  BY <1>1, <1>2, <1>3, <1>4 DEF HistoryInv, Moved

\* An applied resolution of the open conflict c, which it closes, keeps it.
LEMMA ResolvedKeeps ==
  ASSUME NEW d, NEW w, NEW v, NEW op \in Operation, NEW version \in Nat,
         DbInv(d), DbInv(w), DbType(v), HistoryInv(d), Moved(d, op, w),
         Wrote(d, op, w, version),
         op.id \notin DOMAIN d.processed, op.res # None,
         op.res.conflict \in DOMAIN d.conflicts,
         d.conflicts[op.res.conflict].status = "open",
         d.row[op.entity].version = op.res.expected,
         version = op.res.expected + (IF op.res.choice = "keep_remote" THEN 0 ELSE 1),
         v.changes = w.changes, v.processed = w.processed, v.row = w.row, v.space = w.space,
         DOMAIN v.conflicts = DOMAIN w.conflicts,
         \A c \in DOMAIN w.conflicts \ {op.res.conflict} : v.conflicts[c] = w.conflicts[c],
         v.conflicts[op.res.conflict] =
           [w.conflicts[op.res.conflict] EXCEPT !.status = StatusOf(op.res.choice),
                                                !.resolvedBy = op.id]
  PROVE  HistoryInv(v)
<1> DEFINE closed == op.res.conflict
<1>1. /\ op.entity \in Entity /\ op.id \in OpId /\ op.entity # Space
      /\ DbType(d) /\ DbType(w)
  BY LedgerConstants DEF Operation, DbInv
<1>2. Told(w) /\ Witnessed(w) /\ DeletedWithParent(w)
  BY TellsKeepsTold, WitnessedOn DEF Moved, HistoryInv, DbInv, Tells
<1>3. \A x : Now(v, x) = Now(w, x)
  BY DEF Now, Shown
<1>4. Told(v) /\ DeletedWithParent(v)
  BY <1>2, <1>3 DEF Told, DeletedWithParent, Gone, Exists
<1>5. w.conflicts = d.conflicts
  BY DEF Moved
<1>6. w.conflicts[closed] \in ConflictType
  BY <1>1, <1>5 DEF DbType
<1>7. /\ v.conflicts[closed].resolvedBy = op.id
      /\ v.conflicts[closed].status = StatusOf(op.res.choice)
      /\ v.conflicts[closed].entity = w.conflicts[closed].entity
      /\ v.conflicts[closed].remoteVersion = w.conflicts[closed].remoteVersion
      /\ v.conflicts[closed].remotePayload = w.conflicts[closed].remotePayload
      /\ v.conflicts[closed].remoteDeleted = w.conflicts[closed].remoteDeleted
  BY <1>6 DEF ConflictType
<1>8. Witnessed(v)
  <2> SUFFICES ASSUME NEW c \in DOMAIN w.conflicts
               PROVE  LET r == v.conflicts[c]
                      IN /\ r.remoteVersion > 0
                         /\ Precedes(RemoteOf(r), Now(w, r.entity))
                         /\ r.remoteDeleted => Kind[r.entity] \in DeleteModels
    BY <1>3 DEF Witnessed
  <2>1. CASE c = closed
    BY <1>2, <1>7, <2>1 DEF Witnessed, RemoteOf
  <2>2. CASE c # closed
    BY <1>2, <2>2 DEF Witnessed
  <2> QED
    BY <2>1, <2>2
<1>9. ClosedOnce(v)
  <2>1. StatusOf(op.res.choice) # "open"
    BY DEF StatusOf
  <2>2. /\ ClosedOnce(d)
        /\ \A c \in DOMAIN v.conflicts \ {closed} :
             c \in DOMAIN d.conflicts /\ v.conflicts[c] = d.conflicts[c]
        /\ \A c \in DOMAIN d.conflicts \ {closed} :
             c \in DOMAIN v.conflicts /\ v.conflicts[c] = d.conflicts[c]
    BY <1>5 DEF HistoryInv
  <2>3. /\ \A id \in DOMAIN d.processed : id \in DOMAIN v.processed
                                           /\ v.processed[id] = d.processed[id]
        /\ op.id \in DOMAIN v.processed /\ v.processed[op.id] = op
        /\ DOMAIN v.processed \cap OpId \subseteq DOMAIN d.processed \cup {op.id}
    BY DEF Moved, Identified
  <2>4. ASSUME NEW c \in DOMAIN v.conflicts
        PROVE  NamesCloser(v, c)
    <3>1. CASE c = closed
      BY <1>7, <2>1, <2>3, <3>1 DEF NamesCloser
    <3>2. CASE c # closed
      <4>1. NamesCloser(d, c) /\ v.conflicts[c] = d.conflicts[c]
        BY <2>2, <3>2 DEF ClosedOnce
      <4> QED
        BY <2>3, <4>1 DEF NamesCloser
    <3> QED
      BY <3>1, <3>2
  <2>5. ASSUME NEW id \in DOMAIN v.processed \cap OpId, v.processed[id].res # None
        PROVE  NamesClosed(v, id)
    <3>1. CASE id = op.id
      <4>1. closed \in DOMAIN v.conflicts
        BY <1>5
      <4> QED
        BY <1>7, <2>1, <2>3, <3>1, <4>1 DEF NamesClosed
    <3>2. CASE id # op.id
      <4>1. id \in DOMAIN d.processed \cap OpId /\ v.processed[id] = d.processed[id]
        BY <2>3, <3>2
      <4>2. NamesClosed(d, id)
        BY <2>2, <2>5, <4>1 DEF ClosedOnce
      <4>3. d.processed[id].res.conflict # closed
        BY <4>2 DEF NamesClosed
      <4> QED
        BY <2>2, <4>1, <4>2, <4>3 DEF NamesClosed
    <3> QED
      BY <3>1, <3>2
  <2> QED
    BY <2>4, <2>5 DEF ClosedOnce
<1>10. ReplacesShown(v)
  <2> SUFFICES ASSUME NEW i \in DOMAIN w.changes, w.changes[i].id \in OpId,
                      i \notin DOMAIN d.changes
               PROVE  Replaced(w, i)
    <3>1. ASSUME NEW i \in DOMAIN w.changes, Replaced(w, i)
          PROVE  Replaced(v, i)
      BY <3>1 DEF Replaced
    <3>2. \A i \in DOMAIN w.changes : w.changes[i].id \notin OpId => Replaced(w, i)
      BY DEF Replaced
    <3> QED
      BY <3>1, <3>2, OldReplacements DEF Moved, HistoryInv, ReplacesShown
  <2>1. i = Len(d.changes) + 1 /\ i > Len(d.changes)
    BY <1>1, VersionsAreNat DEF Wrote
  <2>2. w.changes[i].id = op.id /\ w.processed[w.changes[i].id] = op
    BY <2>1 DEF Moved, OnlyNew, Identified
  <2>3. w.changes[i].entity = op.entity /\ w.changes[i].version = version
    BY <2>1 DEF Wrote
  <2>4. ASSUME NEW j \in 1..(i - 1), w.changes[j].entity = op.entity
        PROVE  w.changes[j].version <= op.res.expected
    <3>1. j \in DOMAIN d.changes /\ w.changes[j] = d.changes[j]
      BY <1>1, <2>1, VersionsAreNat DEF Moved, Tells
    <3>2. d.changes[j].version <= Now(d, op.entity).version
      BY <2>4, <3>1 DEF HistoryInv, Told, Precedes
    <3>3. Now(d, op.entity).version = op.res.expected
      BY <1>1 DEF Now
    <3> QED
      BY <3>1, <3>2, <3>3
  <2> QED
    BY <2>2, <2>3, <2>4 DEF Replaced
<1> QED
  BY <1>4, <1>8, <1>9, <1>10 DEF HistoryInv

-----------------------------------------------------------------------------
(* What the handlers do.                                                   *)

\* One row may have moved, and one change is appended that tells it.
LEMMA AppendTells ==
  ASSUME NEW d, NEW m, NEW op \in IdentityType, NEW version \in Nat,
         NEW payload \in Content, NEW tombstone \in BOOLEAN,
         DbType(d), DbType(m), op.id \in OpId, op.id \notin DOMAIN d.processed,
         m.changes = d.changes, m.processed = d.processed, m.conflicts = d.conflicts,
         \A x \in Entity \cup {Space} : x # op.entity => Now(m, x) = Now(d, x),
         Now(m, op.entity).version = version, Now(m, op.entity).payload = payload,
         Now(m, op.entity).tombstone = tombstone,
         \/ Now(m, op.entity) = Now(d, op.entity)
         \/ version > Now(d, op.entity).version
  PROVE  LET w == AppendApplied(m, op, version, payload, tombstone)
         IN /\ Tells(d, w) /\ Identified(d, w, op) /\ w.conflicts = d.conflicts
            /\ Wrote(d, op, w, version)
            /\ w.row = m.row /\ w.space = m.space
            /\ w.retained = m.retained /\ w.epoch = m.epoch /\ DOMAIN w = DOMAIN m
<1> DEFINE change == ChangeRow(op.id, op.entity, version, payload, tombstone, m.epoch)
           n == Len(d.changes) + 1
           w == AppendApplied(m, op, version, payload, tombstone)
<1>1. /\ w.changes = Append(d.changes, change)
      /\ w.processed = Put(d.processed, op.id, op)
      /\ w.row = m.row /\ w.space = m.space /\ w.conflicts = m.conflicts
      /\ w.retained = m.retained /\ w.epoch = m.epoch /\ DOMAIN w = DOMAIN m
  BY DEF AppendApplied, DbType
<1>2. /\ change.entity = op.entity /\ change.version = version
      /\ change.payload = payload /\ change.tombstone = tombstone
  BY DEF ChangeRow
<1>3. d.changes \in Seq(ChangeType) /\ op.entity \in Entity \cup {Space}
  BY DEF DbType, IdentityType
<1> HIDE DEF w, change
<1>4. /\ Len(w.changes) = n /\ n \in Nat /\ DOMAIN w.changes = 1..n /\ w.changes[n] = change
      /\ \A i \in 1..Len(d.changes) : w.changes[i] = d.changes[i]
  BY <1>1, <1>3
<1>5. \A x \in Entity \cup {Space} : Now(w, x) = Now(m, x)
  BY <1>1 DEF Now, Shown
<1>6. NewlyTold(d, w, op.entity)
  BY <1>2, <1>3, <1>4 DEF NewlyTold
<1>7. \A i \in DOMAIN w.changes : i > Len(d.changes) => i = n
  BY <1>3, <1>4
<1>8. SameContent(w.changes[n], Now(w, w.changes[n].entity))
  BY <1>2, <1>3, <1>4, <1>5 DEF SameContent
<1>9. Tells(d, w)
  <2>1. ASSUME NEW x \in Entity \cup {Space}
        PROVE  \/ Now(w, x) = Now(d, x)
               \/ Now(w, x).version > Now(d, x).version /\ NewlyTold(d, w, x)
    BY <1>5, <1>6
  <2>2. \A i \in DOMAIN w.changes :
          i > Len(d.changes) => /\ SameContent(w.changes[i], Now(w, w.changes[i].entity))
                                /\ NewlyTold(d, w, w.changes[i].entity)
    BY <1>2, <1>4, <1>6, <1>7, <1>8
  <2>3. Len(d.changes) <= Len(w.changes)
    BY <1>3, <1>4
  <2> QED
    BY <1>4, <2>1, <2>2, <2>3 DEF Tells
<1>10. Identified(d, w, op)
  BY <1>1 DEF Identified, Put
<1> QED
  BY <1>1, <1>2, <1>4, <1>9, <1>10 DEF Wrote, w

\* What one row of the database is written to.
LEMMA WriteMoves ==
  ASSUME NEW d, NEW op \in Operation, DbInv(d), DeletedWithParent(d),
         op.id \notin DOMAIN d.processed, ~Refused(d, op), ~Gone(d, op.entity)
  PROVE  LET w == Write(d, op).db
         IN /\ Moved(d, op, w)
            /\ Wrote(d, op, w, d.row[op.entity].version + 1)
            /\ RefsLive(d) => RefsLive(w)
<1> DEFINE e == op.entity
           version == d.row[e].version + 1
           row == [version |-> version, deleted |-> FALSE, payload |-> op.payload]
           m == [d EXCEPT !.row[e] = row]
           w == Write(d, op).db
<1>1. /\ e \in Entity /\ op.payload \in Payload /\ op.id \in OpId /\ op \in IdentityType
      /\ e # Space
  BY LedgerConstants DEF Operation, IdentityType, AnyId, Refused
<1>2. version \in Nat /\ version > d.row[e].version /\ d.row[e].version \in Nat
      /\ op.payload \in Content /\ FALSE \in BOOLEAN /\ row \in RowType
  BY <1>1 DEF DbInv, DbType, RowType, Content
<1>3. /\ m.changes = d.changes /\ m.processed = d.processed /\ m.conflicts = d.conflicts
      /\ m.retained = d.retained /\ m.epoch = d.epoch /\ m.space = d.space
      /\ DOMAIN m = DOMAIN d /\ m.row = [d.row EXCEPT ![e] = row]
  BY DEF DbInv, DbType
<1>4. w = AppendApplied(m, op, version, op.payload, FALSE)
  BY DEF Write, Applied
<1>5. m.row[e] = row /\ \A c \in Entity : c # e => m.row[c] = d.row[c]
  BY <1>1, <1>3 DEF DbInv, DbType
<1> HIDE DEF m, w
<1>6. DbType(m)
  <2>1. m.row \in [Entity -> RowType]
    BY <1>2, <1>3 DEF DbInv, DbType
  <2>2. \A c \in Entity : Exists(m, c) => m.row[c].payload \in Payload
    BY <1>1, <1>5 DEF Exists, DbInv, DbType
  <2> QED
    BY <1>3, <2>1, <2>2 DEF DbInv, DbType
<1>7. \A x \in Entity \cup {Space} : x # e => Now(m, x) = Now(d, x)
  BY <1>3, <1>5 DEF Now, Shown
<1>8. /\ Now(m, e).version = version /\ Now(m, e).payload = op.payload
      /\ Now(m, e).tombstone = FALSE
  BY <1>1, <1>5 DEF Now, Shown
<1>9. version > Now(d, e).version
  BY <1>1, <1>2 DEF Now
<1>10. /\ Tells(d, w) /\ Identified(d, w, op) /\ w.conflicts = d.conflicts
       /\ Wrote(d, op, w, version) /\ w.row = m.row
  <2> HIDE DEF version, row
  <2>1. DbType(d)
    BY DEF DbInv
  <2>2. \A t \in BOOLEAN : Now(m, e).tombstone = t =>
          LET v == AppendApplied(m, op, version, op.payload, t)
          IN /\ Tells(d, v) /\ Identified(d, v, op) /\ v.conflicts = d.conflicts
             /\ Wrote(d, op, v, version) /\ v.row = m.row
    BY <1>1, <1>2, <1>3, <1>6, <1>7, <1>8, <1>9, <2>1, AppendTells
  <2> QED
    BY <1>4, <1>8, <2>2
<1>11. OnlyNew(d, w, op.id)
  <2>1. Handles(d, op.id, Write(d, op))
    BY <1>1, WriteKeeps
  <2>2. Handles(d, op.id, Write(d, op)) => OnlyNew(d, Write(d, op).db, op.id)
    BY DEF Handles, Keeps
  <2> QED
    BY <2>1, <2>2 DEF w
<1>12. /\ \A c \in Entity : Gone(w, c) <=> Gone(d, c)
       /\ \A c \in Entity : Live(d, c) => Live(w, c)
       /\ \A c \in Entity : Live(w, c) => c = e \/ Live(d, c)
  BY <1>1, <1>2, <1>5, <1>10 DEF Gone, Live, Exists
<1>13. DeletedWithParent(w)
  BY <1>12, LedgerConstants DEF DeletedWithParent
<1>14. ASSUME RefsLive(d) PROVE RefsLive(w)
  <2> SUFFICES ASSUME NEW c \in Entity, Live(w, c), Names(c, w.row[c].payload)
               PROVE  Live(w, Parent[c])
    BY DEF RefsLive
  <2>1. Parent[c] \in Entity
    BY LedgerConstants DEF Names
  <2>2. CASE c = e
    BY <1>5, <1>10, <1>12, <2>1, <2>2 DEF Refused
  <2>3. CASE c # e
    BY <1>5, <1>10, <1>12, <1>14, <2>1, <2>3 DEF RefsLive
  <2> QED
    BY <2>2, <2>3
<1> QED
  BY <1>10, <1>11, <1>13, <1>14 DEF Moved, w

\* What a handler or a resolution, not yet completed, makes of a database.
Outcome(d, op, reply) ==
  IF reply.result.status = "applied"
    THEN Moved(d, op, reply.db) /\ (RefsLive(d) => RefsLive(reply.db))
    ELSE Unmoved(d, reply.db)

LEMMA RejectOutcome ==
  ASSUME NEW d, NEW op
  PROVE  Outcome(d, op, Reject(d, op))
  BY DEF Outcome, Reject, Result, Unmoved

\* A recorded conflict shows the row its entity has.
LEMMA ConflictingOutcome ==
  ASSUME NEW d, NEW op \in Operation, DbInv(d), Exists(d, op.entity),
         Gone(d, op.entity) => Kind[op.entity] \in DeleteModels
  PROVE  Outcome(d, op, Conflicting(d, op))
<1> DEFINE e == op.entity
           remote == d.row[e]
           id == [op |-> op.id, version |-> remote.version, payload |-> Shown(d, e)]
           record == [device |-> op.device, entity |-> e, base |-> op.base,
                      local |-> op.payload, remoteVersion |-> remote.version,
                      remotePayload |-> Shown(d, e), remoteDeleted |-> remote.deleted,
                      options |-> OptionsFor(op, remote.deleted),
                      status |-> "open", resolvedBy |-> None]
           after == IF id \in DOMAIN d.conflicts THEN d
                    ELSE [d EXCEPT !.conflicts = Put(@, id, record)]
           reply == Conflicting(d, op)
<1>1. reply.db = after /\ reply.result.status = "conflict"
  BY DEF Conflicting, Result
<1>2. e \in Entity /\ e # Space
  BY LedgerConstants DEF Operation
<1>3. /\ record.status = "open" /\ record.resolvedBy = None /\ record.entity = e
      /\ record.remoteVersion = remote.version /\ record.remoteVersion > 0
      /\ record.remoteDeleted => Kind[e] \in DeleteModels
      /\ RemoteOf(record) = Now(d, e)
  BY <1>2 DEF RemoteOf, Now, Exists, Gone
<1>4. Now(d, e).version \in Nat
  BY <1>2, VersionsAreNat DEF DbInv
<1>5. Precedes(RemoteOf(record), Now(d, e))
  BY <1>3, <1>4 DEF Precedes, SameContent
<1> HIDE DEF record, id
<1>6. Unmoved(d, after)
  <2>1. CASE id \in DOMAIN d.conflicts
    BY <2>1 DEF Unmoved
  <2>2. CASE id \notin DOMAIN d.conflicts
    <3>1. /\ after.changes = d.changes /\ after.processed = d.processed
          /\ after.row = d.row /\ after.space = d.space
          /\ after.conflicts = Put(d.conflicts, id, record)
      BY <2>2 DEF DbInv, DbType
    <3>2. /\ DOMAIN after.conflicts = DOMAIN d.conflicts \cup {id}
          /\ after.conflicts[id] = record
          /\ \A c \in DOMAIN d.conflicts : after.conflicts[c] = d.conflicts[c]
      BY <2>2, <3>1 DEF Put
    <3> QED
      BY <1>3, <1>5, <3>1, <3>2 DEF Unmoved
  <2> QED
    BY <2>1, <2>2
<1> HIDE DEF after, reply
<1> QED
  BY <1>1, <1>6 DEF Outcome, reply

LEMMA WriteOutcome ==
  ASSUME NEW d, NEW op \in Operation, DbInv(d), DeletedWithParent(d),
         op.id \notin DOMAIN d.processed, ~Refused(d, op), ~Gone(d, op.entity)
  PROVE  Outcome(d, op, Write(d, op))
<1>1. Write(d, op).result.status = "applied"
  BY DEF Write, Applied, Result
<1>2. Moved(d, op, Write(d, op).db) /\ (RefsLive(d) => RefsLive(Write(d, op).db))
  BY WriteMoves
<1> QED
  BY <1>1, <1>2 DEF Outcome

\* _create_*: a link whose topic is deleted is refused before its own row is
\* looked at, so the conflict of a creation is over a row of a kind that
\* requests delete, or a live one.
LEMMA CreateOutcome ==
  ASSUME NEW d, NEW op \in Operation, DbInv(d), DeletedWithParent(d),
         op.id \notin DOMAIN d.processed
  PROVE  Outcome(d, op, Create(d, op))
<1>1. CASE op.base # 0 \/ Refused(d, op)
  BY <1>1, RejectOutcome DEF Create
<1>2. CASE op.base = 0 /\ ~Refused(d, op) /\ Exists(d, op.entity)
  <2>1. op.entity \in Entity
    BY DEF Operation
  <2>2. Gone(d, op.entity) => Kind[op.entity] \in DeleteModels
    BY <1>2, <2>1 DEF DeletedWithParent, Refused, Names, Gone, Live
  <2>3. Outcome(d, op, Conflicting(d, op))
    BY <1>2, <2>2, ConflictingOutcome
  <2> QED
    BY <1>2, <2>3 DEF Create
<1>3. CASE op.base = 0 /\ ~Refused(d, op) /\ ~Exists(d, op.entity)
  <2>1. Outcome(d, op, Write(d, op))
    BY <1>3, WriteOutcome DEF Gone
  <2> QED
    BY <1>3, <2>1 DEF Create
<1> QED
  BY <1>1, <1>2, <1>3

LEMMA UpdateOutcome ==
  ASSUME NEW d, NEW op \in Operation, DbInv(d), DeletedWithParent(d),
         op.id \notin DOMAIN d.processed
  PROVE  Outcome(d, op, Update(d, op))
<1> DEFINE refused == \/ Kind[op.entity] \notin UpdateHandlers
                      \/ CausalBase(d, op) = 0
                      \/ Refused(d, op)
                      \/ ~Live(d, op.entity)
<1>1. CASE refused
  BY <1>1, RejectOutcome DEF Update
<1>2. CASE ~refused
  <2>1. Exists(d, op.entity) /\ ~Gone(d, op.entity) /\ ~Refused(d, op)
    BY <1>2 DEF Live, Gone
  <2>2. Outcome(d, op, Conflicting(d, op)) /\ Outcome(d, op, Write(d, op))
    BY <2>1, ConflictingOutcome, WriteOutcome
  <2> QED
    BY <1>2, <2>2 DEF Update
<1> QED
  BY <1>1, <1>2

\* The rows a deletion writes, and the changes it appends for them: one for
\* each, and no other.
Followed(d, op) == Followers(d, op.entity) \ {op.entity}
Released(d, op) == Detached(d, op.entity) \ {op.entity}
Reached(d, op) == Followed(d, op) \cup Released(d, op) \cup {op.entity}
CascadeRow(d, op, e) ==
  IF e = op.entity \/ e \in Followed(d, op)
    THEN [d.row[e] EXCEPT !.version = @ + 1, !.deleted = TRUE]
  ELSE IF e \in Released(d, op)
    THEN [d.row[e] EXCEPT !.version = @ + 1, !.payload = Unlink[@]]
  ELSE d.row[e]
Cascaded(d, op, w) ==
  LET n == Len(d.changes)
      gone(e) == e = op.entity \/ e \in Followed(d, op)
  IN /\ \A e \in Entity : w.row[e] = CascadeRow(d, op, e)
     /\ w.conflicts = d.conflicts /\ w.space = d.space
     /\ n <= Len(w.changes) /\ \A i \in 1..n : w.changes[i] = d.changes[i]
     /\ \A i \in DOMAIN w.changes : i > n =>
          LET c == w.changes[i]
          IN /\ c.entity \in Reached(d, op)
             /\ c.version = w.row[c.entity].version
             /\ c.tombstone = gone(c.entity)
             /\ c.payload = IF gone(c.entity) THEN Empty ELSE w.row[c.entity].payload
     /\ \A e \in Reached(d, op) :
          \E i \in DOMAIN w.changes : i > n /\ w.changes[i].entity = e
     /\ \A i, j \in DOMAIN w.changes :
          i > n /\ j > n /\ w.changes[i].entity = w.changes[j].entity => i = j
     /\ Identified(d, w, op)
LEMMA CascadeShape ==
  ASSUME NEW d, NEW op \in Operation, DbInv(d), op.id \notin DOMAIN d.processed,
         Exists(d, op.entity)
  PROVE  Cascaded(d, op, DeleteWithScope(d, op).db)
<1> DEFINE follow == Followers(d, op.entity) \ {op.entity}
           detach == Detached(d, op.entity) \ {op.entity}
           scope == follow \cup detach
           order == SetToSeq(scope)
           after == [e \in Entity |->
                       IF e = op.entity \/ e \in follow
                         THEN [d.row[e] EXCEPT !.version = @ + 1, !.deleted = TRUE]
                       ELSE IF e \in detach
                         THEN [d.row[e] EXCEPT !.version = @ + 1, !.payload = Unlink[@]]
                       ELSE d.row[e]]
           derived(e) == [op EXCEPT !.id = DerivedId(op.id, e), !.entity = e,
                            !.type = IF e \in follow THEN "delete" ELSE "update",
                            !.payload = IF e \in follow THEN Empty ELSE after[e].payload]
           rows == [i \in DOMAIN order |->
                      ChangeRow(DerivedId(op.id, order[i]), order[i],
                                after[order[i]].version, derived(order[i]).payload,
                                order[i] \in follow, d.epoch)]
           ids == {DerivedId(op.id, e) : e \in scope}
           identities == [x \in DOMAIN d.processed \cup ids |->
                            IF x \in DOMAIN d.processed THEN d.processed[x]
                            ELSE derived(x[2])]
           cascaded == [d EXCEPT !.row = after, !.changes = @ \o rows,
                                 !.processed = identities]
           version == after[op.entity].version
           change == ChangeRow(op.id, op.entity, version, Empty, TRUE, d.epoch)
           w == DeleteWithScope(d, op).db
           n == Len(d.changes)
           k == Len(order)
<1>1. op.entity \in Entity /\ op.id \in OpId
  BY DEF Operation
<1>2. scope \subseteq Entity /\ IsFiniteSet(scope) /\ op.entity \notin scope
  <2>1. scope \in SUBSET Entity
    BY DEF Followers, Detached
  <2> QED
    BY <2>1, LedgerConstants, FS_Subset
<1>3. /\ order \in Seq(scope)
      /\ \A e \in scope : \E i \in DOMAIN order : order[i] = e
      /\ \A i, j \in DOMAIN order : order[i] = order[j] => i = j
  BY <1>2, SetToSeqEnumerates
<1>4. \A e \in scope : derived(e).payload = IF e \in follow THEN Empty ELSE after[e].payload
  BY DEF Operation
<1>5. /\ cascaded.row = after /\ cascaded.changes = d.changes \o rows
      /\ cascaded.processed = identities /\ cascaded.conflicts = d.conflicts
      /\ cascaded.space = d.space /\ cascaded.epoch = d.epoch
      /\ DOMAIN cascaded = DOMAIN d
  BY DEF DbInv, DbType
<1>6. w = AppendApplied(cascaded, op, version, Empty, TRUE)
  BY DEF DeleteWithScope, Applied
<1>7. \A x \in ids : x \notin OpId
  BY <1>1, <1>2, LedgerConstants DEF DerivedId
<1> HIDE DEF after, order, follow, detach
<1>21. k \in Nat /\ DOMAIN order = 1..k /\ \A i \in 1..k : order[i] \in scope
  BY <1>3
<1>9. \A i \in DOMAIN order :
        /\ rows[i].entity = order[i] /\ rows[i].version = after[order[i]].version
        /\ rows[i].tombstone = (order[i] \in follow)
        /\ rows[i].payload = IF order[i] \in follow THEN Empty ELSE after[order[i]].payload
  <2> SUFFICES ASSUME NEW i \in DOMAIN order
               PROVE  LET c == ChangeRow(DerivedId(op.id, order[i]), order[i],
                                  after[order[i]].version, derived(order[i]).payload,
                                  order[i] \in follow, d.epoch)
                      IN /\ c.entity = order[i] /\ c.version = after[order[i]].version
                         /\ c.tombstone = (order[i] \in follow)
                         /\ c.payload = IF order[i] \in follow THEN Empty
                                        ELSE after[order[i]].payload
    OBVIOUS
  <2>1. derived(order[i]).payload =
          IF order[i] \in follow THEN Empty ELSE after[order[i]].payload
    BY <1>4, <1>21
  <2> HIDE DEF derived
  <2> QED
    BY <2>1 DEF ChangeRow
<1> DEFINE Rows == ChangeType \cup {rows[i] : i \in DOMAIN order}
<1>8. rows \in Seq(Rows) /\ Len(rows) = k /\ d.changes \in Seq(Rows)
  <2>1. d.changes \in Seq(ChangeType) /\ ChangeType \subseteq Rows
    BY DEF DbInv, DbType
  <2>2. rows = [i \in 1..k |-> rows[i]] /\ \A i \in 1..k : rows[i] \in Rows
    BY <1>21
  <2> HIDE DEF rows, Rows
  <2>3. rows \in [1..k -> Rows]
    BY <2>2
  <2>4. rows \in Seq(Rows) /\ Len(rows) = k
    BY <1>21, <2>3
  <2>5. d.changes \in Seq(Rows)
    BY <2>1
  <2> QED
    BY <2>4, <2>5
<1>10. DOMAIN identities = DOMAIN d.processed \cup ids
       /\ \A x \in DOMAIN d.processed : identities[x] = d.processed[x]
  OBVIOUS
<1>11. /\ change.entity = op.entity /\ change.version = version
       /\ change.tombstone = TRUE /\ change.payload = Empty
  BY DEF ChangeRow
<1> HIDE DEF rows, Rows, identities, derived, ids, cascaded, w, change, k
<1>12. /\ w.row = after /\ w.conflicts = d.conflicts /\ w.space = d.space
       /\ w.changes = Append(d.changes \o rows, change)
       /\ w.processed = Put(identities, op.id, op)
  BY <1>5, <1>6 DEF AppendApplied, change, DbInv, DbType
<1>13. Identified(d, w, op)
  <2>1. DOMAIN w.processed = DOMAIN d.processed \cup ids \cup {op.id}
    BY <1>10, <1>12 DEF Put
  <2> QED
    BY <1>7, <1>10, <1>12, <2>1 DEF Identified, Put
<1>14. n \in Nat /\ d.changes \in Seq(ChangeType) /\ DOMAIN d.changes = 1..n
  BY DEF DbInv, DbType
<1>15. /\ Len(w.changes) = n + k + 1 /\ DOMAIN w.changes = 1..(n + k + 1)
       /\ \A i \in 1..n : w.changes[i] = d.changes[i]
       /\ \A i \in 1..k : w.changes[n + i] = rows[i]
       /\ w.changes[n + k + 1] = change
  <2> DEFINE old == d.changes  long == w.changes
  <2>1. long = Append(old \o rows, change)
    BY <1>12
  <2>2. Len(old) = n
    OBVIOUS
  <2>3. n \in Nat /\ k \in Nat
    BY <1>14, <1>21
  <2> DEFINE T == Rows \cup {change}
  <2>4. old \in Seq(T) /\ rows \in Seq(T) /\ Len(rows) = k /\ change \in T
    BY <1>8
  <2> DEFINE both == old \o rows
  <2> HIDE DEF n, old, long, T
  <2>6. both \in Seq(T) /\ Len(both) = n + k
    BY <2>2, <2>3, <2>4
  <2>7. /\ \A i \in 1..n : i \in 1..(n + k) /\ both[i] = old[i]
        /\ \A i \in 1..k : n + i \in 1..(n + k) /\ both[n + i] = rows[i]
    BY <2>2, <2>3, <2>4
  <2>8. long = Append(both, change)
    BY <2>1
  <2> HIDE DEF both
  <2>9. /\ Len(long) = n + k + 1 /\ DOMAIN long = 1..(n + k + 1)
        /\ \A i \in 1..(n + k) : long[i] = both[i]
        /\ long[n + k + 1] = change
    BY <2>3, <2>4, <2>6, <2>8
  <2>5. /\ Len(long) = n + k + 1 /\ DOMAIN long = 1..(n + k + 1)
        /\ \A i \in 1..n : long[i] = old[i]
        /\ \A i \in 1..k : long[n + i] = rows[i]
        /\ long[n + k + 1] = change
    BY <2>7, <2>9
  <2> QED
    BY <2>5 DEF old, long
<1>16. \A i \in DOMAIN w.changes : i > n =>
         \/ i = n + k + 1
         \/ \E j \in 1..k : i = n + j
  <2> SUFFICES ASSUME NEW i \in DOMAIN w.changes, i > n, i # n + k + 1
               PROVE  \E j \in 1..k : i = n + j
    OBVIOUS
  <2> HIDE DEF n
  <2>1. i \in 1..(n + k + 1)
    BY <1>15
  <2>2. n \in Nat /\ k \in Nat
    BY <1>14, <1>21
  <2>3. i - n \in 1..k /\ i = n + (i - n)
    BY <2>1, <2>2
  <2> QED
    BY <2>3
<1>17. ASSUME NEW i \in DOMAIN w.changes, i > n
       PROVE  LET c == w.changes[i]
                  gone == c.entity = op.entity \/ c.entity \in follow
              IN /\ c.entity \in scope \cup {op.entity}
                 /\ c.version = after[c.entity].version
                 /\ c.tombstone = gone
                 /\ c.payload = IF gone THEN Empty ELSE after[c.entity].payload
  <2>1. CASE i = n + k + 1
    BY <1>11, <1>15, <2>1 DEF version
  <2>2. CASE \E j \in 1..k : i = n + j
    <3>1. PICK j \in 1..k : i = n + j
      BY <2>2
    <3>2. w.changes[i] = rows[j] /\ j \in DOMAIN order /\ order[j] \in scope
      BY <1>21, <1>15, <3>1
    <3> QED
      BY <1>2, <1>9, <3>2
  <2> QED
    BY <1>16, <1>17, <2>1, <2>2
<1>18. ASSUME NEW e \in scope \cup {op.entity}
       PROVE  \E i \in DOMAIN w.changes : i > n /\ w.changes[i].entity = e
  <2>1. CASE e = op.entity
    <3>1. n + k + 1 \in DOMAIN w.changes /\ n + k + 1 > n
      BY <1>14, <1>15, <1>21
    <3>2. w.changes[n + k + 1].entity = e
      BY <1>11, <1>15, <2>1
    <3> QED
      BY <3>1, <3>2
  <2>2. CASE e \in scope
    <3>1. PICK j \in DOMAIN order : order[j] = e
      BY <1>3, <2>2
    <3>2. j \in 1..k /\ n + j \in DOMAIN w.changes /\ n + j > n
      BY <1>21, <1>14, <1>15
    <3>3. w.changes[n + j].entity = e
      BY <1>9, <1>15, <3>1, <3>2
    <3> QED
      BY <3>2, <3>3
  <2> QED
    BY <2>1, <2>2
<1>19. ASSUME NEW i \in DOMAIN w.changes, NEW j \in DOMAIN w.changes, i > n, j > n,
              w.changes[i].entity = w.changes[j].entity
       PROVE  i = j
  <2>1. ASSUME NEW x \in 1..k
        PROVE  /\ w.changes[n + x].entity = order[x] /\ order[x] \in scope
               /\ x \in DOMAIN order
    BY <1>21, <1>9, <1>15
  <2>2. w.changes[n + k + 1].entity = op.entity
    BY <1>11, <1>15
  <2>3. \A x \in DOMAIN w.changes : x > n =>
          IF w.changes[x].entity = op.entity THEN x = n + k + 1
          ELSE \E y \in DOMAIN order : x = n + y /\ order[y] = w.changes[x].entity
    BY <1>2, <1>16, <2>1, <2>2
  <2> QED
    BY <1>3, <1>19, <2>3
<1>20. n <= Len(w.changes)
  BY <1>21, <1>14, <1>15
<1>22. follow = Followed(d, op) /\ detach = Released(d, op)
       /\ scope \cup {op.entity} = Reached(d, op)
  BY DEF follow, detach, Followed, Released, Reached
<1>23. \A e \in Entity : w.row[e] = CascadeRow(d, op, e)
  BY <1>12, <1>22 DEF after, CascadeRow
<1>24. w = DeleteWithScope(d, op).db
  BY DEF w
<1> HIDE DEF scope, n
<1>25. Cascaded(d, op, w)
  BY <1>12, <1>13, <1>15, <1>17, <1>18, <1>19, <1>20, <1>22, <1>23 DEF n, Cascaded
<1> QED
  BY <1>24, <1>25

\* A deletion that nothing blocks: what it reaches is told, links go with
\* what they point at, and no live row names a row that is gone.
LEMMA CascadeOutcome ==
  ASSUME NEW d, NEW op \in Operation, DbInv(d), DeletedWithParent(d),
         op.id \notin DOMAIN d.processed, Live(d, op.entity),
         Kind[op.entity] \in DeleteModels, Blockers(d, op.entity) = {}
  PROVE  Outcome(d, op, DeleteWithScope(d, op))
<1> DEFINE w == DeleteWithScope(d, op).db
           n == Len(d.changes)
           gone(e) == e = op.entity \/ e \in Followed(d, op)
<1>1. op.entity \in Entity /\ Exists(d, op.entity) /\ DbType(d)
  BY DEF Operation, Live, DbInv
<1>2. Handles(d, op.id, DeleteWithScope(d, op))
  BY <1>1, DeleteWithScopeKeeps
<1>3. DbType(w) /\ OnlyNew(d, w, op.id)
  BY <1>2 DEF Handles, Keeps, DbInv
<1>4. DeleteWithScope(d, op).result.status = "applied"
  BY DEF DeleteWithScope, Applied, Result
<1>5. Cascaded(d, op, w)
  BY <1>1, CascadeShape
<1> HIDE DEF w
<1>15. /\ w.conflicts = d.conflicts /\ w.space = d.space /\ Identified(d, w, op)
       /\ n <= Len(w.changes) /\ \A i \in 1..n : w.changes[i] = d.changes[i]
  BY <1>5 DEF Cascaded
<1>6. ASSUME NEW i \in DOMAIN w.changes, i > n
      PROVE  LET c == w.changes[i]
             IN /\ c.entity \in Reached(d, op)
                /\ c.version = w.row[c.entity].version
                /\ c.tombstone = gone(c.entity)
                /\ c.payload = IF gone(c.entity) THEN Empty ELSE w.row[c.entity].payload
  BY <1>5, <1>6 DEF Cascaded
<1>7. /\ \A e \in Reached(d, op) :
           \E i \in DOMAIN w.changes : i > n /\ w.changes[i].entity = e
      /\ \A i, j \in DOMAIN w.changes :
           i > n /\ j > n /\ w.changes[i].entity = w.changes[j].entity => i = j
  BY <1>5 DEF Cascaded
<1>8. /\ Followed(d, op) \subseteq Entity /\ Released(d, op) \subseteq Entity
      /\ \A e \in Followed(d, op) :
           Live(d, e) /\ Kind[e] = "source_link" /\ Parent[e] = op.entity
      /\ \A e \in Released(d, op) : Live(d, e) /\ Kind[e] = "resource"
  BY DEF Followed, Released, Followers, Detached
<1>9. ASSUME NEW e \in Entity
      PROVE  /\ d.row[e] \in RowType /\ w.row[e] \in RowType
             /\ gone(e) => /\ w.row[e].version = d.row[e].version + 1
                           /\ w.row[e].deleted
             /\ ~gone(e) /\ e \in Released(d, op) =>
                  /\ w.row[e].version = d.row[e].version + 1
                  /\ w.row[e].deleted = d.row[e].deleted
                  /\ w.row[e].payload = Unlink[d.row[e].payload]
             /\ ~gone(e) /\ e \notin Released(d, op) => w.row[e] = d.row[e]
  <2>1. d.row[e] \in RowType /\ w.row[e] \in RowType
    BY <1>1, <1>3 DEF DbType
  <2>2. CASE gone(e)
    <3>1. w.row[e] = [d.row[e] EXCEPT !.version = @ + 1, !.deleted = TRUE]
      BY <1>5, <2>2 DEF Cascaded, CascadeRow
    <3> QED
      BY <2>1, <2>2, <3>1 DEF RowType
  <2>3. CASE ~gone(e) /\ e \in Released(d, op)
    <3>1. w.row[e] = [d.row[e] EXCEPT !.version = @ + 1, !.payload = Unlink[@]]
      BY <1>5, <2>3 DEF Cascaded, CascadeRow
    <3> QED
      BY <2>1, <2>3, <3>1 DEF RowType
  <2>4. CASE ~gone(e) /\ e \notin Released(d, op)
    BY <1>5, <2>1, <2>4 DEF Cascaded, CascadeRow
  <2> QED
    BY <2>2, <2>3, <2>4
<1>10. \A e \in Entity :
         /\ Gone(w, e) <=> Gone(d, e) \/ gone(e)
         /\ Live(w, e) <=> Live(d, e) /\ ~gone(e)
  <2> SUFFICES ASSUME NEW e \in Entity
               PROVE  /\ Gone(w, e) <=> Gone(d, e) \/ gone(e)
                      /\ Live(w, e) <=> Live(d, e) /\ ~gone(e)
    OBVIOUS
  <2>1. d.row[e].version \in Nat
    BY <1>9 DEF RowType
  <2>2. gone(e) => Live(d, e)
    BY <1>8
  <2>3. e \in Released(d, op) => Live(d, e)
    BY <1>8
  <2> HIDE DEF gone
  <2> QED
    BY <1>9, <2>1, <2>2, <2>3 DEF Gone, Live, Exists
<1>11. Tells(d, w)
  <2>1. \A x \in Entity : x # Space
    BY LedgerConstants
  <2>2. ASSUME NEW e \in Reached(d, op)
        PROVE  NewlyTold(d, w, e)
    <3>1. PICK i \in DOMAIN w.changes : i > n /\ w.changes[i].entity = e
      BY <1>7
    <3>2. \A j \in DOMAIN w.changes : j > i => j > n
      BY <1>1, <1>3, <3>1, VersionsAreNat
    <3>3. \A j \in DOMAIN w.changes : j > i => w.changes[j].entity # e
      BY <1>1, <1>3, <1>7, <3>1, <3>2, VersionsAreNat
    <3> QED
      BY <3>1, <3>3 DEF NewlyTold
  <2>3. ASSUME NEW i \in DOMAIN w.changes, i > n
        PROVE  SameContent(w.changes[i], Now(w, w.changes[i].entity))
    <3> DEFINE e == w.changes[i].entity
    <3>1. e \in Entity /\ e \in Reached(d, op) /\ e # Space
      BY <1>1, <1>6, <1>8, <2>1, <2>3 DEF Reached
    <3>2. CASE gone(e)
      <4>1. w.row[e].deleted = TRUE
        BY <1>9, <3>1, <3>2 DEF RowType
      <4>2. w.changes[i].tombstone = TRUE /\ w.changes[i].payload = Empty
            /\ w.changes[i].version = w.row[e].version
        BY <1>6, <2>3, <3>2
      <4> QED
        BY <3>1, <4>1, <4>2 DEF SameContent, Now, Shown
    <3>3. CASE ~gone(e)
      <4>1. e \in Released(d, op) /\ ~d.row[e].deleted
        BY <1>8, <3>1, <3>3 DEF Reached, Live
      <4>2. w.row[e].deleted = FALSE
        BY <1>9, <3>1, <3>3, <4>1 DEF RowType
      <4>3. w.changes[i].tombstone = FALSE /\ w.changes[i].payload = w.row[e].payload
            /\ w.changes[i].version = w.row[e].version
        BY <1>6, <2>3, <3>3
      <4> QED
        BY <3>1, <4>2, <4>3 DEF SameContent, Now, Shown
    <3> QED
      BY <3>2, <3>3
  <2>4. ASSUME NEW x \in Entity \cup {Space}
        PROVE  \/ Now(w, x) = Now(d, x)
               \/ Now(w, x).version > Now(d, x).version /\ NewlyTold(d, w, x)
    <3>1. CASE x = Space
      BY <1>15, <3>1 DEF Now
    <3>2. CASE x \in Reached(d, op)
      <4>1. x \in Entity /\ d.row[x].version \in Nat
            /\ w.row[x].version = d.row[x].version + 1
        BY <1>1, <1>8, <1>9, <3>2 DEF Reached, RowType
      <4> QED
        BY <2>1, <2>2, <3>2, <4>1 DEF Now
    <3>3. CASE x \in Entity /\ x \notin Reached(d, op)
      <4>1. w.row[x] = d.row[x]
        BY <1>9, <3>3 DEF Reached
      <4> QED
        BY <2>1, <3>3, <4>1 DEF Now, Shown
    <3> QED
      BY <3>1, <3>2, <3>3
  <2>5. \A i \in DOMAIN w.changes : i > n => NewlyTold(d, w, w.changes[i].entity)
    BY <1>6, <2>2
  <2> QED
    BY <1>15, <2>3, <2>4, <2>5 DEF Tells
<1>12. DeletedWithParent(w)
  <2> SUFFICES ASSUME NEW e \in Entity, Gone(w, e), Kind[e] \notin DeleteModels
               PROVE  Kind[e] = "source_link" /\ Parent[e] # None /\ Gone(w, Parent[e])
    BY DEF DeletedWithParent
  <2>1. CASE Gone(d, e)
    <3>1. Kind[e] = "source_link" /\ Parent[e] # None /\ Gone(d, Parent[e])
      BY <2>1 DEF DeletedWithParent
    <3> QED
      BY <1>10, <3>1, LedgerConstants
  <2>2. CASE gone(e)
    <3>1. Kind[e] = "source_link" /\ Parent[e] = op.entity
      BY <1>8, <2>2
    <3> QED
      BY <1>1, <1>10, <3>1, LedgerConstants
  <2> QED
    BY <1>10, <2>1, <2>2
<1>13. ASSUME RefsLive(d) PROVE RefsLive(w)
  <2> SUFFICES ASSUME NEW c \in Entity, Live(w, c), Names(c, w.row[c].payload)
               PROVE  Live(w, Parent[c])
    BY DEF RefsLive
  <2>1. /\ Parent[c] \in Entity /\ Parent[c] # None /\ Live(d, c) /\ ~gone(c)
        /\ Kind[Parent[c]] \in ParentKinds[Kind[c]] /\ Kind[c] \in Kinds
    BY <1>10, LedgerConstants DEF Names
  <2>2. Kind[c] \in {"quiz_item", "source_link", "resource"}
        /\ Kind[Parent[c]] \in {"topic", "quiz_item", "task"}
    BY <2>1 DEF ParentKinds, Kinds
  <2>3. c \notin Released(d, op)
    <3> SUFFICES ASSUME c \in Released(d, op) PROVE FALSE
      OBVIOUS
    <3>1. Kind[c] = "resource" /\ w.row[c].payload = Unlink[d.row[c].payload]
      BY <1>8, <1>9, <2>1
    <3>2. d.row[c].payload \in Payload
      BY <1>1, <2>1 DEF DbType, Live
    <3> QED
      BY <3>1, <3>2, LedgerConstants DEF Names
  <2>4. w.row[c] = d.row[c] /\ Live(d, Parent[c])
    BY <1>9, <1>13, <2>1, <2>3 DEF RefsLive
  <2>5. Parent[c] # op.entity
    <3> SUFFICES ASSUME Parent[c] = op.entity PROVE FALSE
      OBVIOUS
    <3>1. c # op.entity
      BY <2>1
    <3> QED
      BY <2>1, <2>2, <2>3, <2>4, <3>1
      DEF Blockers, Followed, Followers, Released, Detached
  <2>6. Parent[c] \notin Followed(d, op)
    BY <1>8, <2>2
  <2> QED
    BY <1>10, <2>1, <2>4, <2>5, <2>6
<1>14. Moved(d, op, w)
  BY <1>3, <1>15, <1>11, <1>12 DEF Moved
<1> QED
  BY <1>4, <1>13, <1>14 DEF Outcome, w

LEMMA DeleteOutcome ==
  ASSUME NEW d, NEW op \in Operation, DbInv(d), DeletedWithParent(d),
         op.id \notin DOMAIN d.processed
  PROVE  Outcome(d, op, Delete(d, op))
<1> DEFINE refused == \/ Kind[op.entity] \notin DeleteModels
                      \/ op.payload # Empty
                      \/ ~Exists(d, op.entity)
                      \/ d.space.archived
                      \/ Blockers(d, op.entity) # {}
<1>1. CASE refused
  BY <1>1, RejectOutcome DEF Delete
<1>2. CASE ~refused /\ d.row[op.entity].deleted
  <2>1. Outcome(d, op, Conflicting(d, op))
    BY <1>2, ConflictingOutcome
  <2> QED
    BY <1>2, <2>1 DEF Delete
<1>3. CASE ~refused /\ ~d.row[op.entity].deleted
  <2>1. Outcome(d, op, Conflicting(d, op)) /\ Outcome(d, op, DeleteWithScope(d, op))
    BY <1>3, ConflictingOutcome, CascadeOutcome DEF Live
  <2> QED
    BY <1>3, <2>1 DEF Delete
<1> QED
  BY <1>1, <1>2, <1>3

LEMMA HandlerOutcome ==
  ASSUME NEW d, NEW op \in Operation, DbInv(d), DeletedWithParent(d),
         op.id \notin DOMAIN d.processed
  PROVE  Outcome(d, op, Handler(d, op))
  BY CreateOutcome, UpdateOutcome, DeleteOutcome DEF Handler

-----------------------------------------------------------------------------
(* Whole operations.                                                       *)

\* What is kept from a database to the next.
Kept(d, w) ==
  /\ HistoryInv(w)
  /\ RefsLive(d) => RefsLive(w)
  /\ \A e \in Entity : TellsRow(d, e) => TellsRow(w, e)

\* Two databases that differ in conflicts, epoch and floor alone.
LEMMA SameRows ==
  ASSUME NEW d, NEW w, w.changes = d.changes, w.row = d.row
  PROVE  /\ RefsLive(d) => RefsLive(w)
         /\ \A e \in Entity : e # Space /\ TellsRow(d, e) => TellsRow(w, e)
  BY DEF RefsLive, Live, Exists, TellsRow, Now, Shown

\* Nothing that is kept tells epochs and floors apart.
LEMMA SameHistory ==
  ASSUME NEW d, NEW w, HistoryInv(d), w.changes = d.changes, w.processed = d.processed,
         w.row = d.row, w.space = d.space, w.conflicts = d.conflicts
  PROVE  Kept(d, w)
<1>1. Unmoved(d, w)
  BY DEF Unmoved
<1>2. \A e \in Entity : e # Space
  BY LedgerConstants
<1> QED
  BY <1>1, <1>2, UnmovedKeeps, SameRows DEF Kept

LEMMA OutcomeKeeps ==
  ASSUME NEW d, NEW op \in IdentityType, NEW reply, DbInv(d), DbInv(reply.db),
         HistoryInv(d), Outcome(d, op, reply), op.id \notin DOMAIN d.processed,
         op.res = None
  PROVE  Kept(d, reply.db)
<1>1. CASE reply.result.status = "applied"
  <2>1. Moved(d, op, reply.db) /\ (RefsLive(d) => RefsLive(reply.db))
    BY <1>1 DEF Outcome
  <2>2. HistoryInv(reply.db)
    BY <2>1, MovedKeeps
  <2>3. \A e \in Entity : TellsRow(d, e) => TellsRow(reply.db, e)
    BY <2>1, TellsKeepsRows DEF Moved, DbInv
  <2> QED
    BY <2>1, <2>2, <2>3 DEF Kept
<1>2. CASE reply.result.status # "applied"
  <2>1. Unmoved(d, reply.db)
    BY <1>2 DEF Outcome
  <2>2. \A e \in Entity : e # Space
    BY LedgerConstants
  <2> QED
    BY <2>1, <2>2, UnmovedKeeps, SameRows DEF Kept, Unmoved
<1> QED
  BY <1>1, <1>2

\* keep_remote tells the row once more: the version its author was shown is
\* the one the row has, so the content is.
LEMMA KeepRemoteOutcome ==
  ASSUME NEW d, NEW op \in Operation, DbInv(d), HistoryInv(d),
         op.id \notin DOMAIN d.processed, ResolutionValid(d, op),
         op.res.choice = "keep_remote"
  PROVE  LET reply == KeepRemote(d, op)
         IN /\ Outcome(d, op, reply)
            /\ reply.result.status = "applied" =>
                 Wrote(d, op, reply.db, op.res.expected)
<1> DEFINE e == op.entity
           c == op.res.conflict
           r == d.conflicts[c]
           version == r.remoteVersion
           tombstone == Kind[e] \in DeleteModels /\ Gone(d, e)
           reply == KeepRemote(d, op)
<1>1. /\ e \in Entity /\ e # Space /\ op.id \in OpId /\ op \in IdentityType /\ DbType(d)
      /\ op.payload \in Content
  BY LedgerConstants DEF Operation, IdentityType, AnyId, DbInv
<1>2. /\ c \in DOMAIN d.conflicts /\ r.entity = e
      /\ op.res.expected = version /\ d.row[e].version = version
      /\ op.payload = r.remotePayload
  BY DEF ResolutionValid
<1>3. r \in ConflictType
  BY <1>1, <1>2 DEF DbType
<1>4. /\ version > 0 /\ Precedes(RemoteOf(r), Now(d, e))
      /\ r.remoteDeleted => Kind[e] \in DeleteModels
  BY <1>2 DEF HistoryInv, Witnessed
<1>5. /\ RemoteOf(r).version = version /\ RemoteOf(r).payload = op.payload
      /\ RemoteOf(r).tombstone = r.remoteDeleted
  BY <1>2 DEF RemoteOf
<1>6. Now(d, e).version = version
  BY <1>1, <1>2 DEF Now
<1>7. Now(d, e).payload = op.payload /\ Now(d, e).tombstone = r.remoteDeleted
  BY <1>4, <1>5, <1>6 DEF Precedes, SameContent
<1>8. d.row[e].deleted = r.remoteDeleted /\ d.row[e].deleted \in BOOLEAN
  BY <1>1, <1>7 DEF Now, DbType, RowType
<1>9. tombstone \in BOOLEAN /\ Now(d, e).tombstone = tombstone
  BY <1>2, <1>3, <1>4, <1>7, <1>8 DEF Gone, Exists, ConflictType
<1>10. version \in Nat
  BY <1>3 DEF ConflictType
<1> DEFINE w == AppendApplied(d, op, version, op.payload, tombstone)
<1>11. reply = Reject(d, op) \/ reply = Applied(w, op, version)
  BY DEF KeepRemote
<1> HIDE DEF version, tombstone
<1>12. /\ Tells(d, w) /\ Identified(d, w, op) /\ w.conflicts = d.conflicts
       /\ Wrote(d, op, w, version) /\ w.row = d.row
  BY <1>1, <1>6, <1>7, <1>9, <1>10, AppendTells
<1>13. Handles(d, op.id, reply)
  BY <1>2, KeepRemoteKeeps
<1>14. DeletedWithParent(w)
  BY <1>12 DEF HistoryInv, DeletedWithParent, Gone, Exists
<1>15. RefsLive(d) => RefsLive(w)
  BY <1>12 DEF RefsLive, Live, Exists
<1> HIDE DEF w
<1>16. CASE reply = Reject(d, op)
  <2>1. reply.result.status = "rejected"
    BY <1>16 DEF Reject, Result
  <2> QED
    BY <1>16, <2>1, RejectOutcome
<1>17. CASE reply = Applied(w, op, version)
  <2>1. reply.result.status = "applied" /\ reply.db = w
    BY <1>17 DEF Applied, Result
  <2>2. OnlyNew(d, w, op.id)
    BY <1>13, <2>1 DEF Handles, Keeps
  <2>3. Moved(d, op, w)
    BY <1>12, <1>14, <2>2 DEF Moved
  <2> QED
    BY <1>2, <1>12, <1>15, <2>1, <2>3 DEF Outcome
<1> QED
  BY <1>11, <1>16, <1>17

\* The other choices are updates of the row as it was shown.
LEMMA UpdateWrites ==
  ASSUME NEW d, NEW op \in Operation, DbInv(d), HistoryInv(d),
         op.id \notin DOMAIN d.processed, ResolutionValid(d, op),
         op.res.choice # "keep_remote"
  PROVE  LET reply == Handler(d, op)
         IN /\ Outcome(d, op, reply)
            /\ reply.result.status = "applied" =>
                 Wrote(d, op, reply.db, op.res.expected + 1)
<1>1. op.type = "update" /\ d.row[op.entity].version = op.res.expected
  BY DEF ResolutionValid
<1>2. Handler(d, op) = Update(d, op)
  BY <1>1 DEF Handler
<1>3. Outcome(d, op, Update(d, op))
  BY UpdateOutcome DEF HistoryInv
<1>4. ASSUME Update(d, op).result.status = "applied"
      PROVE  Wrote(d, op, Update(d, op).db, op.res.expected + 1)
  <2>1. Reject(d, op).result.status = "rejected" /\ Conflicting(d, op).result.status = "conflict"
    BY DEF Reject, Conflicting, Result
  <2>2. Update(d, op) = Write(d, op) /\ Live(d, op.entity) /\ ~Refused(d, op)
    BY <1>4, <2>1 DEF Update
  <2>3. Wrote(d, op, Write(d, op).db, d.row[op.entity].version + 1)
    BY <2>2, WriteMoves DEF HistoryInv, Live, Gone
  <2> QED
    BY <1>1, <2>2, <2>3
<1> QED
  BY <1>2, <1>3, <1>4

\* The completion of a resolution.
LEMMA CompleteKeepsHistory ==
  ASSUME NEW d, NEW op \in Operation, NEW reply, DbInv(d), HistoryInv(d),
         op.id \notin DOMAIN d.processed, op.res # None, ResolutionValid(d, op),
         Handles(d, op.id, reply), Outcome(d, op, reply),
         reply.result.status = "applied" =>
           Wrote(d, op, reply.db,
                 op.res.expected + (IF op.res.choice = "keep_remote" THEN 0 ELSE 1))
  PROVE  Kept(d, Complete(op, reply).db)
<1> DEFINE c == op.res.conflict
           version == op.res.expected + (IF op.res.choice = "keep_remote" THEN 0 ELSE 1)
           w == reply.db
           v == Complete(op, reply).db
<1>1. /\ c \in DOMAIN d.conflicts /\ d.conflicts[c].status = "open"
      /\ d.row[op.entity].version = op.res.expected
      /\ op.entity \in Entity
  BY DEF ResolutionValid, Operation
<1>2. \A e \in Entity : e # Space
  BY LedgerConstants
<1>3. CASE reply.result.status # "applied"
  <2>1. Unmoved(d, w) /\ v = w
    BY <1>3 DEF Outcome, Complete
  <2> QED
    BY <1>2, <2>1, UnmovedKeeps, SameRows DEF Kept, Unmoved
<1>4. CASE reply.result.status = "applied"
  <2>1. /\ Moved(d, op, w) /\ (RefsLive(d) => RefsLive(w)) /\ DbInv(w)
        /\ Wrote(d, op, w, version) /\ w.conflicts = d.conflicts
        /\ DOMAIN reply = {"db", "result"}
    BY <1>4 DEF Outcome, Handles, Keeps, Moved
  <2>2. Keeps(d, op.id, Complete(op, reply))
    BY <1>1, CompleteKeeps
  <2>3. DbType(v)
    BY <2>2 DEF Keeps, DbInv
  <2>4. v = [w EXCEPT !.conflicts[c] =
               [@ EXCEPT !.status = StatusOf(op.res.choice), !.resolvedBy = op.id]]
    BY <1>4, <2>1 DEF Complete
  <2>5. /\ v.changes = w.changes /\ v.processed = w.processed
        /\ v.row = w.row /\ v.space = w.space
        /\ DOMAIN v.conflicts = DOMAIN w.conflicts
        /\ \A x \in DOMAIN w.conflicts \ {c} : v.conflicts[x] = w.conflicts[x]
        /\ v.conflicts[c] = [w.conflicts[c] EXCEPT !.status = StatusOf(op.res.choice),
                                                   !.resolvedBy = op.id]
    BY <1>1, <2>1, <2>4 DEF DbInv, DbType
  <2>6. version \in Nat
    BY <1>1 DEF DbInv, DbType, RowType
  <2> HIDE DEF v, w
  <2>7. HistoryInv(v)
    BY <1>1, <2>1, <2>3, <2>5, <2>6, ResolvedKeeps
  <2>8. /\ RefsLive(d) => RefsLive(v)
        /\ \A e \in Entity : TellsRow(d, e) => TellsRow(v, e)
    BY <1>2, <2>1, <2>5, SameRows, TellsKeepsRows DEF Moved, DbInv
  <2> QED
    BY <2>7, <2>8 DEF Kept, v
<1> QED
  BY <1>3, <1>4

\* One operation of a batch keeps the history, and moves a row only when it
\* is answered "applied".
LEMMA ApplyOneKeepsHistory ==
  ASSUME NEW d, NEW op \in Operation, DbInv(d), HistoryInv(d)
  PROVE  LET reply == ApplyOne(d, op)
         IN /\ Kept(d, reply.db)
            /\ reply.result.status # "applied" => reply.db.row = d.row
<1> DEFINE done(reply) == /\ Kept(d, reply.db)
                          /\ reply.result.status # "applied" => reply.db.row = d.row
<1>1. op \in IdentityType /\ op.id \in OpId
  BY DEF Operation, IdentityType, AnyId
<1>2. done(Reject(d, op))
  BY SameHistory DEF Reject
<1>3. CASE op.id \in DOMAIN d.processed
  <2>1. Replay(d, op).db = d
    BY DEF Replay, Reject
  <2>2. ApplyOne(d, op) = Replay(d, op)
    BY <1>3 DEF ApplyOne
  <2> QED
    BY <2>1, <2>2, SameHistory
<1>4. CASE op.id \notin DOMAIN d.processed /\ op.res = None
  <2>1. ASSUME NEW reply, Handles(d, op.id, reply), Outcome(d, op, reply)
        PROVE  done(reply)
    <3>1. DbInv(reply.db)
      BY <2>1 DEF Handles, Keeps
    <3>2. Kept(d, reply.db)
      BY <1>1, <1>4, <2>1, <3>1, OutcomeKeeps
    <3> QED
      BY <2>1, <3>2 DEF Outcome, Unmoved
  <2>2. done(Handler(d, op))
    BY <1>4, <2>1, HandlerKeeps, HandlerOutcome DEF HistoryInv
  <2>3. ASSUME UpdatesDeleted(d, op)
        PROVE  done(Conflicting(d, op))
    BY <2>1, <2>3, ConflictingKeeps, ConflictingOutcome DEF UpdatesDeleted, Gone
  <2> QED
    BY <1>2, <1>4, <2>2, <2>3 DEF ApplyOne
<1>5. CASE op.id \notin DOMAIN d.processed /\ op.res # None
  <2>1. ~UpdatesDeleted(d, op)
    BY <1>5 DEF UpdatesDeleted
  <2>2. CASE ~ResolutionValid(d, op)
    BY <1>2, <1>5, <2>1, <2>2 DEF ApplyOne
  <2>3. CASE ResolutionValid(d, op) /\ op.res.choice = "keep_remote"
    <3> DEFINE reply == KeepRemote(d, op)
    <3>1. op.res.conflict \in DOMAIN d.conflicts /\ op.res.expected \in Nat
      BY <2>3 DEF ResolutionValid, DbInv, DbType, ConflictType
    <3>2. /\ Handles(d, op.id, reply) /\ Outcome(d, op, reply)
          /\ reply.result.status = "applied" => Wrote(d, op, reply.db, op.res.expected + 0)
      BY <1>5, <2>3, <3>1, KeepRemoteKeeps, KeepRemoteOutcome
    <3>3. ApplyOne(d, op) = Complete(op, reply)
      BY <1>5, <2>1, <2>3 DEF ApplyOne
    <3> HIDE DEF reply
    <3>4. Kept(d, Complete(op, reply).db)
      BY <1>5, <2>3, <3>2, CompleteKeepsHistory
    <3>5. reply.result.status # "applied" => Complete(op, reply) = reply /\ reply.db.row = d.row
      BY <3>2 DEF Complete, Outcome, Unmoved
    <3>6. reply.result.status = "applied" => Complete(op, reply).result = reply.result
      BY <3>2 DEF Complete, Handles, Keeps
    <3> QED
      BY <3>3, <3>4, <3>5, <3>6
  <2>4. CASE ResolutionValid(d, op) /\ op.res.choice # "keep_remote"
    <3> DEFINE reply == Handler(d, op)
    <3>2. /\ Handles(d, op.id, reply) /\ Outcome(d, op, reply)
          /\ reply.result.status = "applied" => Wrote(d, op, reply.db, op.res.expected + 1)
      BY <1>5, <2>4, HandlerKeeps, UpdateWrites
    <3>3. ApplyOne(d, op) = Complete(op, reply)
      BY <1>5, <2>1, <2>4 DEF ApplyOne
    <3> HIDE DEF reply
    <3>4. Kept(d, Complete(op, reply).db)
      BY <1>5, <2>4, <3>2, CompleteKeepsHistory
    <3>5. reply.result.status # "applied" => Complete(op, reply) = reply /\ reply.db.row = d.row
      BY <3>2 DEF Complete, Outcome, Unmoved
    <3>6. reply.result.status = "applied" => Complete(op, reply).result = reply.result
      BY <3>2 DEF Complete, Handles, Keeps
    <3> QED
      BY <3>3, <3>4, <3>5, <3>6
  <2> QED
    BY <2>2, <2>3, <2>4
<1> QED
  BY <1>3, <1>4, <1>5

-----------------------------------------------------------------------------
(* The state machine.                                                      *)

LEMMA KeptContents ==
  ASSUME NEW d, NEW w, Contents(d), Kept(d, w)
  PROVE  Contents(w)
  BY DEF Contents, Kept, RowsTold

LEMMA InitContents == Init => CInv
<1> DEFINE d == EmptyDb
<1>1. /\ d.changes = <<>> /\ d.processed = <<>> /\ d.conflicts = <<>>
      /\ \A e \in Entity : d.row[e] = [version |-> 0, deleted |-> FALSE, payload |-> Empty]
  BY DEF EmptyDb
<1> HIDE DEF d
<1>2. HistoryInv(d)
  BY <1>1 DEF HistoryInv, Told, Witnessed, DeletedWithParent, ClosedOnce, NamesCloser, NamesClosed, ReplacesShown,
    Gone, Exists
<1>3. RowsTold(d) /\ RefsLive(d)
  BY <1>1 DEF RowsTold, TellsRow, RefsLive, Live, Exists
<1> QED
  BY <1>2, <1>3 DEF Init, CInv, Contents, Unlocked, d

\* A push starts from the committed rows, and has written nothing.
LEMMA BeginPushContents == CInv /\ BeginPush => CInv'
<1> SUFFICES ASSUME CInv, BeginPush PROVE CInv'
  OBVIOUS
<1>1. txn'.work = db /\ UNCHANGED <<db, waiting, backup>>
  BY DEF BeginPush
<1> QED
  BY <1>1 DEF CInv, Reading

\* The next operation of the batch.
LEMMA PushOneContents == IInv /\ CInv /\ PushOne => CInv'
<1> SUFFICES ASSUME IInv, CInv, PushOne PROVE CInv'
  OBVIOUS
<1> DEFINE n == Len(txn.results)
           op == txn.batch[n + 1]
           reply == IF DependencyFailed(txn.batch, txn.results, op)
                      THEN [db |-> txn.work,
                            result |-> Result(op, "blocked_dependency", 0, 0, None)]
                      ELSE ApplyOne(txn.work, op)
<1>1. /\ TxnType(txn) /\ DbInv(txn.work) /\ ~Unlocked /\ n < Len(txn.batch)
      /\ txn' = [txn EXCEPT !.work = reply.db, !.results = Append(@, reply.result)]
  BY DEF PushOne, IInv, TxnInv
<1>2. op \in Operation /\ n \in Nat
  BY <1>1, RequestAssumption DEF TxnType
<1>3. Contents(txn.work) /\ Reading(txn, db)
  BY <1>1 DEF CInv
<1>4. /\ Kept(txn.work, reply.db)
      /\ reply.result.status # "applied" => reply.db.row = txn.work.row
  <2>1. CASE DependencyFailed(txn.batch, txn.results, op)
    BY <1>3, <2>1, SameHistory DEF Contents
  <2>2. CASE ~DependencyFailed(txn.batch, txn.results, op)
    BY <1>1, <1>2, <1>3, <2>2, ApplyOneKeepsHistory DEF Contents
  <2> QED
    BY <2>1, <2>2
<1> HIDE DEF op, reply
<1>5. /\ txn'.work = reply.db
      /\ txn'.results = Append(txn.results, reply.result)
      /\ UNCHANGED <<db, waiting, backup>>
  BY <1>1 DEF TxnType, PushOne
<1>6. Contents(reply.db)
  BY <1>3, <1>4, KeptContents
<1>7. Reading(txn', db)
  <2>1. /\ DOMAIN txn.results = 1..n /\ DOMAIN txn'.results = 1..(n + 1)
        /\ txn'.results[n + 1] = reply.result
        /\ \A i \in 1..n : txn'.results[i] = txn.results[i]
    BY <1>1, <1>2, <1>5 DEF TxnType
  <2>2. n + 1 \in DOMAIN txn'.results /\ \A i \in 1..n : i \in DOMAIN txn'.results
    BY <1>2, <2>1
  <2> QED
    BY <1>3, <1>4, <1>5, <2>1, <2>2 DEF Reading
<1> QED
  BY <1>5, <1>6, <1>7 DEF CInv

LEMMA EndOfPushContents == CInv /\ (CommitPush \/ UpgradeRollback \/ Crash) => CInv'
  BY DEF CInv, CommitPush, UpgradeRollback, Crash, Finished, Unlocked

\* A REST write goes through the handlers, and resolves nothing.
LEMMA OnlineWriteContents == IInv /\ CInv /\ OnlineWrite => CInv'
<1> SUFFICES ASSUME IInv, CInv, OnlineWrite PROVE CInv'
  OBVIOUS
<1>1. PICK id \in OnlineId, device \in Device, e \in Entity, p \in Content :
        /\ Unused(id)
        /\ LET op == [id |-> id, device |-> device, entity |-> e,
                      type |-> IF p = Empty THEN "delete"
                               ELSE IF Exists(db, e) THEN "update" ELSE "create",
                      base |-> db.row[e].version, deps |-> {}, payload |-> p,
                      res |-> None]
           IN db' = Handler(db, op).db
  BY DEF OnlineWrite
<1> DEFINE op == [id |-> id, device |-> device, entity |-> e,
                  type |-> IF p = Empty THEN "delete"
                           ELSE IF Exists(db, e) THEN "update" ELSE "create",
                  base |-> db.row[e].version, deps |-> {}, payload |-> p, res |-> None]
<1>2. op \in Operation
  BY RequestAssumption DEF IInv, DbInv, DbType, RowType, Operation, Content
<1>3. op.id \notin DOMAIN db.processed /\ db' = Handler(db, op).db /\ op.res = None
  BY <1>1 DEF Unused
<1> HIDE DEF op
<1>4. DbInv(db) /\ HistoryInv(db) /\ DeletedWithParent(db) /\ Contents(db)
  BY DEF IInv, CInv, Contents, HistoryInv
<1>5. DbInv(db') /\ Outcome(db, op, Handler(db, op))
  BY <1>2, <1>3, <1>4, HandlerOutcome, OnlineWriteKeeps
<1>6. op \in IdentityType
  BY <1>2 DEF Operation, IdentityType, AnyId
<1>7. Kept(db, db')
  BY <1>3, <1>4, <1>5, <1>6, OutcomeKeeps
<1>8. Contents(db')
  BY <1>4, <1>7, KeptContents
<1> QED
  BY <1>8 DEF CInv, OnlineWrite, Unlocked

\* Archiving and restoring tell the space a version of its own.
LEMMA ToggleSpaceContents ==
  ASSUME NEW d, NEW id \in OpId, NEW device \in Device, DbInv(d), HistoryInv(d),
         id \notin DOMAIN d.processed
  PROVE  Kept(d, ToggleSpace(d, id, device))
<1> DEFINE version == d.space.version + 1
           op == [id |-> id, device |-> device, entity |-> Space, type |-> "update",
                  base |-> d.space.version, deps |-> {}, payload |-> Empty, res |-> None]
           m == [d EXCEPT !.space = [version |-> version, archived |-> ~d.space.archived]]
           w == ToggleSpace(d, id, device)
<1>1. /\ d.space.version \in Nat /\ version \in Nat /\ version > d.space.version
      /\ Empty \in Content /\ DbType(d)
  BY DEF DbInv, DbType, Content
<1>2. op \in IdentityType /\ op.id = id /\ op.entity = Space /\ op.res = None
  BY <1>1 DEF IdentityType, AnyId
<1>3. /\ m.changes = d.changes /\ m.processed = d.processed
      /\ m.retained = d.retained /\ m.conflicts = d.conflicts
      /\ m.epoch = d.epoch /\ m.row = d.row /\ DOMAIN m = DOMAIN d
      /\ m.space = [version |-> version, archived |-> ~d.space.archived]
  BY <1>1 DEF DbType
<1>4. DbType(m)
  BY <1>1, <1>3 DEF DbType, Exists
<1>5. \A e \in Entity : e # Space
  BY LedgerConstants
<1> DEFINE logged(t) == AppendApplied(m, op, version, Empty, t)
<1>6. w = [logged(FALSE) EXCEPT !.retained = Len(logged(FALSE).changes)]
  BY DEF ToggleSpace
<1>7. DbInv(w)
  BY ToggleSpaceKeeps
<1> HIDE DEF m, op, version, w
<1>8. /\ \A x \in Entity \cup {Space} : x # op.entity => Now(m, x) = Now(d, x)
      /\ Now(m, op.entity).version = version /\ Now(m, op.entity).payload = Empty
      /\ Now(m, op.entity).tombstone = FALSE
      /\ version > Now(d, op.entity).version
  BY <1>1, <1>2, <1>3, <1>5 DEF Now, Shown
<1>9. \A t \in BOOLEAN : Now(m, op.entity).tombstone = t =>
        /\ Tells(d, logged(t)) /\ Identified(d, logged(t), op)
        /\ logged(t).conflicts = d.conflicts /\ logged(t).row = m.row
        /\ Wrote(d, op, logged(t), version) /\ DOMAIN logged(t) = DOMAIN m
  BY <1>1, <1>2, <1>3, <1>4, <1>8, AppendTells
<1>10. logged(FALSE).changes = Append(d.changes, ChangeRow(id, Space, version, Empty, FALSE, d.epoch))
  <2>1. {"changes", "processed"} \subseteq DOMAIN m
    BY <1>4 DEF DbType
  <2>2. ASSUME NEW t \in BOOLEAN
        PROVE  logged(t).changes = Append(m.changes, ChangeRow(op.id, op.entity, version,
                                                               Empty, t, m.epoch))
    BY <2>1 DEF AppendApplied
  <2> HIDE DEF logged
  <2> QED
    BY <1>2, <1>3, <2>2
<1> DEFINE v == logged(FALSE)
<1>11. /\ Tells(d, v) /\ Identified(d, v, op) /\ v.conflicts = d.conflicts
       /\ v.row = d.row /\ DOMAIN v = DOMAIN d
  BY <1>3, <1>8, <1>9
<1> HIDE DEF logged
<1>12. /\ w.changes = v.changes /\ w.processed = v.processed /\ w.row = v.row
       /\ w.space = v.space /\ w.conflicts = v.conflicts
  BY <1>1, <1>6, <1>11 DEF DbType
<1> HIDE DEF v
<1>13. \A x : Now(w, x) = Now(v, x)
  BY <1>12 DEF Now, Shown
<1>14. Tells(d, w) /\ Identified(d, w, op)
  BY <1>11, <1>12, <1>13 DEF Tells, NewlyTold, Identified
<1>15. OnlyNew(d, w, op.id)
  <2>1. d.changes \in Seq(ChangeType)
    BY <1>1 DEF DbType
  <2> DEFINE row == ChangeRow(id, Space, version, Empty, FALSE, d.epoch)
  <2>2. row.id = id
    BY DEF ChangeRow
  <2>3. w.changes = Append(d.changes, row)
    BY <1>10, <1>12 DEF v
  <2> HIDE DEF row
  <2>4. \A i \in DOMAIN w.changes : i > Len(d.changes) => w.changes[i].id = id
    BY <2>1, <2>2, <2>3
  <2> QED
    BY <1>2, <2>4 DEF OnlyNew
<1>16. DeletedWithParent(w)
  BY <1>11, <1>12 DEF HistoryInv, DeletedWithParent, Gone, Exists
<1>17. HistoryInv(w)
  BY <1>2, <1>7, <1>11, <1>12, <1>14, <1>15, <1>16, MovedKeeps DEF Moved
<1>18. /\ RefsLive(d) => RefsLive(w)
       /\ \A e \in Entity : TellsRow(d, e) => TellsRow(w, e)
  BY <1>1, <1>7, <1>11, <1>12, <1>14, TellsKeepsRows DEF RefsLive, Live, Exists, DbInv
<1> QED
  BY <1>17, <1>18 DEF Kept, w

\* A row moved by an older REST route is at a version the ledger has not told.
LEMMA DirectContents ==
  ASSUME NEW d, NEW w, DbInv(d), DbInv(w), Contents(d), NEW e \in Entity, NEW p \in Payload,
         Kind[e] \in DirectKinds, ~Gone(d, e),
         "quiz_item" \notin DirectKinds /\ Names(e, p) => Live(d, Parent[e]),
         w.changes = d.changes, w.processed = d.processed, w.conflicts = d.conflicts,
         w.space = d.space,
         w.row = [d.row EXCEPT ![e] =
                    [version |-> @.version + 1, deleted |-> FALSE, payload |-> p]]
  PROVE  Contents(w)
<1>1. /\ d.row \in [Entity -> RowType] /\ DbType(d) /\ DbType(w) /\ HistoryInv(d)
      /\ \A x \in Entity : x # Space
  BY LedgerConstants DEF DbInv, DbType, Contents
<1>2. /\ \A c \in Entity : c # e => w.row[c] = d.row[c]
      /\ w.row[e].version = d.row[e].version + 1 /\ ~w.row[e].deleted
      /\ w.row[e].payload = p /\ d.row[e].version \in Nat
  BY <1>1 DEF RowType
<1>3. /\ \A x \in Entity \cup {Space} : x # e => Now(w, x) = Now(d, x)
      /\ Now(w, e).version > Now(d, e).version
  BY <1>1, <1>2 DEF Now, Shown
<1>4. Told(w) /\ Witnessed(w)
  BY <1>1, <1>3, OvertakesKeepsTold, WitnessedOn DEF HistoryInv, Overtakes
<1>5. /\ \A c \in Entity : Gone(w, c) <=> Gone(d, c)
      /\ \A c \in Entity : Live(d, c) => Live(w, c)
      /\ \A c \in Entity : Live(w, c) => c = e \/ Live(d, c)
  BY <1>2 DEF Gone, Live, Exists
<1>6. DeletedWithParent(w)
  BY <1>1, <1>5, LedgerConstants DEF HistoryInv, DeletedWithParent
<1>7. ClosedOnce(w) /\ ReplacesShown(w)
  <2>1. ClosedOnce(d) /\ ReplacesShown(d)
    BY <1>1 DEF HistoryInv
  <2>2. ClosedOnce(w)
    BY <2>1 DEF ClosedOnce, NamesCloser, NamesClosed
  <2>3. ASSUME NEW i PROVE Replaced(d, i) => Replaced(w, i)
    BY DEF Replaced
  <2> QED
    BY <2>1, <2>2, <2>3 DEF ReplacesShown
<1>8. RowsTold(w)
  <2> SUFFICES ASSUME NEW c \in Entity, Kind[c] \notin DirectKinds PROVE TellsRow(w, c)
    BY DEF RowsTold
  <2>1. TellsRow(d, c) /\ c # e
    BY DEF Contents, RowsTold
  <2>2. Now(w, c) = Now(d, c) /\ w.row[c] = d.row[c]
    BY <1>2, <1>3, <2>1
  <2> QED
    BY <2>1, <2>2 DEF TellsRow, Exists
<1>9. ASSUME "quiz_item" \notin DirectKinds PROVE RefsLive(w)
  <2> SUFFICES ASSUME NEW c \in Entity, Live(w, c), Names(c, w.row[c].payload)
               PROVE  Live(w, Parent[c])
    BY DEF RefsLive
  <2>1. Parent[c] \in Entity
    BY LedgerConstants DEF Names
  <2>2. CASE c = e
    BY <1>2, <1>5, <1>9, <2>1, <2>2
  <2>3. CASE c # e
    BY <1>2, <1>5, <1>9, <2>1, <2>3 DEF Contents, RefsLive
  <2> QED
    BY <2>2, <2>3
<1> QED
  BY <1>4, <1>6, <1>7, <1>8, <1>9 DEF Contents, HistoryInv

\* The same for the committed database and for a push that has written nothing.
LEMMA WriteRowContents ==
  ASSUME IInv, IInv', CInv, SpaceFree, NEW e \in Entity, NEW p \in Payload,
         WriteRow(e, p), Kind[e] \in DirectKinds, ~Gone(db, e),
         "quiz_item" \notin DirectKinds /\ Names(e, p) => Live(db, Parent[e]),
         waiting' \subseteq waiting, backup' = backup
  PROVE  CInv'
<1> DEFINE written == [db.row EXCEPT ![e] =
                         [version |-> @.version + 1, deleted |-> FALSE, payload |-> p]]
<1>1. /\ db' = [db EXCEPT !.row = written]
      /\ txn' = IF Unlocked THEN None ELSE [txn EXCEPT !.work.row = written]
  BY DEF WriteRow
<1>2. DbInv(db) /\ DbInv(db') /\ Contents(db)
  BY DEF IInv, CInv
<1>3. /\ db'.row = written /\ db'.changes = db.changes /\ db'.processed = db.processed
      /\ db'.conflicts = db.conflicts /\ db'.space = db.space
  BY <1>1, <1>2 DEF DbInv, DbType
<1>4. Contents(db')
  BY <1>2, <1>3, DirectContents
<1>5. ASSUME ~Unlocked
      PROVE  txn' # None => Contents(txn'.work) /\ Reading(txn', db')
  <2>1. TxnInv(txn, db) /\ DbInv(txn.work) /\ Contents(txn.work) /\ Reading(txn, db)
    BY <1>5 DEF IInv, CInv, TxnInv
  <2>2. txn.work.row = db.row
    BY <1>5, <2>1 DEF SpaceFree, Reading
  <2>3. /\ txn'.work = [txn.work EXCEPT !.row = written] /\ txn'.results = txn.results
    BY <1>1, <1>5, <2>1 DEF TxnInv, TxnType
  <2>4. /\ txn'.work.row = written /\ txn'.work.changes = txn.work.changes
        /\ txn'.work.processed = txn.work.processed
        /\ txn'.work.conflicts = txn.work.conflicts /\ txn'.work.space = txn.work.space
    BY <2>1, <2>3 DEF DbInv, DbType
  <2>5. txn' # None => DbInv(txn'.work)
    BY DEF IInv, TxnInv, Unlocked
  <2>6. ~Gone(txn.work, e) /\ (Live(db, Parent[e]) => Live(txn.work, Parent[e]))
    BY <2>2 DEF Gone, Live, Exists
  <2>7. txn' # None => Contents(txn'.work)
    BY <2>1, <2>2, <2>4, <2>5, <2>6, DirectContents
  <2> QED
    BY <1>3, <2>4, <2>7 DEF Reading
<1>6. Unlocked => Unlocked'
  BY <1>1 DEF Unlocked
<1> QED
  BY <1>4, <1>5, <1>6 DEF CInv, Unlocked

LEMMA DirectWritesContents ==
  ASSUME IInv, IInv', CInv, DirectWrite \/ DirectMemoryReads \/ DirectMemoryWrites
  PROVE  CInv'
<1>1. CASE DirectWrite
  <2>1. PICK e \in Entity, p \in Payload \ Invalid :
          /\ Kind[e] \in DirectKinds \cap {"task", "resource"}
          /\ Exists(db, e) => Live(db, e)
          /\ Names(e, p) => Live(db, Parent[e])
          /\ WriteRow(e, p)
    BY <1>1 DEF DirectWrite
  <2>2. SpaceFree /\ waiting' = waiting /\ backup' = backup /\ ~Gone(db, e)
    BY <1>1, <2>1 DEF DirectWrite, Live, Gone
  <2> QED
    BY <2>1, <2>2, WriteRowContents
<1>2. CASE DirectMemoryReads
  <2>1. UNCHANGED <<db, txn, backup>>
        /\ \A e \in waiting' : Kind[e] \in DirectKinds \cap {"topic", "quiz_item"}
    BY <1>2 DEF DirectMemoryReads, CInv
  <2> QED
    BY <2>1 DEF CInv, Unlocked
<1>3. CASE DirectMemoryWrites
  <2>1. PICK e \in waiting, p \in Payload \ Invalid :
          ~Exists(db, e) /\ WriteRow(e, p) /\ waiting' = waiting \ {e}
    BY <1>3 DEF DirectMemoryWrites
  <2>2. /\ SpaceFree /\ backup' = backup /\ waiting' \subseteq waiting
        /\ e \in Entity /\ ~Gone(db, e)
        /\ Kind[e] \in DirectKinds \cap {"topic", "quiz_item"}
    BY <1>3, <2>1 DEF DirectMemoryWrites, IInv, CInv, Gone
  <2>3. "quiz_item" \notin DirectKinds => ~Names(e, p)
    <3>1. "quiz_item" \notin DirectKinds => Kind[e] = "topic"
      BY <2>2
    <3> QED
      BY <2>2, <3>1, LedgerConstants DEF Names, ParentKinds
  <2> QED
    BY <2>1, <2>2, <2>3, WriteRowContents
<1> QED
  BY <1>1, <1>2, <1>3

LEMMA OthersContents ==
  ASSUME IInv, CInv, ChangeLifecycle \/ TakeBackup \/ RestoreBackup
  PROVE  CInv'
<1>1. CASE ChangeLifecycle
  <2>1. PICK id \in OnlineId, device \in Device :
          id \notin DOMAIN db.processed /\ db' = ToggleSpace(db, id, device)
    BY <1>1 DEF ChangeLifecycle, Unused
  <2>2. Kept(db, db')
    BY <2>1, ToggleSpaceContents, RequestAssumption DEF IInv, CInv, Contents
  <2>3. Contents(db')
    BY <2>2, KeptContents DEF CInv
  <2> QED
    BY <1>1, <2>3 DEF CInv, ChangeLifecycle, Unlocked
<1>2. CASE TakeBackup
  BY <1>2 DEF CInv, TakeBackup, Unlocked
<1>3. CASE RestoreBackup
  <2>1. db' = [backup EXCEPT !.epoch = epochs + 1]
    BY <1>3 DEF RestoreBackup
  <2>2. /\ db'.changes = backup.changes /\ db'.processed = backup.processed
        /\ db'.conflicts = backup.conflicts
        /\ db'.row = backup.row /\ db'.space = backup.space
    BY <2>1 DEF IInv, DbInv, DbType
  <2>3. Contents(db')
    BY <2>2, SameHistory, KeptContents DEF CInv, Contents
  <2> QED
    BY <1>3, <2>3 DEF CInv, RestoreBackup, Unlocked
<1> QED
  BY <1>1, <1>2, <1>3

LEMMA NextContents == IInv /\ IInv' /\ CInv /\ [Next]_vars => CInv'
<1>1. CInv /\ UNCHANGED vars => CInv'
  BY DEF CInv, vars, Unlocked
<1> QED
  BY <1>1, BeginPushContents, PushOneContents, EndOfPushContents, OnlineWriteContents,
    DirectWritesContents, OthersContents
  DEF Next

\* What every database, the copy of a push included, owes its readers.
THEOREM ContentsInvariance == Spec => []CInv
  BY InitContents, NextContents, Invariance, PTL DEF Spec

-----------------------------------------------------------------------------
(* What follows from it.                                                   *)

LEMMA EachDatabase == IInv /\ CInv => \A d \in Databases : DbInv(d) /\ Contents(d)
  BY DEF IInv, CInv, Databases, TxnInv

\* A version names one content in the ledger and in the row, in any order of
\* pushes, conflicts, resolutions, cascades, older routes and restores:
\* keep_remote, which appends a version again, never relabels it.
THEOREM VersionsNameContents == Spec => []VersionNamesContent
<1>1. ASSUME NEW d, DbInv(d), Told(d), NEW i \in DOMAIN d.changes
      PROVE  LET c == d.changes[i]
             IN /\ c.entity \in Entity =>
                     /\ c.version <= d.row[c.entity].version
                     /\ c.version = d.row[c.entity].version =>
                          c.payload = Shown(d, c.entity) /\ c.tombstone = d.row[c.entity].deleted
                /\ \A j \in 1..(i - 1) : d.changes[j].entity = c.entity =>
                     /\ d.changes[j].version <= c.version
                     /\ d.changes[j].version = c.version =>
                          d.changes[j].payload = c.payload /\ d.changes[j].tombstone = c.tombstone
  BY <1>1, LedgerConstants DEF Told, Precedes, SameContent, Now
<1>2. IInv /\ CInv => VersionNamesContent
  BY <1>1, EachDatabase DEF VersionNamesContent, Contents, HistoryInv
<1> QED
  BY <1>2, Invariance, ContentsInvariance, PTL

\* A conflict is closed by one operation, the one that names it, and what was
\* written after the conflict was shown is never overwritten by its
\* resolution.
THEOREM ConflictsEnd == Spec => []ConflictsEndOnce
<1>1. IInv /\ CInv => ConflictClosedOnce
  BY EachDatabase DEF ConflictClosedOnce, NamesCloser, NamesClosed, Contents, HistoryInv, ClosedOnce, NamesCloser, NamesClosed
<1>2. IInv /\ CInv => ResolutionReplacesShownVersion
  BY EachDatabase
  DEF ResolutionReplacesShownVersion, Contents, HistoryInv, ReplacesShown, Replaced
<1> QED
  BY <1>1, <1>2, Invariance, ContentsInvariance, PTL DEF ConflictsEndOnce

\* A replica that has applied every change has the rows of every kind that is
\* written through the ledger alone.
THEOREM LedgerTellsRows == Spec => []LedgerShowsRows
<1>1. ASSUME NEW d, DbInv(d), NEW e \in Entity, TellsRow(d, e)
      PROVE  ShowsRow(d, e)
  <2> DEFINE of == {i \in DOMAIN d.changes : d.changes[i].entity = e}
             newest == CHOOSE i \in of : \A j \in of : j <= i
  <2>1. CASE of = {}
    <3>1. ~Exists(d, e)
      BY <1>1, <2>1 DEF TellsRow
    <3> QED
      BY <2>1, <3>1 DEF ShowsRow
  <2>2. CASE of # {}
    <3>1. PICK i \in DOMAIN d.changes :
            /\ d.changes[i].entity = e /\ SameContent(d.changes[i], Now(d, e))
            /\ \A j \in DOMAIN d.changes : j > i => d.changes[j].entity # e
      BY <1>1, <2>2 DEF TellsRow
    <3>2. i \in of /\ \A j \in of : j <= i /\ i \in Nat /\ j \in Nat
      BY <1>1, <3>1, VersionsAreNat DEF DbInv
    <3>3. newest \in of /\ \A j \in of : j <= newest
      BY <3>2
    <3> HIDE DEF newest
    <3>4. newest = i
      BY <3>2, <3>3
    <3>5. SameContent(d.changes[newest], Now(d, e)) /\ e # Space
      BY <3>1, <3>4, LedgerConstants
    <3> QED
      BY <2>2, <3>5 DEF ShowsRow, SameContent, Now, newest
  <2> QED
    BY <2>1, <2>2
<1>2. IInv /\ CInv => LedgerShowsRows
  BY <1>1, EachDatabase DEF LedgerShowsRows, Contents, RowsTold
<1> QED
  BY <1>2, Invariance, ContentsInvariance, PTL

\* No live row names a parent that is not live, as long as quiz items are not
\* created through the older REST routes, whose creation looks at the topic
\* before it waits for the lock of its deletion.
THEOREM ReferencesLive ==
  ASSUME "quiz_item" \notin DirectKinds
  PROVE  Spec => []ReferencesAreLive
<1>1. IInv /\ CInv => ReferencesAreLive
  BY EachDatabase DEF ReferencesAreLive, Contents, RefsLive
<1> QED
  BY <1>1, Invariance, ContentsInvariance, PTL

=============================================================================
