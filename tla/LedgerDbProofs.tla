--------------------------- MODULE LedgerDbProofs ---------------------------
(***************************************************************************)
(* What the handlers of LedgerDb keep, for every set of devices, entities  *)
(* and payloads.  The inductive invariant DbInv is about one database: a   *)
(* lemma per handler shows that it is kept and that the ledger only grows. *)
(***************************************************************************)
EXTENDS LedgerDb, FiniteSetTheorems, WellFoundedInduction, TLAPS

\* A derived change is written in the transaction of its root.
Rooted(d) ==
  \A o \in OpId, e \in Entity :
    DerivedId(o, e) \in DOMAIN d.processed => o \in DOMAIN d.processed

DbInv(d) ==
  /\ DbType(d)
  /\ Matched(d)
  /\ Rooted(d)
  /\ d.retained <= Len(d.changes)

\* The same while the operation id has appended its derived changes and not
\* yet its own.
UnderWay(d, id) ==
  /\ DbType(d)
  /\ Matched(d)
  /\ \A o \in OpId, e \in Entity :
       DerivedId(o, e) \in DOMAIN d.processed => o \in DOMAIN d.processed \cup {id}
  /\ d.retained <= Len(d.changes)

\* The changes new has above old are derived ones, or that of operation id.
OnlyNew(old, new, id) ==
  \A i \in DOMAIN new.changes :
    i > Len(old.changes) /\ new.changes[i].id \in OpId => new.changes[i].id = id

\* An answer of success points at the change of its operation.
Answered(d, id, reply) ==
  LET r == reply.result
  IN /\ r.op = id
     /\ Succeeded(r) => /\ r.seq \in DOMAIN reply.db.changes
                        /\ reply.db.changes[r.seq].id = id
                        /\ reply.db.changes[r.seq].version = r.version
                        /\ r.status = "applied" <=> r.seq > Len(d.changes)

\* What an operation leaves of the database it was given, and a handler,
\* which closes no conflict.
Keeps(d, id, reply) ==
  /\ DbInv(reply.db)
  /\ Extends(d, reply.db)
  /\ OnlyNew(d, reply.db, id)
  /\ DOMAIN reply = {"db", "result"}
  /\ reply.result \in AnswerType
  /\ Answered(d, id, reply)
Handles(d, id, reply) ==
  /\ Keeps(d, id, reply)
  /\ reply.result.status = "applied" =>
       /\ reply.db.conflicts = d.conflicts
       /\ id \notin DOMAIN d.processed

-----------------------------------------------------------------------------
(* Histories.                                                              *)

\* A database extends itself.
LEMMA ExtendsReflexive == \A d : DbInv(d) => Extends(d, d)
  BY DEF DbInv, DbType, Extends

\* Extension composes: a batch is a sequence of operations.
LEMMA ExtendsTransitive ==
  ASSUME NEW d, NEW e, NEW f, DbType(d), DbType(e), DbType(f),
         Extends(d, e), Extends(e, f)
  PROVE  Extends(d, f)
<1> USE DEF DbType, Extends
<1>1. \A i \in 1..Len(d.changes) : f.changes[i] = d.changes[i]
  OBVIOUS
<1>2. /\ Len(d.changes) <= Len(f.changes)
      /\ d.retained <= f.retained /\ f.retained <= Len(f.changes)
  OBVIOUS
<1>3. \A c \in DOMAIN d.conflicts :
        /\ c \in DOMAIN f.conflicts
        /\ d.conflicts[c].status # "open" => f.conflicts[c] = d.conflicts[c]
  OBVIOUS
<1> QED
  BY <1>1, <1>2, <1>3

-----------------------------------------------------------------------------
(* The steps handlers are made of.                                         *)

\* The idempotency row and the change row are written together.
LEMMA AppendAppliedKeeps ==
  ASSUME NEW d, NEW op \in IdentityType, NEW version \in Nat,
         NEW payload \in Content, NEW tombstone \in BOOLEAN,
         UnderWay(d, op.id), op.id \in OpId, op.id \notin DOMAIN d.processed
  PROVE  LET w == AppendApplied(d, op, version, payload, tombstone)
         IN /\ DbInv(w)
            /\ Extends(d, w)
            /\ Len(w.changes) = Len(d.changes) + 1
            /\ w.row = d.row /\ w.conflicts = d.conflicts
            /\ w.space = d.space /\ w.retained = d.retained
            /\ w.processed[op.id] = op
<1> DEFINE change == ChangeRow(op.id, op.entity, version, payload, tombstone, d.epoch)
           w == AppendApplied(d, op, version, payload, tombstone)
<1> USE DEF DbInv, UnderWay
<1>1. change \in ChangeType
  BY DEF ChangeRow, ChangeType, IdentityType, DbType
<1>2. /\ w.changes = Append(d.changes, change)
      /\ w.processed = Put(d.processed, op.id, op)
      /\ w.epoch = d.epoch /\ w.row = d.row /\ w.conflicts = d.conflicts
      /\ w.retained = d.retained /\ w.space = d.space
      /\ DOMAIN w = DOMAIN d
  BY DEF AppendApplied, DbType
<1>3. /\ DOMAIN w.processed = DOMAIN d.processed \cup {op.id}
      /\ w.processed[op.id] = op
      /\ \A id \in DOMAIN d.processed : w.processed[id] = d.processed[id]
  BY <1>2 DEF Put
<1>4. /\ w.changes \in Seq(ChangeType)
      /\ Len(w.changes) = Len(d.changes) + 1
      /\ \A i \in 1..Len(d.changes) : w.changes[i] = d.changes[i]
      /\ w.changes[Len(d.changes) + 1] = change
  BY <1>1, <1>2 DEF DbType
<1>5. DbType(w)
  BY <1>2, <1>3, <1>4 DEF DbType, AnyId, Exists
<1>6. Matched(w)
  <2>1. change.id = op.id
    BY DEF ChangeRow
  <2>2. DOMAIN w.changes = DOMAIN d.changes \cup {Len(d.changes) + 1}
    BY <1>4 DEF DbType
  <2>3. \A i \in DOMAIN d.changes : d.changes[i].id # op.id
    BY DEF Matched
  <2>4. w.changes[Len(d.changes) + 1].id = op.id
    BY <1>4, <2>1
  <2>5. \A i \in DOMAIN d.changes : w.changes[i].id = d.changes[i].id
    BY <1>4 DEF DbType
  <2>6. {w.changes[i].id : i \in DOMAIN w.changes} = DOMAIN w.processed
    BY <1>3, <2>2, <2>4, <2>5 DEF Matched
  <2>7. ASSUME NEW i \in DOMAIN w.changes, NEW j \in DOMAIN w.changes,
               w.changes[i].id = w.changes[j].id
        PROVE  i = j
    BY <2>2, <2>3, <2>4, <2>5, <2>7 DEF Matched
  <2> QED
    BY <2>6, <2>7 DEF Matched
<1>7. Rooted(w)
  BY <1>3, LedgerConstants DEF Rooted, DerivedId
<1>8. Extends(d, w)
  BY <1>2, <1>4 DEF Extends, DbType
<1>9. DbInv(w)
  BY <1>2, <1>4, <1>5, <1>6, <1>7 DEF DbType
<1> QED
  BY <1>2, <1>3, <1>4, <1>8, <1>9

\* Writing outside the ledger disturbs none of its invariants.
LEMMA SameLedger ==
  ASSUME NEW d, NEW w, DbInv(d), DbType(w),
         w.changes = d.changes, w.processed = d.processed, w.retained = d.retained
  PROVE  DbInv(w)
  BY DEF DbInv, Matched, Rooted

\* A refusal changes nothing.
LEMMA RejectKeeps ==
  ASSUME NEW d, NEW op \in Operation, DbInv(d)
  PROVE  Handles(d, op.id, Reject(d, op))
<1> DEFINE reply == Reject(d, op)
<1>1. /\ reply.db = d /\ DOMAIN reply = {"db", "result"}
      /\ reply.result = Result(op, "rejected", 0, 0, None)
  BY DEF Reject
<1>2. reply.result \in AnswerType /\ reply.result.op = op.id
      /\ reply.result.status = "rejected"
  BY <1>1 DEF Result, AnswerType, Operation
<1>3. Extends(d, d) /\ OnlyNew(d, d, op.id)
  BY ExtendsReflexive DEF OnlyNew, DbInv, DbType
<1> QED
  BY <1>1, <1>2, <1>3 DEF Handles, Keeps, Answered, Succeeded

\* A handler that ends by appending its change, over a copy w of d that it
\* has written rows and derived changes to.
LEMMA AppliedKeeps ==
  ASSUME NEW d, NEW w, NEW op \in Operation, NEW version \in Nat,
         NEW payload \in Content, NEW tombstone \in BOOLEAN,
         DbInv(d), UnderWay(w, op.id), Extends(d, w), OnlyNew(d, w, op.id),
         w.conflicts = d.conflicts,
         op.id \notin DOMAIN d.processed, op.id \notin DOMAIN w.processed
  PROVE  Handles(d, op.id,
                 Applied(AppendApplied(w, op, version, payload, tombstone), op, version))
<1> DEFINE v == AppendApplied(w, op, version, payload, tombstone)
           reply == Applied(v, op, version)
<1>1. op \in IdentityType /\ op.id \in OpId
  BY DEF Operation, IdentityType, AnyId
<1>2. /\ DbInv(v) /\ Extends(w, v)
      /\ Len(v.changes) = Len(w.changes) + 1
      /\ v.conflicts = w.conflicts
  BY <1>1, AppendAppliedKeeps
<1>3. /\ v.changes[Len(v.changes)].id = op.id
      /\ v.changes[Len(v.changes)].version = version
  BY <1>2 DEF AppendApplied, ChangeRow, DbInv, UnderWay, DbType
<1> HIDE DEF v
<1>4. Extends(d, v)
  BY <1>2, ExtendsTransitive DEF DbInv, UnderWay
<1>5. OnlyNew(d, v, op.id)
  <2> SUFFICES ASSUME NEW i \in DOMAIN v.changes, i > Len(d.changes),
                      v.changes[i].id \in OpId
               PROVE  v.changes[i].id = op.id
    BY DEF OnlyNew
  <2>1. CASE i = Len(v.changes)
    BY <2>1, <1>3
  <2>2. CASE i # Len(v.changes)
    <3>1. i \in 1..Len(w.changes)
      BY <2>2, <1>2 DEF DbInv, UnderWay, DbType
    <3>2. i \in DOMAIN w.changes /\ v.changes[i] = w.changes[i]
      BY <3>1, <1>2 DEF Extends, DbInv, UnderWay, DbType
    <3> QED
      BY <3>2 DEF OnlyNew
  <2> QED
    BY <2>1, <2>2
<1>6. /\ reply.db = v /\ DOMAIN reply = {"db", "result"}
      /\ reply.result = Result(op, "applied", version, Len(v.changes), None)
  BY DEF Applied
<1>7. /\ reply.result \in AnswerType
      /\ reply.result.op = op.id /\ reply.result.status = "applied"
      /\ reply.result.seq = Len(v.changes) /\ reply.result.version = version
  BY <1>1, <1>2, <1>6 DEF Result, AnswerType, DbInv, UnderWay, DbType
<1>8. Len(v.changes) \in DOMAIN v.changes /\ Len(v.changes) > Len(d.changes)
  BY <1>2 DEF Extends, DbInv, UnderWay, DbType
<1>9. Answered(d, op.id, reply)
  BY <1>3, <1>6, <1>7, <1>8 DEF Answered
<1> QED
  BY <1>2, <1>4, <1>5, <1>6, <1>7, <1>9 DEF Handles, Keeps, v

-----------------------------------------------------------------------------
(* The handlers.                                                           *)

\* find_replay gives the answer of the first delivery.
LEMMA ReplayKeeps ==
  ASSUME NEW d, NEW op \in Operation, DbInv(d), op.id \in DOMAIN d.processed
  PROVE  Handles(d, op.id, Replay(d, op))
<1> DEFINE reply == Replay(d, op)
           seq == CHOOSE i \in DOMAIN d.changes : d.changes[i].id = op.id
<1>1. CASE d.processed[op.id] # op
  BY <1>1, RejectKeeps DEF Replay
<1>2. CASE d.processed[op.id] = op
  <2>1. \E i \in DOMAIN d.changes : d.changes[i].id = op.id
    BY DEF DbInv, Matched
  <2>2. seq \in DOMAIN d.changes /\ d.changes[seq].id = op.id
    BY <2>1
  <2> HIDE DEF seq
  <2>3. seq \in Nat /\ seq <= Len(d.changes) /\ d.changes[seq] \in ChangeType
    BY <2>2 DEF DbInv, DbType
  <2>8. d.changes[seq].version \in Nat
    BY <2>3 DEF ChangeType
  <2>4. /\ reply.db = d /\ DOMAIN reply = {"db", "result"}
        /\ reply.result = Result(op, "duplicate", d.changes[seq].version, seq, None)
    BY <1>2 DEF Replay, seq
  <2>5. /\ reply.result \in AnswerType
        /\ reply.result.op = op.id /\ reply.result.status = "duplicate"
        /\ reply.result.seq = seq /\ reply.result.version = d.changes[seq].version
    BY <2>3, <2>4, <2>8 DEF Result, AnswerType, Operation
  <2>6. Extends(d, d) /\ OnlyNew(d, d, op.id)
    BY ExtendsReflexive DEF OnlyNew, DbInv, DbType
  <2>7. Answered(d, op.id, reply)
    BY <2>2, <2>3, <2>4, <2>5 DEF Answered, DbInv, DbType
  <2> QED
    BY <2>4, <2>5, <2>6, <2>7 DEF Handles, Keeps
<1> QED
  BY <1>1, <1>2

\* A conflict is recorded once and appends nothing.
LEMMA ConflictingKeeps ==
  ASSUME NEW d, NEW op \in Operation, DbInv(d)
  PROVE  Handles(d, op.id, Conflicting(d, op))
<1> DEFINE e == op.entity
           remote == d.row[e]
           id == [op |-> op.id, version |-> remote.version, payload |-> Shown(d, e)]
           options == OptionsFor(op, remote.deleted)
           record == [device |-> op.device, entity |-> e, base |-> op.base,
                      local |-> op.payload, remoteVersion |-> remote.version,
                      remotePayload |-> Shown(d, e), remoteDeleted |-> remote.deleted,
                      options |-> options, status |-> "open", resolvedBy |-> None]
           after == IF id \in DOMAIN d.conflicts THEN d
                    ELSE [d EXCEPT !.conflicts = Put(@, id, record)]
           shown == [id |-> id, base |-> op.base, local |-> op.payload,
                     remoteVersion |-> remote.version, remotePayload |-> Shown(d, e),
                     remoteDeleted |-> remote.deleted, options |-> options]
           reply == Conflicting(d, op)
<1>1. /\ e \in Entity /\ op.id \in OpId /\ op.device \in Device
      /\ op.base \in Nat /\ op.payload \in Content
  BY DEF Operation
<1>2. remote \in RowType
  BY <1>1 DEF DbInv, DbType
<1>3. Shown(d, e) \in Content /\ remote.version \in Nat /\ remote.deleted \in BOOLEAN
  BY <1>2 DEF Shown, RowType, Content
<1>4. options \in SUBSET ResolutionChoices
  BY DEF OptionsFor, ResolutionChoices
<1>5. id \in ConflictId
  BY <1>1, <1>3 DEF ConflictId
<1>6. record \in ConflictType
  BY <1>1, <1>3, <1>4 DEF ConflictType
<1>7. shown \in ShownConflict
  BY <1>1, <1>3, <1>4, <1>5 DEF ShownConflict
<1>8. /\ reply.db = after /\ DOMAIN reply = {"db", "result"}
      /\ reply.result = Result(op, "conflict", remote.version, 0, shown)
  BY DEF Conflicting
<1>9. DbInv(after) /\ Extends(d, after) /\ OnlyNew(d, after, op.id)
  <2>1. CASE id \in DOMAIN d.conflicts
    BY <2>1, ExtendsReflexive DEF OnlyNew, DbInv, DbType
  <2>2. CASE id \notin DOMAIN d.conflicts
    <3> HIDE DEF id, record
    <3>1. /\ after.changes = d.changes /\ after.processed = d.processed
          /\ after.epoch = d.epoch /\ after.row = d.row
          /\ after.retained = d.retained /\ after.space = d.space
          /\ DOMAIN after = DOMAIN d
          /\ after.conflicts = Put(d.conflicts, id, record)
      BY <2>2 DEF DbInv, DbType
    <3>2. /\ DOMAIN after.conflicts = DOMAIN d.conflicts \cup {id}
          /\ after.conflicts[id] = record
          /\ \A c \in DOMAIN d.conflicts : after.conflicts[c] = d.conflicts[c]
      BY <2>2, <3>1 DEF Put
    <3>3. DbType(after)
      BY <1>5, <1>6, <3>1, <3>2 DEF DbInv, DbType, Exists
    <3>4. DbInv(after)
      BY <3>1, <3>3, SameLedger
    <3> QED
      BY <3>1, <3>2, <3>4 DEF Extends, OnlyNew, DbInv, DbType
  <2> QED
    BY <2>1, <2>2
<1> HIDE DEF after, shown
<1>10. /\ reply.result \in AnswerType /\ reply.result.op = op.id
       /\ reply.result.status = "conflict"
  BY <1>1, <1>3, <1>7, <1>8 DEF Result, AnswerType
<1> QED
  BY <1>8, <1>9, <1>10 DEF Handles, Keeps, Answered, Succeeded

\* A handler that changes one row and appends its change.
LEMMA WriteKeeps ==
  ASSUME NEW d, NEW op \in Operation, DbInv(d), op.id \notin DOMAIN d.processed,
         op.payload \in Payload
  PROVE  Handles(d, op.id, Write(d, op))
<1> DEFINE version == d.row[op.entity].version + 1
           w == [d EXCEPT !.row[op.entity] =
                   [version |-> version, deleted |-> FALSE, payload |-> op.payload]]
<1>1. op.entity \in Entity /\ op.payload \in Content
  BY DEF Operation
<1>2. version \in Nat
  BY <1>1 DEF DbInv, DbType, RowType
<1>3. /\ w.changes = d.changes /\ w.processed = d.processed
      /\ w.retained = d.retained /\ w.conflicts = d.conflicts
      /\ w.epoch = d.epoch /\ w.space = d.space /\ DOMAIN w = DOMAIN d
      /\ w.row = [d.row EXCEPT ![op.entity] =
                    [version |-> version, deleted |-> FALSE, payload |-> op.payload]]
  BY DEF DbInv, DbType
<1>4. w.row \in [Entity -> RowType]
  BY <1>1, <1>2, <1>3 DEF DbInv, DbType, RowType
<1>5. DbType(w)
  <2>1. \A e \in Entity : Exists(w, e) => w.row[e].payload \in Payload
    BY <1>1, <1>3 DEF DbInv, DbType, Exists
  <2> QED
    BY <1>3, <1>4, <2>1 DEF DbInv, DbType
<1>6. DbInv(w)
  BY <1>3, <1>5, SameLedger
<1>7. Extends(d, w) /\ OnlyNew(d, w, op.id)
  BY <1>3 DEF Extends, OnlyNew, DbInv, DbType
<1>8. Write(d, op) =
        Applied(AppendApplied(w, op, version, op.payload, FALSE), op, version)
  BY DEF Write
<1> HIDE DEF w, version
<1>9. op.id \notin DOMAIN w.processed /\ w.conflicts = d.conflicts
  BY <1>3
<1>11. UnderWay(w, op.id)
  BY <1>6 DEF DbInv, UnderWay, Rooted
<1>10. Handles(d, op.id,
               Applied(AppendApplied(w, op, version, op.payload, FALSE), op, version))
  BY <1>1, <1>2, <1>7, <1>9, <1>11, AppliedKeeps
<1> QED
  BY <1>8, <1>10

\* _create_* and _update_*: refuse, record a conflict, or write.
LEMMA CreateKeeps ==
  ASSUME NEW d, NEW op \in Operation, DbInv(d), op.id \notin DOMAIN d.processed
  PROVE  Handles(d, op.id, Create(d, op))
  BY RejectKeeps, ConflictingKeeps, WriteKeeps DEF Create, Refused

LEMMA UpdateKeeps ==
  ASSUME NEW d, NEW op \in Operation, DbInv(d), op.id \notin DOMAIN d.processed
  PROVE  Handles(d, op.id, Update(d, op))
  BY RejectKeeps, ConflictingKeeps, WriteKeeps DEF Update, Refused

\* The order a cascade is appended in names each member of its scope once.
LEMMA SetToSeqEnumerates ==
  ASSUME NEW S, IsFiniteSet(S)
  PROVE  LET s == SetToSeq(S)
         IN /\ s \in Seq(S)
            /\ \A x \in S : \E i \in DOMAIN s : s[i] = x
            /\ \A i, j \in DOMAIN s : s[i] = s[j] => i = j
<1> DEFINE n == Cardinality(S)
           s == SetToSeq(S)
<1>1. n \in Nat /\ ExistsBijection(1..n, S)
  BY FS_CardinalityType
<1>2. \E f \in [1..n -> S] : IsInjective(f)
  BY <1>1 DEF ExistsBijection, Bijection, Injection
<1>3. s \in [1..n -> S] /\ IsInjective(s)
  BY <1>2 DEF SetToSeq
<1> HIDE DEF s
<1>4. IsFiniteSet(1..n) /\ Cardinality(1..n) = n
  BY <1>1, FS_Interval
<1>5. s \in Injection(1..n, S)
  BY <1>3 DEF Injection
<1>6. s \in Surjection(1..n, S)
  BY <1>4, <1>5, FS_Injection
<1>7. \A x \in S : \E i \in 1..n : s[i] = x
  BY <1>6 DEF Surjection
<1>8. DOMAIN s = 1..n /\ s \in Seq(S)
  BY <1>1, <1>3
<1>9. \A i, j \in DOMAIN s : s[i] = s[j] => i = j
  BY <1>3 DEF IsInjective
<1> QED
  BY <1>7, <1>8, <1>9 DEF s

\* A deletion with its cascade: the copy w has the rows of the scope and the
\* derived changes, one per follower or detached resource.
LEMMA DeleteWithScopeKeeps ==
  ASSUME NEW d, NEW op \in Operation, DbInv(d), op.id \notin DOMAIN d.processed,
         Exists(d, op.entity)
  PROVE  Handles(d, op.id, DeleteWithScope(d, op))
<1> DEFINE follow == Followers(d, op.entity) \ {op.entity}
           detach == Detached(d, op.entity) \ {op.entity}
           scope == follow \cup detach
           order == SetToSeq(scope)
           after == [e \in Entity |->
                       IF e = op.entity \/ e \in follow
                         THEN [d.row[e] EXCEPT !.version = @ + 1, !.deleted = TRUE]
                       ELSE IF e \in detach
                         THEN [d.row[e] EXCEPT !.version = @ + 1, !.payload = Unlink[@]]
                       ELSE d.row[e]]
           derived(e) == [op EXCEPT !.id = DerivedId(op.id, e), !.entity = e,
                            !.type = IF e \in follow THEN "delete" ELSE "update",
                            !.payload = IF e \in follow THEN Empty ELSE after[e].payload]
           rows == [i \in DOMAIN order |->
                      ChangeRow(DerivedId(op.id, order[i]), order[i],
                                after[order[i]].version, derived(order[i]).payload,
                                order[i] \in follow, d.epoch)]
           ids == {DerivedId(op.id, e) : e \in scope}
           identities == [x \in DOMAIN d.processed \cup ids |->
                            IF x \in DOMAIN d.processed THEN d.processed[x]
                            ELSE derived(x[2])]
           w == [d EXCEPT !.row = after, !.changes = @ \o rows, !.processed = identities]
           version == after[op.entity].version
<1>1. op.entity \in Entity /\ op.id \in OpId
  BY DEF Operation
<1>2. scope \subseteq Entity /\ IsFiniteSet(scope)
  <2>1. scope \in SUBSET Entity
    BY DEF Followers, Detached
  <2> QED
    BY <2>1, LedgerConstants, FS_Subset
<1>3. /\ order \in Seq(scope)
      /\ \A e \in scope : \E i \in DOMAIN order : order[i] = e
      /\ \A i, j \in DOMAIN order : order[i] = order[j] => i = j
  BY <1>2, SetToSeqEnumerates
<1>4. \A e \in scope : Live(d, e)
  BY DEF Followers, Detached
<1>5. ASSUME NEW e \in Entity
      PROVE  /\ after[e] \in RowType
             /\ after[e].version > 0 => after[e].payload \in Payload
  <2>1. d.row[e] \in RowType /\ (d.row[e].version > 0 => d.row[e].payload \in Payload)
    BY DEF DbInv, DbType, Exists
  <2>2. e = op.entity \/ e \in scope => d.row[e].version > 0
    BY <1>4 DEF Exists, Live
  <2>3. \A p \in Payload : Unlink[p] \in Payload
    BY LedgerConstants
  <2> HIDE DEF follow, detach
  <2>4. CASE e = op.entity \/ e \in follow
    <3>1. after[e] = [d.row[e] EXCEPT !.version = @ + 1, !.deleted = TRUE]
      BY <2>4
    <3>2. after[e] = [version |-> d.row[e].version + 1, deleted |-> TRUE,
                      payload |-> d.row[e].payload]
      BY <2>1, <3>1 DEF RowType
    <3>3. d.row[e].payload \in Payload
      BY <2>1, <2>2, <2>4
    <3> HIDE DEF after
    <3> QED
      BY <2>1, <3>2, <3>3 DEF RowType, Content
  <2>5. CASE ~(e = op.entity \/ e \in follow) /\ e \in detach
    <3>1. after[e] = [d.row[e] EXCEPT !.version = @ + 1, !.payload = Unlink[@]]
      BY <2>5
    <3>2. d.row[e].payload \in Payload
      BY <2>1, <2>2, <2>5
    <3>3. Unlink[d.row[e].payload] \in Payload
      BY <2>3, <3>2
    <3>4. after[e] = [version |-> d.row[e].version + 1, deleted |-> d.row[e].deleted,
                      payload |-> Unlink[d.row[e].payload]]
      BY <2>1, <3>1 DEF RowType
    <3> HIDE DEF after
    <3> QED
      BY <2>1, <3>3, <3>4 DEF RowType, Content
  <2>6. CASE ~(e = op.entity \/ e \in scope)
    BY <2>1, <2>6
  <2> QED
    BY <2>4, <2>5, <2>6
<1> HIDE DEF after, order, follow, detach
<1>6. \A e \in scope : after[e].payload \in Content /\ after[e].version \in Nat
  BY <1>2, <1>5 DEF RowType
<1>7. ASSUME NEW e \in scope
      PROVE  /\ derived(e) \in IdentityType
             /\ derived(e).payload \in Content
  <2>1. DerivedId(op.id, e) \in AnyId /\ e \in Entity
    BY <1>1, <1>2 DEF AnyId
  <2>2. after[e].payload \in Content /\ Empty \in Content
    BY <1>6 DEF Content
  <2> QED
    BY <2>1, <2>2 DEF Operation, IdentityType
<1>8. /\ rows \in Seq(ChangeType) /\ DOMAIN rows = DOMAIN order
      /\ Len(rows) = Len(order)
      /\ \A i \in DOMAIN order : rows[i].id = DerivedId(op.id, order[i])
  <2>1. \A i \in DOMAIN order : order[i] \in scope /\ DOMAIN order = 1..Len(order)
    BY <1>3
  <2>2. ASSUME NEW i \in DOMAIN order
        PROVE  ChangeRow(DerivedId(op.id, order[i]), order[i],
                         after[order[i]].version, derived(order[i]).payload,
                         order[i] \in follow, d.epoch) \in ChangeType
    <3>1. order[i] \in scope /\ order[i] \in Entity
      BY <2>1, <1>2
    <3>2. derived(order[i]).payload \in Content
      BY <3>1, <1>7
    <3> HIDE DEF derived
    <3>3. DerivedId(op.id, order[i]) \in AnyId
      BY <3>1, <1>1 DEF AnyId
    <3>4. after[order[i]].version \in Nat
      BY <3>1, <1>6
    <3>5. d.epoch \in Nat /\ (order[i] \in follow) \in BOOLEAN
      BY DEF DbInv, DbType
    <3> QED
      BY <3>1, <3>2, <3>3, <3>4, <3>5 DEF ChangeRow, ChangeType
  <2> HIDE DEF derived
  <2>3. \A i \in DOMAIN order : rows[i] \in ChangeType
    BY <2>2
  <2>4. \A i \in DOMAIN order : rows[i].id = DerivedId(op.id, order[i])
    BY DEF ChangeRow
  <2>5. Len(order) \in Nat /\ DOMAIN order = 1..Len(order)
    BY <1>3
  <2>6. rows \in [1..Len(order) -> ChangeType]
    BY <2>3, <2>5
  <2> QED
    BY <2>4, <2>5, <2>6
<1>9. /\ DOMAIN identities = DOMAIN d.processed \cup ids
      /\ \A x \in DOMAIN identities : identities[x] \in IdentityType
      /\ ids \subseteq AnyId /\ ids \cap DOMAIN d.processed = {}
      /\ op.id \notin ids
  <2>1. \A e \in scope : DerivedId(op.id, e) \in AnyId \ OpId
    BY <1>1, <1>2, LedgerConstants DEF AnyId, DerivedId
  <2>2. \A e \in scope : DerivedId(op.id, e) \notin DOMAIN d.processed
    BY <1>1, <1>2 DEF DbInv, Rooted
  <2>3. ASSUME NEW x \in ids, x \notin DOMAIN d.processed
        PROVE  identities[x] \in IdentityType
    <3>1. PICK e \in scope : x = DerivedId(op.id, e)
      OBVIOUS
    <3>2. x[2] = e
      BY <3>1 DEF DerivedId
    <3>3. identities[x] = derived(e)
      BY <2>3, <3>2
    <3> QED
      BY <3>3, <1>7
  <2>4. \A x \in DOMAIN d.processed : identities[x] \in IdentityType
    BY DEF DbInv, DbType
  <2>5. DOMAIN identities = DOMAIN d.processed \cup ids
    OBVIOUS
  <2> HIDE DEF identities
  <2> QED
    BY <1>1, <2>1, <2>2, <2>3, <2>4, <2>5
<1> HIDE DEF rows, identities, derived
<1>10. /\ w.changes = d.changes \o rows /\ w.processed = identities
       /\ w.row = after /\ w.retained = d.retained /\ w.conflicts = d.conflicts
       /\ w.epoch = d.epoch /\ w.space = d.space /\ DOMAIN w = DOMAIN d
  BY DEF DbInv, DbType
<1>11. /\ w.changes \in Seq(ChangeType)
       /\ Len(w.changes) = Len(d.changes) + Len(order)
       /\ \A i \in 1..Len(d.changes) : w.changes[i] = d.changes[i]
       /\ \A i \in 1..Len(order) : w.changes[Len(d.changes) + i] = rows[i]
  BY <1>8, <1>10 DEF DbInv, DbType
<1>12. DbType(w)
  <2>1. after \in [Entity -> RowType]
    BY <1>5 DEF after
  <2>2. \A e \in Entity : Exists(w, e) => w.row[e].payload \in Payload
    BY <1>5, <1>10 DEF Exists
  <2>3. DOMAIN w.processed \subseteq AnyId
    BY <1>9, <1>10 DEF DbInv, DbType
  <2> HIDE DEF w, ids
  <2> QED
    BY <1>9, <1>10, <1>11, <2>1, <2>2, <2>3 DEF DbInv, DbType
<1> HIDE DEF w
<1>15. /\ Len(order) \in Nat /\ DOMAIN order = 1..Len(order)
       /\ Len(d.changes) \in Nat /\ DOMAIN d.changes = 1..Len(d.changes)
       /\ DOMAIN w.changes = 1..(Len(d.changes) + Len(order))
  BY <1>3, <1>11 DEF DbInv, DbType
<1>13. \A i \in DOMAIN w.changes :
         \/ i \in 1..Len(d.changes) /\ w.changes[i] = d.changes[i]
         \/ \E k \in DOMAIN order :
              /\ i = Len(d.changes) + k
              /\ w.changes[i].id = DerivedId(op.id, order[k])
  <2> SUFFICES ASSUME NEW i \in DOMAIN w.changes, i \notin 1..Len(d.changes)
               PROVE  \E k \in DOMAIN order :
                        /\ i = Len(d.changes) + k
                        /\ w.changes[i].id = DerivedId(op.id, order[k])
    BY <1>11
  <2>1. i - Len(d.changes) \in DOMAIN order
    BY <1>3, <1>11 DEF DbInv, DbType
  <2> WITNESS i - Len(d.changes) \in DOMAIN order
  <2> QED
    BY <2>1, <1>3, <1>8, <1>11 DEF DbInv, DbType
<1>14. Matched(w)
  <2>1. ASSUME NEW i \in DOMAIN w.changes
        PROVE  w.changes[i].id \in DOMAIN w.processed
    <3>1. \A k \in DOMAIN order : DerivedId(op.id, order[k]) \in ids
      BY <1>3
    <3>2. \A k \in 1..Len(d.changes) : d.changes[k].id \in DOMAIN d.processed
      BY DEF DbInv, DbType, Matched
    <3> QED
      BY <1>9, <1>10, <1>13, <3>1, <3>2
  <2>2. ASSUME NEW x \in DOMAIN w.processed
        PROVE  \E i \in DOMAIN w.changes : w.changes[i].id = x
    <3>1. CASE x \in DOMAIN d.processed
      <4>1. PICK i \in DOMAIN d.changes : d.changes[i].id = x
        BY <3>1 DEF DbInv, Matched
      <4>2. i \in DOMAIN w.changes /\ w.changes[i] = d.changes[i]
        BY <1>11, <1>15
      <4> QED
        BY <4>1, <4>2
    <3>2. CASE x \in ids
      <4>1. PICK e \in scope : x = DerivedId(op.id, e)
        BY <3>2
      <4>2. PICK k \in DOMAIN order : order[k] = e
        BY <1>3
      <4>3. k \in 1..Len(order)
        BY <1>3
      <4>4. Len(d.changes) + k \in DOMAIN w.changes
        BY <1>3, <1>11, <4>3 DEF DbInv, DbType
      <4>5. w.changes[Len(d.changes) + k].id = x
        BY <1>8, <1>11, <4>1, <4>2, <4>3
      <4> QED
        BY <4>4, <4>5
    <3> QED
      BY <1>9, <1>10, <3>1, <3>2
  <2>3. ASSUME NEW i \in DOMAIN w.changes, NEW j \in DOMAIN w.changes,
               w.changes[i].id = w.changes[j].id
        PROVE  i = j
    <3>1. \A k, l \in DOMAIN order :
            DerivedId(op.id, order[k]) = DerivedId(op.id, order[l]) => k = l
      BY <1>3 DEF DerivedId
    <3>2. \A k \in DOMAIN order, l \in 1..Len(d.changes) :
            DerivedId(op.id, order[k]) # d.changes[l].id
      <4>1. \A k \in DOMAIN order : DerivedId(op.id, order[k]) \in ids
        BY <1>3
      <4>2. \A l \in 1..Len(d.changes) : d.changes[l].id \in DOMAIN d.processed
        BY <1>15 DEF DbInv, Matched
      <4> HIDE DEF ids
      <4> QED
        BY <1>9, <4>1, <4>2
    <3>3. \A k, l \in 1..Len(d.changes) : d.changes[k].id = d.changes[l].id => k = l
      BY DEF DbInv, DbType, Matched
    <3> QED
      BY <1>13, <2>3, <3>1, <3>2, <3>3
  <2> QED
    BY <2>1, <2>2, <2>3 DEF Matched
<1>16. UnderWay(w, op.id)
  <2>1. ASSUME NEW o \in OpId, NEW e \in Entity, DerivedId(o, e) \in DOMAIN w.processed
        PROVE  o \in DOMAIN w.processed \cup {op.id}
    <3>1. CASE DerivedId(o, e) \in DOMAIN d.processed
      BY <1>9, <1>10, <3>1 DEF DbInv, Rooted
    <3>2. CASE DerivedId(o, e) \in ids
      BY <3>2 DEF DerivedId
    <3> QED
      BY <1>9, <1>10, <2>1, <3>1, <3>2
  <2>2. w.retained <= Len(w.changes)
    BY <1>10, <1>11, <1>15 DEF DbInv, DbType
  <2> QED
    BY <1>12, <1>14, <2>1, <2>2 DEF UnderWay
<1>17. Extends(d, w)
  BY <1>10, <1>11, <1>15 DEF Extends, DbInv, DbType
<1>18. OnlyNew(d, w, op.id)
  <2>1. \A e \in scope : DerivedId(op.id, e) \notin OpId
    BY <1>1, <1>2, LedgerConstants DEF DerivedId
  <2>2. \A k \in DOMAIN order : DerivedId(op.id, order[k]) \notin OpId
    BY <1>3, <2>1
  <2> QED
    BY <1>13, <1>15, <2>2 DEF OnlyNew
<1>19. version \in Nat /\ Empty \in Content /\ TRUE \in BOOLEAN
  BY <1>1, <1>5 DEF RowType, Content
<1>20. op.id \notin DOMAIN w.processed /\ w.conflicts = d.conflicts
  BY <1>9, <1>10
<1>21. DeleteWithScope(d, op) =
         Applied(AppendApplied(w, op, version, Empty, TRUE), op, version)
  BY DEF DeleteWithScope, w, identities, rows, derived, order, after, follow, detach
<1> HIDE DEF version
<1>22. Handles(d, op.id,
               Applied(AppendApplied(w, op, version, Empty, TRUE), op, version))
  BY <1>16, <1>17, <1>18, <1>19, <1>20, AppliedKeeps
<1> QED
  BY <1>21, <1>22

LEMMA DeleteKeeps ==
  ASSUME NEW d, NEW op \in Operation, DbInv(d), op.id \notin DOMAIN d.processed
  PROVE  Handles(d, op.id, Delete(d, op))
  BY RejectKeeps, ConflictingKeeps, DeleteWithScopeKeeps DEF Delete

LEMMA HandlerKeeps ==
  ASSUME NEW d, NEW op \in Operation, DbInv(d), op.id \notin DOMAIN d.processed
  PROVE  Handles(d, op.id, Handler(d, op))
  BY CreateKeeps, UpdateKeeps, DeleteKeeps DEF Handler

-----------------------------------------------------------------------------
(* Resolutions and whole operations.                                       *)

\* keep_remote appends the remote version once more and writes no row.
LEMMA KeepRemoteKeeps ==
  ASSUME NEW d, NEW op \in Operation, DbInv(d), op.id \notin DOMAIN d.processed,
         op.res.conflict \in DOMAIN d.conflicts
  PROVE  Handles(d, op.id, KeepRemote(d, op))
<1> DEFINE version == d.conflicts[op.res.conflict].remoteVersion
           tombstone == Kind[op.entity] \in DeleteModels /\ Gone(d, op.entity)
<1>1. version \in Nat /\ op.payload \in Content /\ tombstone \in BOOLEAN
  BY DEF DbInv, DbType, ConflictType, Operation
<1>2. UnderWay(d, op.id)
  BY DEF DbInv, UnderWay, Rooted
<1>3. Extends(d, d) /\ OnlyNew(d, d, op.id)
  BY ExtendsReflexive DEF OnlyNew, DbInv, DbType
<1>4. KeepRemote(d, op) = Reject(d, op) \/ KeepRemote(d, op) =
        Applied(AppendApplied(d, op, version, op.payload, tombstone), op, version)
  BY DEF KeepRemote
<1> HIDE DEF version, tombstone
<1>5. Handles(d, op.id,
              Applied(AppendApplied(d, op, version, op.payload, tombstone), op, version))
  BY <1>1, <1>2, <1>3, AppliedKeeps
<1> QED
  BY <1>4, <1>5, RejectKeeps

\* Closing a conflict that was open touches nothing but its record.
LEMMA CompleteKeeps ==
  ASSUME NEW d, NEW op \in Operation, NEW reply, DbInv(d), Handles(d, op.id, reply),
         op.res.conflict \in DOMAIN d.conflicts,
         d.conflicts[op.res.conflict].status = "open"
  PROVE  Keeps(d, op.id, Complete(op, reply))
<1>1. CASE reply.result.status # "applied"
  BY <1>1 DEF Complete, Handles
<1>2. CASE reply.result.status = "applied"
  <2> DEFINE c == op.res.conflict
             closed == [reply.db.conflicts[c] EXCEPT
                          !.status = StatusOf(op.res.choice), !.resolvedBy = op.id]
             w == [reply.db EXCEPT !.conflicts = [@ EXCEPT ![c] = closed]]
             done == Complete(op, reply)
  <2>1. /\ DbInv(reply.db) /\ Extends(d, reply.db) /\ OnlyNew(d, reply.db, op.id)
        /\ DOMAIN reply = {"db", "result"} /\ reply.result \in AnswerType
        /\ Answered(d, op.id, reply) /\ reply.db.conflicts = d.conflicts
    BY <1>2 DEF Handles, Keeps
  <2>2. done.db = w /\ done.result = reply.result /\ DOMAIN done = {"db", "result"}
    BY <1>2, <2>1 DEF Complete
  <2>3. reply.db.conflicts[c] \in ConflictType
    BY <2>1 DEF DbInv, DbType
  <2>4. StatusOf(op.res.choice) \in {"resolved_local", "resolved_remote", "resolved_merge"}
    BY DEF StatusOf
  <2>5. closed \in ConflictType
    BY <2>3, <2>4 DEF ConflictType, Operation
  <2> HIDE DEF closed, done
  <2>6. /\ w.changes = reply.db.changes /\ w.processed = reply.db.processed
        /\ w.epoch = reply.db.epoch /\ w.row = reply.db.row
        /\ w.retained = reply.db.retained /\ w.space = reply.db.space
        /\ DOMAIN w = DOMAIN reply.db
        /\ w.conflicts = [reply.db.conflicts EXCEPT ![c] = closed]
    BY <2>1 DEF DbInv, DbType
  <2>7. /\ DOMAIN w.conflicts = DOMAIN d.conflicts
        /\ w.conflicts[c] = closed
        /\ \A x \in DOMAIN d.conflicts : x # c => w.conflicts[x] = d.conflicts[x]
    BY <2>1, <2>6
  <2> HIDE DEF w
  <2>8. DbType(w)
    BY <2>1, <2>5, <2>6, <2>7 DEF DbInv, DbType, Exists
  <2>9. DbInv(w)
    BY <2>1, <2>6, <2>8, SameLedger
  <2>10. Extends(d, w)
    BY <2>1, <2>6, <2>7 DEF Extends, DbInv, DbType
  <2>11. OnlyNew(d, w, op.id) /\ Answered(d, op.id, done)
    BY <2>1, <2>2, <2>6 DEF OnlyNew, Answered
  <2> QED
    BY <2>1, <2>2, <2>9, <2>10, <2>11 DEF Keeps, done
<1> QED
  BY <1>1, <1>2

\* One operation of a batch keeps the invariant and only adds history.
LEMMA ApplyOneKeeps ==
  ASSUME NEW d, NEW op \in Operation, DbInv(d)
  PROVE  Keeps(d, op.id, ApplyOne(d, op))
<1>1. CASE op.id \in DOMAIN d.processed
  BY <1>1, ReplayKeeps DEF ApplyOne, Handles
<1>2. CASE op.id \notin DOMAIN d.processed
  <2>1. /\ Keeps(d, op.id, Handler(d, op)) /\ Keeps(d, op.id, Conflicting(d, op))
        /\ Keeps(d, op.id, Reject(d, op))
    BY <1>2, HandlerKeeps, ConflictingKeeps, RejectKeeps DEF Handles
  <2>2. ASSUME ResolutionValid(d, op)
        PROVE  /\ Keeps(d, op.id, Complete(op, Handler(d, op)))
               /\ Keeps(d, op.id, Complete(op, KeepRemote(d, op)))
    <3>1. /\ op.res.conflict \in DOMAIN d.conflicts
          /\ d.conflicts[op.res.conflict].status = "open"
      BY <2>2 DEF ResolutionValid
    <3>2. Handles(d, op.id, Handler(d, op)) /\ Handles(d, op.id, KeepRemote(d, op))
      BY <1>2, <3>1, HandlerKeeps, KeepRemoteKeeps
    <3> QED
      BY <3>1, <3>2, CompleteKeeps
  <2> QED
    BY <1>2, <2>1, <2>2 DEF ApplyOne
<1> QED
  BY <1>1, <1>2

\* The change of the space and the floor it raises.
LEMMA ToggleSpaceKeeps ==
  ASSUME NEW d, NEW id \in OpId, NEW device \in Device, DbInv(d),
         id \notin DOMAIN d.processed
  PROVE  DbInv(ToggleSpace(d, id, device)) /\ Extends(d, ToggleSpace(d, id, device))
<1> DEFINE version == d.space.version + 1
           op == [id |-> id, device |-> device, entity |-> Space, type |-> "update",
                  base |-> d.space.version, deps |-> {}, payload |-> Empty, res |-> None]
           moved == [d EXCEPT !.space = [version |-> version,
                                         archived |-> ~d.space.archived]]
           logged == AppendApplied(moved, op, version, Empty, FALSE)
           w == [logged EXCEPT !.retained = Len(logged.changes)]
<1>1. d.space.version \in Nat /\ version \in Nat /\ Empty \in Content
  BY DEF DbInv, DbType, Content
<1>2. op \in IdentityType
  BY <1>1 DEF IdentityType, AnyId
<1>3. /\ moved.changes = d.changes /\ moved.processed = d.processed
      /\ moved.retained = d.retained /\ moved.conflicts = d.conflicts
      /\ moved.epoch = d.epoch /\ moved.row = d.row /\ DOMAIN moved = DOMAIN d
      /\ moved.space = [version |-> version, archived |-> ~d.space.archived]
  BY DEF DbInv, DbType
<1>4. DbType(moved)
  BY <1>1, <1>3 DEF DbInv, DbType, Exists
<1>5. DbInv(moved)
  BY <1>3, <1>4, SameLedger
<1>6. UnderWay(moved, op.id) /\ Extends(d, moved)
  BY <1>3, <1>5 DEF DbInv, UnderWay, Rooted, Extends, DbType
<1>14. op.id \in OpId /\ op.id \notin DOMAIN moved.processed /\ FALSE \in BOOLEAN
  BY <1>3
<1>7. w = ToggleSpace(d, id, device)
  BY DEF ToggleSpace
<1> HIDE DEF moved, op, version
<1>8. /\ DbInv(logged) /\ Extends(moved, logged)
      /\ logged.retained = moved.retained
  <2>1. \A t \in BOOLEAN :
          LET v == AppendApplied(moved, op, version, Empty, t)
          IN DbInv(v) /\ Extends(moved, v) /\ v.retained = moved.retained
    BY <1>1, <1>2, <1>6, <1>14, AppendAppliedKeeps
  <2> QED
    BY <2>1
<1>9. Extends(d, logged)
  BY <1>4, <1>6, <1>8, ExtendsTransitive DEF DbInv
<1> HIDE DEF logged
<1>10. /\ w.changes = logged.changes /\ w.processed = logged.processed
       /\ w.retained = Len(logged.changes) /\ w.conflicts = logged.conflicts
       /\ w.epoch = logged.epoch /\ w.row = logged.row /\ DOMAIN w = DOMAIN logged
       /\ w.space = logged.space
  BY <1>8 DEF DbInv, DbType
<1>11. DbType(w)
  BY <1>8, <1>10 DEF DbInv, DbType, Exists
<1>12. DbInv(w)
  <2>1. Matched(w) /\ Rooted(w)
    BY <1>8, <1>10 DEF DbInv, Matched, Rooted
  <2>2. w.retained <= Len(w.changes)
    BY <1>8, <1>10 DEF DbInv, DbType
  <2> QED
    BY <1>11, <2>1, <2>2 DEF DbInv
<1>13. Extends(d, w)
  BY <1>8, <1>9, <1>10 DEF Extends, DbInv, DbType
<1> QED
  BY <1>7, <1>12, <1>13
-----------------------------------------------------------------------------
(* Positions of a sequence, and counting up to one.                        *)

\* A set of numbers has a least one.
LEMMA LeastNumber == ASSUME NEW T \in SUBSET Nat, T # {} PROVE \E x \in T : \A y \in T : x <= y
<1> DEFINE R == OpToRel(<, Nat)
<1>1. IsWellFoundedOn(R, Nat)
  BY NatLessThanWellFounded, Zenon
<1>2. \A a, b \in Nat : a < b => <<a, b>> \in R
  BY DEF OpToRel
<1> HIDE DEF R
<1>3. \E x \in T : \A y \in T : ~(<<y, x>> \in R)
  BY <1>1, WFMin
<1>4. PICK x \in T : \A y \in T : ~(<<y, x>> \in R)
  BY <1>3
<1>5. \A y \in T : ~(y < x)
  BY <1>2, <1>4
<1> QED
  BY <1>5

\* A set that has 0, and with each number below n the next one, has every
\* number up to n.
LEMMA CountingUp ==
  ASSUME NEW n \in Nat, NEW Q, 0 \in Q,
         \A k \in 0..n : k # n /\ k \in Q => k + 1 \in Q
  PROVE  \A k \in 0..n : k \in Q
<1> DEFINE Bad == {k \in 0..n : k \notin Q}
<1>1. SUFFICES ASSUME Bad # {} PROVE FALSE
  OBVIOUS
<1>2. Bad \in SUBSET Nat
  OBVIOUS
<1> HIDE DEF Bad
<1>3. PICK x \in Bad : \A y \in Bad : x <= y
  BY <1>1, <1>2, LeastNumber
<1>4. x \in 0..n /\ x \notin Q
  BY DEF Bad
<1>5. x # 0 /\ x - 1 \in 0..n /\ x - 1 < x /\ x - 1 # n
  BY <1>4
<1>6. x - 1 \in Q
  BY <1>3, <1>5 DEF Bad
<1>7. (x - 1) + 1 \in Q
  BY <1>5, <1>6
<1> QED
  BY <1>4, <1>7

\* Later positions have higher ranks, from one up.
LEMMA Ranks ==
  ASSUME NEW n \in Nat, NEW I \in SUBSET (1..n)
  PROVE  /\ IsFiniteSet(I) /\ Cardinality(I) \in Nat
         /\ \A i \in I : Rank(I, i) \in 1..Cardinality(I)
         /\ \A i, j \in I : i < j => Rank(I, i) < Rank(I, j)
<1>1. IsFiniteSet(I) /\ Cardinality(I) \in Nat
  <2>1. IsFiniteSet(1..n)
    BY FS_Interval
  <2>2. IsFiniteSet(I)
    BY <2>1, FS_Subset
  <2> QED
    BY <2>2, FS_CardinalityType
<1>2. ASSUME NEW i \in I
      PROVE  Rank(I, i) \in 1..Cardinality(I)
  <2> DEFINE J == {j \in I : j <= i}
  <2>1. J \in SUBSET I /\ J # {}
    OBVIOUS
  <2> HIDE DEF J
  <2>2. IsFiniteSet(J) /\ Cardinality(J) <= Cardinality(I)
    BY <1>1, <2>1, FS_Subset
  <2>3. Cardinality(J) \in Nat /\ Cardinality(J) # 0
    BY <2>1, <2>2, FS_CardinalityType, FS_EmptySet
  <2>4. Cardinality(J) \in 1..Cardinality(I)
    BY <1>1, <2>2, <2>3
  <2> QED
    BY <2>4 DEF Rank, J
<1>3. ASSUME NEW i \in I, NEW j \in I, i < j
      PROVE  Rank(I, i) < Rank(I, j)
  <2> DEFINE J == {k \in I : k <= i}
             K == {k \in I : k <= j}
  <2>1. J \in SUBSET K /\ K \in SUBSET I /\ j \in K /\ j \notin J
    <3>1. i \in Nat /\ j \in Nat /\ ~(j <= i) /\ j <= j
      BY <1>3
    <3>2. \A k \in I : k \in Nat
      OBVIOUS
    <3>3. \A k \in I : k <= i => k <= j
      BY <1>3, <3>1, <3>2
    <3> QED
      BY <3>1, <3>3
  <2> HIDE DEF J, K
  <2>2. IsFiniteSet(K)
    BY <1>1, <2>1, FS_Subset
  <2>3. IsFiniteSet(J) /\ Cardinality(J) <= Cardinality(K) /\ Cardinality(J) # Cardinality(K)
    BY <2>1, <2>2, FS_Subset
  <2>4. Cardinality(J) \in Nat /\ Cardinality(K) \in Nat
    BY <2>2, <2>3, FS_CardinalityType
  <2>5. Cardinality(J) < Cardinality(K)
    BY <2>3, <2>4
  <2> QED
    BY <2>5 DEF Rank, J, K
<1> QED
  BY <1>1, <1>2, <1>3

\* Those lists what q has at the positions I, each once and in their order.
Lists(s, q, I, at) ==
  /\ at \in [DOMAIN s -> I]
  /\ \A k \in DOMAIN s : s[k] = q[at[k]]
  /\ \A k, m \in DOMAIN s : k < m => at[k] < at[m]
  /\ \A i \in I : \E k \in DOMAIN s : at[k] = i
LEMMA ThoseListed ==
  ASSUME NEW T, NEW q \in Seq(T), NEW I \in SUBSET (DOMAIN q)
  PROVE  /\ Those(q, I) \in Seq(T)
         /\ \E at : Lists(Those(q, I), q, I, at)
<1> DEFINE n == Cardinality(I)
           rank == [i \in I |-> Rank(I, i)]
           at == [k \in 1..n |-> CHOOSE i \in I : Rank(I, i) = k]
           s == Those(q, I)
<1>1. Len(q) \in Nat /\ I \in SUBSET (1..Len(q))
  OBVIOUS
<1>2. /\ IsFiniteSet(I) /\ n \in Nat
      /\ \A i \in I : Rank(I, i) \in 1..n
      /\ \A i, j \in I : i < j => Rank(I, i) < Rank(I, j)
  BY <1>1, Ranks
<1>3. I \subseteq Nat
  BY <1>1
<1>4. rank \in Injection(I, 1..n)
  <2>1. \A i, j \in I : Rank(I, i) = Rank(I, j) => i = j
    BY <1>2, <1>3
  <2> QED
    BY <1>2, <2>1 DEF Injection, IsInjective
<1>5. IsFiniteSet(1..n) /\ Cardinality(1..n) = n
  BY <1>2, FS_Interval
<1>6. rank \in Surjection(I, 1..n)
  BY <1>4, <1>5, FS_Injection
<1>7. \A k \in 1..n : \E i \in I : Rank(I, i) = k
  BY <1>6 DEF Surjection
<1>8. \A k \in 1..n : at[k] \in I /\ Rank(I, at[k]) = k
  BY <1>7
<1>9. DOMAIN s = 1..n /\ \A k \in 1..n : s[k] = q[at[k]]
  BY DEF Those
<1>10. DOMAIN at = 1..n /\ s = [k \in 1..n |-> q[at[k]]]
  BY DEF Those
<1> HIDE DEF at, n
<1>11. s \in Seq(T)
  <2>1. \A k \in 1..n : q[at[k]] \in T
    BY <1>1, <1>8
  <2>2. s \in [1..n -> T]
    BY <1>10, <2>1
  <2> QED
    BY <1>2, <2>2
<1> HIDE DEF s
<1>12. \A k, m \in 1..n : k < m => at[k] < at[m]
  <2> SUFFICES ASSUME NEW k \in 1..n, NEW m \in 1..n, k < m, ~(at[k] < at[m])
               PROVE  FALSE
    OBVIOUS
  <2>1. at[m] = at[k] \/ at[m] < at[k]
    BY <1>3, <1>8
  <2>2. m = k \/ m < k
    BY <1>2, <1>8, <2>1
  <2> QED
    BY <1>2, <2>2
<1>13. \A i \in I : \E k \in 1..n : at[k] = i
  <2> SUFFICES ASSUME NEW i \in I
               PROVE  at[Rank(I, i)] = i
    BY <1>2
  <2>1. Rank(I, i) \in 1..n
    BY <1>2
  <2>2. at[Rank(I, i)] \in I /\ Rank(I, at[Rank(I, i)]) = Rank(I, i)
    BY <1>8, <2>1
  <2> QED
    BY <1>2, <1>3, <2>1, <2>2
<1>14. at \in [1..n -> I]
  BY <1>8, <1>10 DEF at
<1>15. Lists(s, q, I, at)
  BY <1>9, <1>12, <1>13, <1>14 DEF Lists
<1> QED
  BY <1>11, <1>15 DEF s

-----------------------------------------------------------------------------
(* The epoch of what is written, and what an answer shows.                 *)

\* What is told above old is of the epoch x.
ToldIn(old, new, x) ==
  \A i \in DOMAIN new : i > Len(old) => new[i].epoch = x

\* An operation writes in the epoch of the database, and an answer that names
\* a conflict shows it.
InEpoch(d, reply) ==
  /\ reply.db.epoch = d.epoch
  /\ ToldIn(d.changes, reply.db.changes, d.epoch)
  /\ reply.result.status = "conflict" => reply.result.conflict \in ShownConflict

\* One change of the epoch x above rows of the epoch x.
LEMMA AppendToldIn ==
  ASSUME NEW T, NEW old \in Seq(T), NEW mid \in Seq(T), NEW last, NEW x,
         ToldIn(old, mid, x), Len(old) <= Len(mid), last.epoch = x
  PROVE  ToldIn(old, Append(mid, last), x)
<1> DEFINE U == T \cup {last}
<1>1. mid \in Seq(U) /\ last \in U /\ Len(mid) \in Nat /\ DOMAIN mid = 1..Len(mid)
  OBVIOUS
<1> HIDE DEF U
<1>2. /\ DOMAIN Append(mid, last) = 1..(Len(mid) + 1)
      /\ \A i \in 1..Len(mid) : Append(mid, last)[i] = mid[i]
      /\ Append(mid, last)[Len(mid) + 1] = last
  BY <1>1
<1> SUFFICES ASSUME NEW i \in 1..(Len(mid) + 1), i > Len(old)
             PROVE  Append(mid, last)[i].epoch = x
  BY <1>2 DEF ToldIn
<1>3. CASE i = Len(mid) + 1
  BY <1>2, <1>3
<1>4. CASE i # Len(mid) + 1
  <2>1. i \in 1..Len(mid)
    BY <1>1, <1>4
  <2> QED
    BY <1>1, <1>2, <2>1 DEF ToldIn
<1> QED
  BY <1>3, <1>4
LEMMA RowsToldIn ==
  ASSUME NEW T, NEW old \in Seq(T), NEW rows \in Seq(T), NEW x,
         \A i \in DOMAIN rows : rows[i].epoch = x
  PROVE  old \o rows \in Seq(T) /\ ToldIn(old, old \o rows, x) /\ Len(old) <= Len(old \o rows)
<1>1. /\ old \o rows \in Seq(T) /\ Len(old \o rows) = Len(old) + Len(rows)
      /\ Len(old) \in Nat /\ Len(rows) \in Nat /\ DOMAIN rows = 1..Len(rows)
      /\ \A i \in 1..Len(rows) : (old \o rows)[Len(old) + i] = rows[i]
  OBVIOUS
<1> SUFFICES ASSUME NEW i \in 1..(Len(old) + Len(rows)), i > Len(old)
             PROVE  (old \o rows)[i].epoch = x
  BY <1>1 DEF ToldIn
<1>2. i - Len(old) \in 1..Len(rows) /\ i = Len(old) + (i - Len(old))
  BY <1>1
<1>3. (old \o rows)[i] = rows[i - Len(old)]
  BY <1>1, <1>2
<1> QED
  BY <1>1, <1>2, <1>3

\* What append_applied adds to rows told in the epoch of d.
LEMMA AppliedInEpoch ==
  ASSUME NEW T, NEW d, NEW v, NEW op, NEW version, NEW payload, NEW tombstone,
         DOMAIN v = DOMAIN d,
         DOMAIN d = {"epoch", "changes", "processed", "row", "conflicts", "retained", "space"},
         d.changes \in Seq(T), v.changes \in Seq(T), v.epoch = d.epoch,
         ToldIn(d.changes, v.changes, d.epoch), Len(d.changes) <= Len(v.changes)
  PROVE  InEpoch(d, Applied(AppendApplied(v, op, version, payload, tombstone), op, version))
<1> DEFINE w == AppendApplied(v, op, version, payload, tombstone)
           change == ChangeRow(op.id, op.entity, version, payload, tombstone, v.epoch)
<1>1. w.epoch = v.epoch /\ w.changes = Append(v.changes, change)
  BY DEF AppendApplied
<1>2. change.epoch = d.epoch
  BY DEF ChangeRow
<1> HIDE DEF w, change
<1>3. ToldIn(d.changes, Append(v.changes, change), d.epoch)
  BY <1>2, AppendToldIn
<1>4. w.epoch = d.epoch /\ ToldIn(d.changes, w.changes, d.epoch)
  BY <1>1, <1>3
<1>5. Applied(w, op, version).db = w /\ Applied(w, op, version).result.status = "applied"
  BY DEF Applied, Result
<1> QED
  BY <1>4, <1>5 DEF InEpoch, w

\* A refusal and a replay tell nothing; a conflict is shown with its answer.
LEMMA RejectInEpoch ==
  ASSUME NEW d, NEW op, DbInv(d)
  PROVE  InEpoch(d, Reject(d, op)) /\ InEpoch(d, Replay(d, op))
<1>1. ToldIn(d.changes, d.changes, d.epoch)
  BY DEF ToldIn, DbInv, DbType
<1> QED
  BY <1>1 DEF InEpoch, Reject, Replay, Result
LEMMA ConflictingInEpoch ==
  ASSUME NEW d, NEW op \in Operation, DbInv(d)
  PROVE  InEpoch(d, Conflicting(d, op))
<1> DEFINE e == op.entity
           remote == d.row[e]
           id == [op |-> op.id, version |-> remote.version, payload |-> Shown(d, e)]
           options == OptionsFor(op, remote.deleted)
           shown == [id |-> id, base |-> op.base, local |-> op.payload,
                     remoteVersion |-> remote.version, remotePayload |-> Shown(d, e),
                     remoteDeleted |-> remote.deleted, options |-> options]
           reply == Conflicting(d, op)
<1>1. /\ e \in Entity /\ op.id \in OpId
      /\ op.base \in Nat /\ op.payload \in Content
  BY DEF Operation
<1>2. remote \in RowType
  BY <1>1 DEF DbInv, DbType
<1>3. Shown(d, e) \in Content /\ remote.version \in Nat /\ remote.deleted \in BOOLEAN
  BY <1>2 DEF Shown, RowType, Content
<1>4. options \in SUBSET ResolutionChoices
  BY DEF OptionsFor, ResolutionChoices
<1>5. id \in ConflictId
  BY <1>1, <1>3 DEF ConflictId
<1>6. shown \in ShownConflict
  BY <1>1, <1>3, <1>4, <1>5 DEF ShownConflict
<1>7. reply.result.conflict = shown
  BY DEF Conflicting, Result
<1>8. reply.db.changes = d.changes /\ reply.db.epoch = d.epoch
  BY DEF Conflicting, DbInv, DbType
<1> HIDE DEF shown, reply
<1>9. ToldIn(d.changes, reply.db.changes, d.epoch)
  BY <1>8 DEF ToldIn, DbInv, DbType
<1> QED
  BY <1>6, <1>7, <1>8, <1>9 DEF InEpoch, reply

\* What is written is of the epoch, cascades included.
LEMMA WriteInEpoch ==
  ASSUME NEW d, NEW op, DbInv(d)
  PROVE  InEpoch(d, Write(d, op))
<1> DEFINE version == d.row[op.entity].version + 1
           w == [d EXCEPT !.row[op.entity] =
                   [version |-> version, deleted |-> FALSE, payload |-> op.payload]]
<1>1. /\ d.changes \in Seq(ChangeType)
      /\ DOMAIN d = {"epoch", "changes", "processed", "row", "conflicts", "retained", "space"}
  BY DEF DbInv, DbType
<1>2. w.changes = d.changes /\ w.epoch = d.epoch /\ DOMAIN w = DOMAIN d
  BY <1>1
<1>3. Write(d, op) = Applied(AppendApplied(w, op, version, op.payload, FALSE), op, version)
  BY DEF Write
<1> HIDE DEF w, version
<1>4. ToldIn(d.changes, w.changes, d.epoch) /\ Len(d.changes) <= Len(w.changes)
  BY <1>1, <1>2 DEF ToldIn
<1>5. InEpoch(d, Applied(AppendApplied(w, op, version, op.payload, FALSE), op, version))
  BY <1>1, <1>2, <1>4, AppliedInEpoch
<1> QED
  BY <1>3, <1>5
LEMMA DeleteInEpoch ==
  ASSUME NEW d, NEW op \in Operation, DbInv(d)
  PROVE  InEpoch(d, DeleteWithScope(d, op))
<1> DEFINE follow == Followers(d, op.entity) \ {op.entity}
           detach == Detached(d, op.entity) \ {op.entity}
           scope == follow \cup detach
           order == SetToSeq(scope)
           after == [e \in Entity |->
                       IF e = op.entity \/ e \in follow
                         THEN [d.row[e] EXCEPT !.version = @ + 1, !.deleted = TRUE]
                       ELSE IF e \in detach
                         THEN [d.row[e] EXCEPT !.version = @ + 1, !.payload = Unlink[@]]
                       ELSE d.row[e]]
           derived(e) == [op EXCEPT !.id = DerivedId(op.id, e), !.entity = e,
                            !.type = IF e \in follow THEN "delete" ELSE "update",
                            !.payload = IF e \in follow THEN Empty ELSE after[e].payload]
           rows == [i \in DOMAIN order |->
                      ChangeRow(DerivedId(op.id, order[i]), order[i],
                                after[order[i]].version, derived(order[i]).payload,
                                order[i] \in follow, d.epoch)]
           identities == [x \in DOMAIN d.processed \cup {DerivedId(op.id, e) : e \in scope} |->
                            IF x \in DOMAIN d.processed THEN d.processed[x]
                            ELSE derived(x[2])]
           w == [d EXCEPT !.row = after, !.changes = @ \o rows, !.processed = identities]
           version == after[op.entity].version
           T == ChangeType \cup {rows[i] : i \in DOMAIN rows}
<1>1. /\ d.changes \in Seq(ChangeType)
      /\ DOMAIN d = {"epoch", "changes", "processed", "row", "conflicts", "retained", "space"}
  BY DEF DbInv, DbType
<1>2. scope \in SUBSET Entity
  BY DEF Followers, Detached
<1>3. IsFiniteSet(scope)
  BY <1>2, LedgerConstants, FS_Subset
<1>4. order \in Seq(scope)
  <2> HIDE DEF scope
  <2> QED
    BY <1>3, SetToSeqEnumerates
<1>5. \A i \in DOMAIN rows : rows[i].epoch = d.epoch
  <2> HIDE DEF order, after, derived, follow
  <2> QED
    BY DEF ChangeRow
<1>6. w.changes = d.changes \o rows /\ w.epoch = d.epoch /\ DOMAIN w = DOMAIN d
  BY <1>1
<1>7. DeleteWithScope(d, op) =
        Applied(AppendApplied(w, op, version, Empty, TRUE), op, version)
  BY DEF DeleteWithScope
<1>8. DOMAIN rows = DOMAIN order
  OBVIOUS
<1> HIDE DEF order, w, version, rows
<1>9. rows \in Seq(T) /\ d.changes \in Seq(T)
  <2>1. DOMAIN order = 1..Len(order) /\ Len(order) \in Nat
    BY <1>4
  <2>2. \A i \in 1..Len(order) : rows[i] \in T
    BY <1>8, <2>1
  <2>3. rows = [i \in 1..Len(order) |-> rows[i]]
    BY <1>8, <2>1 DEF rows
  <2>4. rows \in [1..Len(order) -> T]
    BY <2>2, <2>3
  <2> HIDE DEF T
  <2>5. rows \in Seq(T)
    BY <2>1, <2>4
  <2>6. ChangeType \subseteq T
    BY DEF T
  <2>7. d.changes \in Seq(T)
    BY <1>1, <2>6
  <2> QED
    BY <2>5, <2>7
<1> HIDE DEF T
<1>10. /\ d.changes \o rows \in Seq(T) /\ ToldIn(d.changes, d.changes \o rows, d.epoch)
       /\ Len(d.changes) <= Len(d.changes \o rows)
  BY <1>5, <1>9, RowsToldIn
<1>11. /\ w.changes \in Seq(T) /\ ToldIn(d.changes, w.changes, d.epoch)
       /\ Len(d.changes) <= Len(w.changes)
  BY <1>6, <1>10
<1>12. InEpoch(d, Applied(AppendApplied(w, op, version, Empty, TRUE), op, version))
  BY <1>1, <1>6, <1>9, <1>11, AppliedInEpoch
<1> QED
  BY <1>7, <1>12
LEMMA HandlerInEpoch ==
  ASSUME NEW d, NEW op \in Operation, DbInv(d)
  PROVE  InEpoch(d, Handler(d, op)) /\ InEpoch(d, KeepRemote(d, op))
<1>1. InEpoch(d, Handler(d, op))
  BY RejectInEpoch, ConflictingInEpoch, WriteInEpoch, DeleteInEpoch
     DEF Handler, Create, Update, Delete
<1>2. InEpoch(d, KeepRemote(d, op))
  <2> DEFINE version == d.conflicts[op.res.conflict].remoteVersion
             tombstone == Kind[op.entity] \in DeleteModels /\ Gone(d, op.entity)
  <2>1. /\ d.changes \in Seq(ChangeType)
        /\ DOMAIN d = {"epoch", "changes", "processed", "row", "conflicts", "retained", "space"}
    BY DEF DbInv, DbType
  <2>2. ToldIn(d.changes, d.changes, d.epoch) /\ Len(d.changes) <= Len(d.changes)
    BY <2>1 DEF ToldIn
  <2>3. KeepRemote(d, op) = Reject(d, op) \/ KeepRemote(d, op) =
          Applied(AppendApplied(d, op, version, op.payload, tombstone), op, version)
    BY DEF KeepRemote
  <2> HIDE DEF version, tombstone
  <2>4. InEpoch(d, Applied(AppendApplied(d, op, version, op.payload, tombstone), op, version))
    BY <2>1, <2>2, AppliedInEpoch
  <2> QED
    BY <2>3, <2>4, RejectInEpoch
<1> QED
  BY <1>1, <1>2

\* One operation of a batch writes in the epoch.
LEMMA ApplyOneInEpoch ==
  ASSUME NEW d, NEW op \in Operation, DbInv(d)
  PROVE  InEpoch(d, ApplyOne(d, op))
<1>1. ASSUME NEW reply, InEpoch(d, reply), DbInv(reply.db), DOMAIN reply = {"db", "result"}
      PROVE  InEpoch(d, Complete(op, reply))
  <2> DEFINE c == op.res.conflict
             w == [reply.db EXCEPT !.conflicts[c] =
                     [@ EXCEPT !.status = StatusOf(op.res.choice), !.resolvedBy = op.id]]
  <2>1. \/ Complete(op, reply) = reply
        \/ Complete(op, reply).db = w /\ Complete(op, reply).result = reply.result
    BY <1>1 DEF Complete
  <2>2. w.changes = reply.db.changes /\ w.epoch = reply.db.epoch
    BY <1>1 DEF DbInv, DbType
  <2> QED
    BY <1>1, <2>1, <2>2 DEF InEpoch
<1>2. CASE op.id \in DOMAIN d.processed
  BY <1>2, RejectInEpoch DEF ApplyOne
<1>3. CASE op.id \notin DOMAIN d.processed
  <2>1. InEpoch(d, Handler(d, op)) /\ InEpoch(d, KeepRemote(d, op))
    BY HandlerInEpoch
  <2>2. InEpoch(d, Reject(d, op)) /\ InEpoch(d, Conflicting(d, op))
    BY RejectInEpoch, ConflictingInEpoch
  <2>3. ASSUME ResolutionValid(d, op)
        PROVE  /\ InEpoch(d, Complete(op, Handler(d, op)))
               /\ InEpoch(d, Complete(op, KeepRemote(d, op)))
    <3>1. op.res.conflict \in DOMAIN d.conflicts
      BY <2>3 DEF ResolutionValid
    <3>2. Handles(d, op.id, Handler(d, op)) /\ Handles(d, op.id, KeepRemote(d, op))
      BY <1>3, <3>1, HandlerKeeps, KeepRemoteKeeps
    <3> QED
      BY <1>1, <2>1, <3>2 DEF Handles, Keeps
  <2> QED
    BY <1>3, <2>1, <2>2, <2>3 DEF ApplyOne
<1> QED
  BY <1>2, <1>3

-----------------------------------------------------------------------------
(* What a batch, a replica and a restore rely on.                          *)

\* Numbers up to n have a greatest one.
LEMMA GreatestNumber ==
  ASSUME NEW n \in Nat, NEW T \in SUBSET (1..n), T # {}
  PROVE  \E x \in T : \A y \in T : y <= x
<1> DEFINE U == {m \in Nat : \A y \in T : y <= m}
<1>1. U \in SUBSET Nat /\ n \in U
  OBVIOUS
<1>2. \E x \in U : \A y \in U : x <= y
  <2> HIDE DEF U
  <2> QED
    BY <1>1, LeastNumber
<1>3. PICK x \in U : \A y \in U : x <= y
  BY <1>2
<1>4. CASE x \in T
  BY <1>3, <1>4
<1>5. CASE x \notin T
  <2>1. PICK t \in T : TRUE
    OBVIOUS
  <2>2. t \in 1..n /\ t <= x /\ x \in Nat
    BY <1>3
  <2>3. x - 1 \in Nat /\ ~(x <= x - 1)
    BY <2>2
  <2>4. \A y \in T : y \in Nat /\ y <= x /\ y # x
    BY <1>3, <1>5
  <2>5. \A y \in T : y <= x - 1
    BY <2>2, <2>4
  <2>6. x - 1 \in U
    BY <2>3, <2>5
  <2> QED
    BY <1>3, <2>3, <2>6
<1> QED
  BY <1>4, <1>5

\* What has been processed stays so while the ledger grows.
LEMMA ProcessedStays ==
  ASSUME NEW d, NEW w, DbInv(d), DbInv(w), Extends(d, w)
  PROVE  DOMAIN d.processed \subseteq DOMAIN w.processed
<1> SUFFICES ASSUME NEW id \in DOMAIN d.processed
             PROVE  id \in DOMAIN w.processed
  OBVIOUS
<1>1. PICK i \in DOMAIN d.changes : d.changes[i].id = id
  BY DEF DbInv, Matched
<1>2. i \in DOMAIN w.changes /\ w.changes[i] = d.changes[i]
  BY <1>1 DEF DbInv, DbType, Extends
<1> QED
  BY <1>1, <1>2 DEF DbInv, Matched

\* An operation answered with success has been processed.
LEMMA SuccessIsProcessed ==
  ASSUME NEW d, NEW id, NEW reply, Keeps(d, id, reply), Succeeded(reply.result)
  PROVE  id \in DOMAIN reply.db.processed
  BY DEF Keeps, Answered, DbInv, Matched

\* The first state of a workspace.
LEMMA EmptyDbInv == DbInv(EmptyDb)
<1>1. DbType(EmptyDb)
  BY DEF EmptyDb, DbType, RowType, Content, Exists
<1> QED
  BY <1>1 DEF DbInv, Matched, Rooted, EmptyDb

\* A page tells changes of entities and ends at a position of the ledger, or
\* where it began.
LEMMA PageTyped ==
  ASSUME NEW d, NEW cursor \in Nat, NEW limit, DbInv(d)
  PROVE  /\ Page(d, cursor, limit).to \in Nat
         /\ Page(d, cursor, limit).changes \in Seq(ChangeType)
         /\ \A i \in DOMAIN Page(d, cursor, limit).changes :
              Page(d, cursor, limit).changes[i].entity \in Entity
<1> DEFINE above == {i \in DOMAIN d.changes : i > cursor /\ d.changes[i].epoch = d.epoch}
           page == FirstOf(above, limit)
           seen == {i \in page : Visible(d, d.changes[i])}
           to == IF page = {} THEN cursor ELSE CHOOSE i \in page : \A j \in page : j <= i
           shown == Those(d.changes, seen)
<1>1. /\ d.changes \in Seq(ChangeType) /\ Len(d.changes) \in Nat
      /\ DOMAIN d.changes = 1..Len(d.changes)
  BY DEF DbInv, DbType
<1>2. page \in SUBSET (1..Len(d.changes)) /\ seen \in SUBSET (DOMAIN d.changes)
  BY <1>1 DEF FirstOf
<1>3. \A i \in seen : d.changes[i].entity \in Entity
  <2>1. \A i \in seen : d.changes[i] \in ChangeType /\ d.changes[i].entity # Space
    BY <1>1, <1>2 DEF Visible
  <2> HIDE DEF seen
  <2> QED
    BY <2>1 DEF ChangeType
<1>4. Page(d, cursor, limit).to = to /\ Page(d, cursor, limit).changes = shown
  BY DEF Page
<1> HIDE DEF page, seen
<1>5. to \in Nat
  <2>1. CASE page = {}
    BY <2>1
  <2>2. CASE page # {}
    <3>1. \E i \in page : \A j \in page : j <= i
      BY <1>1, <1>2, <2>2, GreatestNumber
    <3> DEFINE last == CHOOSE i \in page : \A j \in page : j <= i
    <3>2. last \in page
      BY <3>1
    <3>3. to = last
      BY <2>2
    <3> HIDE DEF last, to
    <3>4. last \in 1..Len(d.changes)
      BY <1>2, <3>2
    <3> QED
      BY <1>1, <3>3, <3>4
  <2> QED
    BY <2>1, <2>2
<1>6. shown \in Seq(ChangeType) /\ \E at : Lists(shown, d.changes, seen, at)
  BY <1>1, <1>2, ThoseListed
<1> HIDE DEF shown
<1>7. PICK at : Lists(shown, d.changes, seen, at)
  BY <1>6
<1>8. \A k \in DOMAIN shown : at[k] \in seen /\ shown[k] = d.changes[at[k]]
  BY <1>7 DEF Lists
<1>9. \A k \in DOMAIN shown : shown[k].entity \in Entity
  BY <1>3, <1>8
<1> HIDE DEF to
<1> QED
  BY <1>4, <1>5, <1>6, <1>9

\* A page ends at its cursor or behind it, and within the ledger if the
\* cursor is.
LEMMA PageGoesOn ==
  ASSUME NEW d, NEW cursor \in Nat, NEW limit, DbInv(d)
  PROVE  /\ cursor <= Page(d, cursor, limit).to
         /\ cursor <= Len(d.changes) => Page(d, cursor, limit).to <= Len(d.changes)
<1> DEFINE above == {i \in DOMAIN d.changes : i > cursor /\ d.changes[i].epoch = d.epoch}
           page == FirstOf(above, limit)
           to == IF page = {} THEN cursor ELSE CHOOSE i \in page : \A j \in page : j <= i
<1>1. Len(d.changes) \in Nat /\ DOMAIN d.changes = 1..Len(d.changes)
  BY DEF DbInv, DbType
<1>2. page \in SUBSET (1..Len(d.changes)) /\ \A i \in page : i > cursor
  BY <1>1 DEF FirstOf
<1>3. Page(d, cursor, limit).to = to
  BY DEF Page
<1> HIDE DEF page
<1>4. CASE page = {}
  BY <1>1, <1>3, <1>4
<1>5. CASE page # {}
  <2>1. \E i \in page : \A j \in page : j <= i
    BY <1>1, <1>2, <1>5, GreatestNumber
  <2> DEFINE last == CHOOSE i \in page : \A j \in page : j <= i
  <2>2. last \in page
    BY <2>1
  <2>3. to = last
    BY <1>5
  <2> HIDE DEF last, to
  <2>4. last \in 1..Len(d.changes) /\ last > cursor
    BY <1>2, <2>2
  <2> QED
    BY <1>1, <1>3, <2>3, <2>4
<1> QED
  BY <1>4, <1>5

\* A snapshot has rows of live entities.
LEMMA SnapshotTyped ==
  ASSUME NEW d, DbInv(d)
  PROVE  /\ Snapshot(d).epoch = d.epoch /\ Snapshot(d).cursor = Len(d.changes)
         /\ Snapshot(d).cursor \in Nat
         /\ DOMAIN Snapshot(d).records \subseteq Entity
         /\ \A e \in DOMAIN Snapshot(d).records : Snapshot(d).records[e] \in RowType
  BY DEF Snapshot, Records, DbInv, DbType

\* A lifecycle change is one change of the space in the epoch.
LEMMA ToggleSpaceTells ==
  ASSUME NEW d, NEW id, NEW device, DbInv(d)
  PROVE  LET w == ToggleSpace(d, id, device)
         IN /\ w.epoch = d.epoch
            /\ Len(w.changes) = Len(d.changes) + 1
            /\ \A i \in 1..Len(d.changes) : w.changes[i] = d.changes[i]
            /\ w.changes[Len(d.changes) + 1].id = id
            /\ w.changes[Len(d.changes) + 1].epoch = d.epoch
<1> DEFINE change == ChangeRow(id, Space, d.space.version + 1, Empty, FALSE, d.epoch)
           w == ToggleSpace(d, id, device)
           T == ChangeType \cup {change}
<1>1. w.epoch = d.epoch /\ w.changes = Append(d.changes, change)
  BY DEF ToggleSpace, AppendApplied, DbInv, DbType
<1>2. change.id = id /\ change.epoch = d.epoch
  BY DEF ChangeRow
<1> HIDE DEF change, w
<1>3. d.changes \in Seq(T) /\ change \in T
  BY DEF DbInv, DbType
<1> HIDE DEF T
<1>4. /\ Len(w.changes) = Len(d.changes) + 1
      /\ \A i \in 1..Len(d.changes) : w.changes[i] = d.changes[i]
      /\ w.changes[Len(d.changes) + 1] = change
  BY <1>1, <1>3
<1> QED
  BY <1>1, <1>2, <1>4 DEF w

\* A restored dump is the dump in a later epoch.
LEMMA RestoredInv ==
  ASSUME NEW d, NEW epoch \in Nat, DbInv(d)
  PROVE  DbInv([d EXCEPT !.epoch = epoch])
<1> DEFINE w == [d EXCEPT !.epoch = epoch]
<1>1. /\ w.epoch = epoch /\ w.changes = d.changes /\ w.processed = d.processed
      /\ w.row = d.row /\ w.conflicts = d.conflicts /\ w.retained = d.retained
      /\ w.space = d.space /\ DOMAIN w = DOMAIN d
  BY DEF DbInv, DbType
<1> HIDE DEF w
<1>2. DbType(w)
  BY <1>1 DEF DbInv, DbType, Exists
<1>3. DbInv(w)
  BY <1>1, <1>2, SameLedger
<1> QED
  BY <1>3 DEF w
=============================================================================
