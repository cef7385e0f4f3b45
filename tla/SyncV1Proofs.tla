---------------------------- MODULE SyncV1Proofs ----------------------------
(***************************************************************************)
(* What the devices may rely on in SyncV1, for every set of devices, tabs, *)
(* entities and operations: the stores are typed and hold each operation   *)
(* once, and a restore of the server neither loses queued work nor has it  *)
(* replayed on top of another history.                                     *)
(*                                                                         *)
(* A lemma per transaction of OutboxDb shows what it leaves of a store, one *)
(* per operator that runs over a list (Push, ApplyPush, ApplyPull) goes     *)
(* through the list, and one per action of SyncV1 keeps the invariant.     *)
(***************************************************************************)
EXTENDS SyncV1, LedgerDbProofs

VisibleRow ==
  [present : BOOLEAN, version : Nat, deleted : BOOLEAN, payload : Content,
   status : {"clean", "pending", "conflict"}]
OutboxState == {"pending", "conflict", "blocked", "isolated"}
StoreState == {"empty", "ready", "upgrade_required", "rebootstrap_required"}
Entry == [op : Operation, state : OutboxState]
LocalConflict ==
  [entity : Entity,
   status : {"open", "resolving", "dismissed", "resolved_local",
             "resolved_remote", "resolved_merge"},
   base : Nat, payload : Content, local : Content, remoteVersion : Nat,
   remotePayload : Content, remoteDeleted : BOOLEAN,
   options : SUBSET ResolutionChoices, source : OpId \cup {None},
   resolution : OpId \cup {None}, requested : ResolutionChoices \cup {None},
   recorded : BOOLEAN]

\* A conflict that counts as recorded has the id the server gave it.
Known(c, conflict) ==
  conflict \in LocalConflict /\ (conflict.recorded => c \in ConflictId)

\* What an outbox holds: operations of its device, one per id.
QueueType(s, d) ==
  /\ s.outbox \in Seq(Entry)
  /\ \A i \in DOMAIN s.outbox : s.outbox[i].op.device = d
  /\ \A i, j \in DOMAIN s.outbox : s.outbox[i].op.id = s.outbox[j].op.id => i = j

StoreType(s, d) ==
  /\ DOMAIN s = {"state", "epoch", "cursor", "entity", "outbox", "conflicts", "manifest"}
  /\ s.state \in StoreState
  /\ s.epoch \in Nat \cup {None}
  /\ s.cursor \in Nat
  /\ s.entity \in [Entity -> VisibleRow]
  /\ QueueType(s, d)
  /\ \A c \in DOMAIN s.conflicts : Known(c, s.conflicts[c])

\* What is queued in w and in s is queued in the same order.
InOrder(s, w) ==
  \A i, k \in DOMAIN w.outbox, j, l \in DOMAIN s.outbox :
    i < k /\ w.outbox[i].op = s.outbox[j].op /\ w.outbox[k].op = s.outbox[l].op => j < l

\* The queue of w is what the queue of s was, but for the operations gone;
\* nothing that had stopped is pending again.
Follows(s, w, gone) ==
  /\ \A i \in DOMAIN w.outbox : \E j \in DOMAIN s.outbox :
       /\ w.outbox[i].op = s.outbox[j].op
       /\ w.outbox[i].state = "pending" => s.outbox[j].state = "pending"
  /\ InOrder(s, w)
  /\ Queued(s) \subseteq Queued(w) \cup gone

\* A transaction of a cycle: the store stays typed, in its epoch and at its
\* cursor, and loses no more than the operations gone.
Leaves(s, w, d, gone) ==
  StoreType(w, d) /\ w.epoch = s.epoch /\ w.cursor = s.cursor /\ Follows(s, w, gone)

-----------------------------------------------------------------------------
(* Steps of the transactions.                                              *)

\* A queue that only changes its states stays in order.
LEMMA SameOrder ==
  ASSUME NEW s, NEW w, NEW d, StoreType(s, d), DOMAIN w.outbox = DOMAIN s.outbox,
         \A i \in DOMAIN s.outbox : w.outbox[i].op = s.outbox[i].op
  PROVE  InOrder(s, w)
<1> SUFFICES ASSUME NEW i \in DOMAIN s.outbox, NEW k \in DOMAIN s.outbox,
                    NEW j \in DOMAIN s.outbox, NEW l \in DOMAIN s.outbox, i < k,
                    w.outbox[i].op = s.outbox[j].op, w.outbox[k].op = s.outbox[l].op
             PROVE  j < l
  BY DEF InOrder
<1>1. i = j /\ k = l
  BY DEF StoreType, QueueType
<1> QED
  BY <1>1

\* A queue that is left alone follows itself.
LEMMA FollowsItself ==
  ASSUME NEW s, NEW d, StoreType(s, d)
  PROVE  Follows(s, s, {})
  BY SameOrder DEF Follows

\* What follows a store that follows another one follows that one.

LEMMA FollowsOn ==
  ASSUME NEW r, NEW s, NEW w, NEW gone, NEW more,
         Follows(r, s, gone), Follows(s, w, more)
  PROVE  Follows(r, w, gone \cup more)
<1>1. ASSUME NEW i \in DOMAIN w.outbox
      PROVE  \E j \in DOMAIN r.outbox :
               /\ w.outbox[i].op = r.outbox[j].op
               /\ w.outbox[i].state = "pending" => r.outbox[j].state = "pending"
  <2>1. PICK k \in DOMAIN s.outbox :
          /\ w.outbox[i].op = s.outbox[k].op
          /\ w.outbox[i].state = "pending" => s.outbox[k].state = "pending"
    BY DEF Follows
  <2>2. PICK j \in DOMAIN r.outbox :
          /\ s.outbox[k].op = r.outbox[j].op
          /\ s.outbox[k].state = "pending" => r.outbox[j].state = "pending"
    BY DEF Follows
  <2> QED
    BY <2>1, <2>2
<1>2. Queued(r) \subseteq Queued(w) \cup (gone \cup more)
  BY DEF Follows
<1>3. ASSUME NEW i \in DOMAIN w.outbox, NEW k \in DOMAIN w.outbox,
             NEW j \in DOMAIN r.outbox, NEW l \in DOMAIN r.outbox, i < k,
             w.outbox[i].op = r.outbox[j].op, w.outbox[k].op = r.outbox[l].op
      PROVE  j < l
  <2>1. PICK m \in DOMAIN s.outbox : w.outbox[i].op = s.outbox[m].op
    BY DEF Follows
  <2>2. PICK n \in DOMAIN s.outbox : w.outbox[k].op = s.outbox[n].op
    BY DEF Follows
  <2>3. m < n
    BY <1>3, <2>1, <2>2 DEF Follows, InOrder
  <2> QED
    BY <1>3, <2>1, <2>2, <2>3 DEF Follows, InOrder
<1> QED
  BY <1>1, <1>2, <1>3 DEF Follows, InOrder

\* A transaction that leaves the outbox alone.
LEMMA QueueUntouched ==
  ASSUME NEW s, NEW w, NEW d, StoreType(s, d), DOMAIN w = DOMAIN s,
         w.outbox = s.outbox, w.epoch = s.epoch, w.cursor = s.cursor,
         w.state \in StoreState, w.entity \in [Entity -> VisibleRow],
         \A c \in DOMAIN w.conflicts : Known(c, w.conflicts[c])
  PROVE  Leaves(s, w, d, {})
<1>1. StoreType(w, d)
  BY DEF StoreType, QueueType
<1>2. Follows(s, w, {})
  BY SameOrder DEF Follows, Queued
<1> QED
  BY <1>1, <1>2 DEF Leaves

LEMMA LeavesOn ==
  ASSUME NEW r, NEW s, NEW w, NEW d, NEW gone, NEW more,
         Leaves(r, s, d, gone), Leaves(s, w, d, more)
  PROVE  Leaves(r, w, d, gone \cup more)
  BY FollowsOn DEF Leaves

\* Operations stop; nothing starts to be pending.
NothingPending(s) == \A i \in DOMAIN s.outbox : s.outbox[i].state # "pending"
LEMMA SetOpsLeaves ==
  ASSUME NEW s, NEW d, NEW ids, NEW state \in OutboxState \ {"pending"}, StoreType(s, d)
  PROVE  /\ Leaves(s, SetOps(s, ids, state), d, {})
         /\ SetOps(s, ids, state).entity = s.entity
         /\ SetOps(s, ids, state).conflicts = s.conflicts
         /\ Queued(s) \subseteq ids => NothingPending(SetOps(s, ids, state))
<1> DEFINE q == s.outbox
           p == [i \in DOMAIN q |-> IF q[i].op.id \in ids THEN [q[i] EXCEPT !.state = state]
                                    ELSE q[i]]
           w == SetOps(s, ids, state)
<1>1. q \in Seq(Entry) /\ Len(q) \in Nat /\ DOMAIN q = 1..Len(q)
  BY DEF StoreType, QueueType
<1>2. \A i \in DOMAIN q : q[i] \in Entry
  BY <1>1
<1>3. \A i \in DOMAIN q : p[i] \in Entry /\ p[i].op = q[i].op
  BY <1>2 DEF Entry
<1>4. \A i \in DOMAIN q : p[i].state = "pending" =>
        q[i].state = "pending" /\ q[i].op.id \notin ids
  BY <1>2 DEF Entry
<1>5. /\ w.outbox = p /\ w.entity = s.entity /\ w.conflicts = s.conflicts
      /\ w.epoch = s.epoch /\ w.cursor = s.cursor /\ w.state = s.state
      /\ DOMAIN w = DOMAIN s
  BY DEF SetOps, StoreType
<1>6. DOMAIN p = DOMAIN q
  OBVIOUS
<1> HIDE DEF p, w
<1>7. p \in Seq(Entry)
  <2>1. p \in [1..Len(q) -> Entry]
    BY <1>1, <1>3, <1>6 DEF p
  <2> QED
    BY <1>1, <2>1
<1>8. QueueType(w, d)
  BY <1>3, <1>5, <1>6, <1>7 DEF QueueType, StoreType
<1>9. StoreType(w, d)
  BY <1>5, <1>8 DEF StoreType
<1>10. Follows(s, w, {})
  <2>1. InOrder(s, w)
    BY <1>3, <1>5, <1>6, SameOrder
  <2> QED
    BY <1>3, <1>4, <1>5, <1>6, <2>1 DEF Follows, Queued
<1>11. Queued(s) \subseteq ids => NothingPending(w)
  BY <1>4, <1>5, <1>6 DEF Queued, NothingPending
<1> QED
  BY <1>5, <1>9, <1>10, <1>11 DEF Leaves, w

\* Operations leave the queue.
LEMMA DropOpsLeaves ==
  ASSUME NEW s, NEW d, NEW ids, StoreType(s, d)
  PROVE  /\ Leaves(s, DropOps(s, ids), d, ids)
         /\ DropOps(s, ids).entity = s.entity
         /\ DropOps(s, ids).conflicts = s.conflicts
<1> DEFINE q == s.outbox
           I == {i \in DOMAIN q : q[i].op.id \notin ids}
           p == Those(q, I)
           w == DropOps(s, ids)
<1>1. q \in Seq(Entry) /\ I \in SUBSET (DOMAIN q)
  BY DEF StoreType, QueueType
<1>2. p \in Seq(Entry) /\ \E at : Lists(p, q, I, at)
  <2> HIDE DEF I
  <2> QED
    BY <1>1, ThoseListed
<1>3. /\ w.outbox = p /\ w.entity = s.entity /\ w.conflicts = s.conflicts
      /\ w.epoch = s.epoch /\ w.cursor = s.cursor /\ w.state = s.state
      /\ DOMAIN w = DOMAIN s
  BY DEF DropOps, StoreType
<1> HIDE DEF p, w
<1>4. PICK at : Lists(p, q, I, at)
  BY <1>2
<1>5. /\ \A k \in DOMAIN p : at[k] \in I /\ p[k] = q[at[k]]
      /\ \A i \in I : \E k \in DOMAIN p : at[k] = i
  BY <1>4 DEF Lists
<1>6. \A k, m \in DOMAIN p : at[k] = at[m] => k = m
  <2>1. \A k, m \in DOMAIN p : k < m => at[k] < at[m]
    BY <1>4 DEF Lists
  <2>2. I \subseteq Nat
    BY <1>1
  <2>3. DOMAIN p \subseteq Nat
    BY <1>2
  <2>4. \A k \in DOMAIN p : at[k] \in Nat
    BY <1>5, <2>2
  <2> HIDE DEF I
  <2> QED
    BY <2>1, <2>3, <2>4
<1>7. \A k \in DOMAIN p : at[k] \in DOMAIN q
  BY <1>5
<1>8. QueueType(w, d)
  <2>1. \A i \in DOMAIN p : p[i].op.device = d
    BY <1>5, <1>7 DEF StoreType, QueueType
  <2>2. \A i, j \in DOMAIN p : p[i].op.id = p[j].op.id => i = j
    BY <1>5, <1>6, <1>7 DEF StoreType, QueueType
  <2> QED
    BY <1>2, <1>3, <2>1, <2>2 DEF QueueType
<1>9. StoreType(w, d)
  BY <1>3, <1>8 DEF StoreType
<1>10. Follows(s, w, ids)
  <2>1. Queued(s) \subseteq Queued(w) \cup ids
    <3> SUFFICES ASSUME NEW i \in DOMAIN q, q[i].op.id \notin ids
                 PROVE  \E k \in DOMAIN p : p[k].op.id = q[i].op.id
      BY <1>3 DEF Queued
    <3> QED
      BY <1>5
  <2>2. \A i \in DOMAIN w.outbox : \E j \in DOMAIN q : w.outbox[i] = q[j]
    BY <1>3, <1>5, <1>7
  <2>3. InOrder(s, w)
    <3> SUFFICES ASSUME NEW i \in DOMAIN p, NEW k \in DOMAIN p, NEW j \in DOMAIN q,
                        NEW l \in DOMAIN q, i < k, p[i].op = q[j].op, p[k].op = q[l].op
                 PROVE  j < l
      BY <1>3 DEF InOrder
    <3>1. at[i] < at[k]
      BY <1>4 DEF Lists
    <3>2. q[at[i]].op = q[j].op /\ q[at[k]].op = q[l].op
          /\ at[i] \in DOMAIN q /\ at[k] \in DOMAIN q
      BY <1>5, <1>7
    <3>3. at[i] = j /\ at[k] = l
      BY <3>2 DEF StoreType, QueueType
    <3> QED
      BY <3>1, <3>3
  <2> QED
    BY <2>1, <2>2, <2>3 DEF Follows
<1> QED
  BY <1>3, <1>9, <1>10 DEF Leaves, w

\* A row of the store gets another status; a conflict gets another one.
LEMMA SetStatusLeaves ==
  ASSUME NEW s, NEW d, NEW e \in Entity, NEW status \in {"clean", "pending", "conflict"},
         StoreType(s, d)
  PROVE  /\ Leaves(s, SetStatus(s, e, status), d, {})
         /\ SetStatus(s, e, status).conflicts = s.conflicts
         /\ SetStatus(s, e, status).outbox = s.outbox
<1> DEFINE w == SetStatus(s, e, status)
<1>1. s.entity[e] \in VisibleRow
  BY DEF StoreType
<1>2. [s.entity[e] EXCEPT !.status = status] \in VisibleRow
  BY <1>1 DEF VisibleRow
<1>3. /\ w.outbox = s.outbox /\ w.conflicts = s.conflicts
      /\ w.epoch = s.epoch /\ w.cursor = s.cursor /\ w.state = s.state
      /\ DOMAIN w = DOMAIN s
      /\ w.entity = [s.entity EXCEPT ![e] = [s.entity[e] EXCEPT !.status = status]]
  BY DEF SetStatus, StoreType
<1> HIDE DEF w
<1>4. w.entity \in [Entity -> VisibleRow]
  BY <1>2, <1>3 DEF StoreType
<1>5. Leaves(s, w, d, {})
  BY <1>3, <1>4, QueueUntouched DEF StoreType
<1> QED
  BY <1>3, <1>5 DEF w

ConflictStatus ==
  {"open", "resolving", "dismissed", "resolved_local", "resolved_remote", "resolved_merge"}

LEMMA SetConflictLeaves ==
  ASSUME NEW s, NEW d, NEW c, NEW status \in ConflictStatus, StoreType(s, d)
  PROVE  Leaves(s, SetConflict(s, c, status), d, {})
<1> DEFINE w == SetConflict(s, c, status)
<1>1. CASE c \notin DOMAIN s.conflicts
  BY <1>1, FollowsItself DEF SetConflict, Leaves
<1>2. CASE c \in DOMAIN s.conflicts
  <2> DEFINE new == [s.conflicts[c] EXCEPT !.status = status]
  <2>1. Known(c, s.conflicts[c])
    BY <1>2 DEF StoreType
  <2>2. Known(c, new)
    BY <2>1 DEF Known, LocalConflict, ConflictStatus
  <2>3. /\ w.outbox = s.outbox /\ w.entity = s.entity
        /\ w.epoch = s.epoch /\ w.cursor = s.cursor /\ w.state = s.state
        /\ DOMAIN w = DOMAIN s
        /\ w.conflicts = [s.conflicts EXCEPT ![c] = new]
    BY <1>2 DEF SetConflict, StoreType
  <2> HIDE DEF w, new
  <2>4. \A x \in DOMAIN w.conflicts : Known(x, w.conflicts[x])
    BY <1>2, <2>2, <2>3 DEF StoreType
  <2>5. Leaves(s, w, d, {})
    BY <2>3, <2>4, QueueUntouched DEF StoreType
  <2> QED
    BY <2>5 DEF w
<1> QED
  BY <1>1, <1>2

\* The conflict table gets one more record.
LEMMA PutConflictLeaves ==
  ASSUME NEW s, NEW d, NEW c, NEW record, StoreType(s, d), Known(c, record)
  PROVE  /\ Leaves(s, [s EXCEPT !.conflicts = Put(@, c, record)], d, {})
         /\ [s EXCEPT !.conflicts = Put(@, c, record)].entity = s.entity
         /\ [s EXCEPT !.conflicts = Put(@, c, record)].outbox = s.outbox
<1> DEFINE w == [s EXCEPT !.conflicts = Put(@, c, record)]
<1>1. /\ w.outbox = s.outbox /\ w.entity = s.entity
      /\ w.epoch = s.epoch /\ w.cursor = s.cursor /\ w.state = s.state
      /\ DOMAIN w = DOMAIN s
      /\ w.conflicts = Put(s.conflicts, c, record)
  BY DEF StoreType
<1> HIDE DEF w
<1>2. /\ DOMAIN w.conflicts = DOMAIN s.conflicts \cup {c}
      /\ w.conflicts[c] = record
      /\ \A x \in DOMAIN s.conflicts : x # c => w.conflicts[x] = s.conflicts[x]
  BY <1>1 DEF Put
<1>3. \A x \in DOMAIN w.conflicts : Known(x, w.conflicts[x])
  BY <1>2 DEF StoreType
<1>4. Leaves(s, w, d, {})
  BY <1>1, <1>3, QueueUntouched DEF StoreType
<1> QED
  BY <1>1, <1>4 DEF w

-----------------------------------------------------------------------------
(* The results of a push.                                                  *)

LEMMA AcknowledgeLeaves ==
  ASSUME NEW s, NEW d, NEW op \in Operation, NEW result,
         StoreType(s, d), result.version \in Nat
  PROVE  Leaves(s, Acknowledge(s, op, result), d, {op.id})
<1> DEFINE rest == DropOps(s, {op.id})
           left == {rest.outbox[i].state : i \in Related(rest, op.entity)}
           status == IF "conflict" \in left THEN "conflict"
                     ELSE IF left # {} THEN "pending" ELSE "clean"
           numbered == [rest EXCEPT !.entity[op.entity].version = result.version,
                                    !.entity[op.entity].status = status]
           moved == IF s.entity[op.entity].present THEN numbered ELSE rest
           resolving == {c \in DOMAIN s.conflicts :
                           /\ s.conflicts[c].status = "resolving"
                           /\ s.conflicts[c].resolution = op.id}
           closing == CHOOSE c \in resolving : TRUE
           after == IF op.res # None
                      THEN SetConflict(moved, op.res.conflict, StatusOf(op.res.choice))
                    ELSE IF resolving # {}
                      THEN SetConflict(moved, closing, StatusOf(s.conflicts[closing].requested))
                    ELSE moved
<1>1. op.entity \in Entity
  BY DEF Operation
<1>16. Acknowledge(s, op, result) = after
  BY DEF Acknowledge
<1>2. Leaves(s, rest, d, {op.id})
  BY DropOpsLeaves
<1>3. StoreType(rest, d)
  BY <1>2 DEF Leaves
<1>4. status \in {"clean", "pending", "conflict"}
  OBVIOUS
<1> HIDE DEF rest, status
<1>5. Leaves(rest, numbered, d, {})
  <2> DEFINE row == [rest.entity[op.entity] EXCEPT !.version = result.version,
                                                   !.status = status]
  <2>1. rest.entity[op.entity] \in VisibleRow
    BY <1>1, <1>3 DEF StoreType
  <2>2. row \in VisibleRow
    BY <1>4, <2>1 DEF VisibleRow
  <2>3. /\ numbered.outbox = rest.outbox /\ numbered.conflicts = rest.conflicts
        /\ numbered.epoch = rest.epoch /\ numbered.cursor = rest.cursor
        /\ numbered.state = rest.state /\ DOMAIN numbered = DOMAIN rest
        /\ numbered.entity = [rest.entity EXCEPT ![op.entity] = row]
    BY <1>1, <1>3 DEF StoreType
  <2> HIDE DEF numbered, row
  <2>4. numbered.entity \in [Entity -> VisibleRow]
    BY <1>3, <2>2, <2>3 DEF StoreType
  <2> QED
    BY <1>3, <2>3, <2>4, QueueUntouched DEF StoreType
<1>6. Leaves(rest, moved, d, {})
  BY <1>3, <1>5, FollowsItself DEF Leaves
<1> HIDE DEF moved
<1>7. StoreType(moved, d)
  BY <1>6 DEF Leaves
<1>8. \A choice : StatusOf(choice) \in ConflictStatus
  BY DEF StatusOf, ConflictStatus
<1>9. \A c, choice : Leaves(moved, SetConflict(moved, c, StatusOf(choice)), d, {})
  BY <1>7, <1>8, SetConflictLeaves
<1>10. Leaves(moved, moved, d, {})
  BY <1>7, FollowsItself DEF Leaves
<1>11. \/ Acknowledge(s, op, result) = moved
       \/ \E c, choice :
            Acknowledge(s, op, result) = SetConflict(moved, c, StatusOf(choice))
  <2> HIDE DEF resolving, closing
  <2> QED
    BY <1>16
<1>12. Leaves(moved, Acknowledge(s, op, result), d, {})
  BY <1>9, <1>10, <1>11
<1>13. Leaves(s, moved, d, {op.id} \cup {})
  BY <1>2, <1>6, LeavesOn
<1>14. Leaves(s, Acknowledge(s, op, result), d, {op.id} \cup {} \cup {})
  BY <1>12, <1>13, LeavesOn
<1>15. {op.id} \cup {} \cup {} = {op.id}
  OBVIOUS
<1> QED
  BY <1>14, <1>15

LEMMA MeetConflictLeaves ==
  ASSUME NEW s, NEW d, NEW op \in Operation, NEW result,
         StoreType(s, d), result.conflict \in ShownConflict
  PROVE  Leaves(s, MeetConflict(s, op, result), d, {})
<1> DEFINE told == result.conflict
           record == [entity |-> op.entity, status |-> "open", base |-> told.base,
                      payload |-> s.entity[op.entity].payload, local |-> told.local,
                      remoteVersion |-> told.remoteVersion,
                      remotePayload |-> told.remotePayload,
                      remoteDeleted |-> told.remoteDeleted, options |-> told.options,
                      source |-> op.id, resolution |-> None, requested |-> None,
                      recorded |-> TRUE]
           kept == [s EXCEPT !.conflicts = Put(@, told.id, record)]
           dropped == IF op.res = None THEN kept
                      ELSE SetConflict(kept, op.res.conflict, "dismissed")
           shown == SetStatus(dropped, op.entity, "conflict")
<1>1. op.entity \in Entity /\ op.id \in OpId
  BY DEF Operation
<1>2. s.entity[op.entity].payload \in Content
  BY <1>1 DEF StoreType, VisibleRow
<1>3. /\ told.id \in ConflictId /\ told.base \in Nat /\ told.local \in Content
      /\ told.remoteVersion \in Nat /\ told.remotePayload \in Content
      /\ told.remoteDeleted \in BOOLEAN /\ told.options \in SUBSET ResolutionChoices
  BY DEF ShownConflict
<1> HIDE DEF told
<1>4. record \in LocalConflict
  BY <1>1, <1>2, <1>3 DEF LocalConflict
<1>5. Known(told.id, record)
  BY <1>3, <1>4 DEF Known
<1>12. MeetConflict(s, op, result) = SetOps(shown, {op.id}, "conflict")
  BY DEF MeetConflict, told
<1> HIDE DEF record
<1>6. Leaves(s, kept, d, {})
  BY <1>5, PutConflictLeaves
<1> HIDE DEF kept
<1>7. StoreType(kept, d)
  BY <1>6 DEF Leaves
<1>8. Leaves(kept, dropped, d, {})
  <2>1. "dismissed" \in ConflictStatus
    BY DEF ConflictStatus
  <2> QED
    BY <1>7, <2>1, FollowsItself, SetConflictLeaves DEF Leaves
<1> HIDE DEF dropped
<1>9. StoreType(dropped, d)
  BY <1>8 DEF Leaves
<1>10. Leaves(dropped, shown, d, {})
  BY <1>1, <1>9, SetStatusLeaves
<1> HIDE DEF shown
<1>11. Leaves(shown, SetOps(shown, {op.id}, "conflict"), d, {})
  <2>1. StoreType(shown, d) /\ "conflict" \in OutboxState \ {"pending"}
    BY <1>10 DEF Leaves, OutboxState
  <2> QED
    BY <2>1, SetOpsLeaves
<1>13. Leaves(s, dropped, d, {} \cup {})
  BY <1>6, <1>8, LeavesOn
<1>14. Leaves(s, shown, d, {} \cup {} \cup {})
  BY <1>10, <1>13, LeavesOn
<1>15. Leaves(s, SetOps(shown, {op.id}, "conflict"), d, {} \cup {} \cup {} \cup {})
  BY <1>11, <1>14, LeavesOn
<1>16. {} \cup {} \cup {} \cup {} = {}
  OBVIOUS
<1> QED
  BY <1>12, <1>15, <1>16

LEMMA RefuseLeaves ==
  ASSUME NEW s, NEW d, NEW op \in Operation, StoreType(s, d)
  PROVE  Leaves(s, Refuse(s, op), d, {})
<1> DEFINE blocked == SetOps(s, {op.id}, "blocked")
           back == [blocked EXCEPT !.entity[op.entity].deleted = FALSE]
<1>1. op.entity \in Entity
  BY DEF Operation
<1>2. Leaves(s, blocked, d, {})
  <2>1. "blocked" \in OutboxState \ {"pending"}
    BY DEF OutboxState
  <2> QED
    BY <2>1, SetOpsLeaves
<1>3. StoreType(blocked, d)
  BY <1>2 DEF Leaves
<1>7. \/ Refuse(s, op) = blocked
      \/ Refuse(s, op) = SetStatus(back, op.entity, "pending")
  BY DEF Refuse
<1> HIDE DEF blocked
<1>4. Leaves(blocked, back, d, {})
  <2> DEFINE row == [blocked.entity[op.entity] EXCEPT !.deleted = FALSE]
  <2>1. blocked.entity[op.entity] \in VisibleRow
    BY <1>1, <1>3 DEF StoreType
  <2>2. row \in VisibleRow
    BY <2>1 DEF VisibleRow
  <2>3. /\ back.outbox = blocked.outbox /\ back.conflicts = blocked.conflicts
        /\ back.epoch = blocked.epoch /\ back.cursor = blocked.cursor
        /\ back.state = blocked.state /\ DOMAIN back = DOMAIN blocked
        /\ back.entity = [blocked.entity EXCEPT ![op.entity] = row]
    BY <1>1, <1>3 DEF StoreType
  <2> HIDE DEF back, row
  <2>4. back.entity \in [Entity -> VisibleRow]
    BY <1>3, <2>2, <2>3 DEF StoreType
  <2> QED
    BY <1>3, <2>3, <2>4, QueueUntouched DEF StoreType
<1> HIDE DEF back
<1>5. StoreType(back, d)
  BY <1>4 DEF Leaves
<1>6. Leaves(back, SetStatus(back, op.entity, "pending"), d, {})
  BY <1>1, <1>5, SetStatusLeaves
<1>8. Leaves(s, back, d, {} \cup {})
  BY <1>2, <1>4, LeavesOn
<1>9. Leaves(s, SetStatus(back, op.entity, "pending"), d, {} \cup {} \cup {})
  BY <1>6, <1>8, LeavesOn
<1>10. {} \cup {} \cup {} = {}
  OBVIOUS
<1> QED
  BY <1>2, <1>7, <1>9, <1>10

LEMMA ApplyResultLeaves ==
  ASSUME NEW s, NEW d, NEW op \in Operation, NEW result \in AnswerType, StoreType(s, d),
         result.status = "conflict" => result.conflict \in ShownConflict
  PROVE  Leaves(s, ApplyResult(s, op, result), d,
                IF Succeeded(result) THEN {op.id} ELSE {})
<1>1. result.version \in Nat
  BY DEF AnswerType
<1> QED
  BY <1>1, AcknowledgeLeaves, MeetConflictLeaves, RefuseLeaves DEF ApplyResult

\* The stores a transaction goes through as it applies the results of a push
\* one after the other.
LEMMA ApplyPushSteps ==
  ASSUME NEW s, NEW ops, NEW results, Len(ops) \in Nat
  PROVE  \E after :
           /\ after[0] = s
           /\ \A k \in 1..Len(ops) :
                after[k] = ApplyResult(after[k - 1], ops[k], results[k])
           /\ ApplyPush(s, ops, results) = [after[Len(ops)] EXCEPT !.state = "ready"]
<1> DEFINE n == Len(ops)
           Upto(m, f) == f = [k \in 0..m |-> IF k = 0 THEN s
                                ELSE ApplyResult(f[k - 1], ops[k], results[k])]
           Q == {m \in 0..n : \E f : Upto(m, f)}
           all == CHOOSE f : Upto(n, f)
<1>1. 0 \in Q
  <2>1. Upto(0, [k \in 0..0 |-> s])
    OBVIOUS
  <2> HIDE DEF Upto
  <2> QED
    BY <2>1
<1>2. ASSUME NEW m \in 0..n, m # n, m \in Q
      PROVE  m + 1 \in Q
  <2>1. PICK f : Upto(m, f)
    BY <1>2
  <2> DEFINE next == ApplyResult(f[m], ops[m + 1], results[m + 1])
             g == [k \in 0..(m + 1) |-> IF k = m + 1 THEN next ELSE f[k]]
  <2>2. m \in Nat /\ m + 1 \in 0..n /\ m + 1 # 0 /\ (m + 1) - 1 = m
    BY <1>2
  <2>3. \A k \in 0..m : f[k] = IF k = 0 THEN s
                               ELSE ApplyResult(f[k - 1], ops[k], results[k])
    BY <2>1
  <2>4. ASSUME NEW k \in 0..(m + 1)
        PROVE  g[k] = IF k = 0 THEN s ELSE ApplyResult(g[k - 1], ops[k], results[k])
    <3>1. CASE k = m + 1
      <4>1. g[k] = next /\ k - 1 = m /\ k # 0 /\ m \in 0..(m + 1) /\ m # m + 1
        BY <2>2, <3>1
      <4>2. g[k - 1] = f[m]
        BY <4>1
      <4> QED
        BY <3>1, <4>1, <4>2
    <3>2. CASE k # m + 1 /\ k # 0
      <4>1. k \in 0..m /\ k - 1 \in 0..(m + 1) /\ k - 1 # m + 1
        BY <2>2, <3>2
      <4>2. g[k] = f[k] /\ g[k - 1] = f[k - 1]
        BY <3>2, <4>1
      <4> QED
        BY <2>3, <3>2, <4>1, <4>2
    <3>3. CASE k = 0
      <4>1. g[k] = f[k] /\ 0 \in 0..m
        BY <2>2, <3>3
      <4> QED
        BY <2>3, <3>3, <4>1
    <3> QED
      BY <3>1, <3>2, <3>3
  <2>5. Upto(m + 1, g)
    <3>1. g = [k \in 0..(m + 1) |-> g[k]]
      OBVIOUS
    <3> HIDE DEF g
    <3> QED
      BY <2>4, <3>1
  <2> HIDE DEF Upto
  <2> QED
    BY <2>2, <2>5
<1>3. n \in Q
  <2> HIDE DEF Q
  <2>1. \A m \in 0..n : m \in Q
    BY <1>1, <1>2, CountingUp
  <2> QED
    BY <2>1
<1>4. Upto(n, all)
  <2> HIDE DEF Upto
  <2> QED
    BY <1>3
<1>5. ApplyPush(s, ops, results) = [all[n] EXCEPT !.state = "ready"]
  BY DEF ApplyPush
<1> HIDE DEF all
<1>6. all[0] = s /\ \A k \in 1..n : all[k] = ApplyResult(all[k - 1], ops[k], results[k])
  BY <1>4
<1> QED
  BY <1>5, <1>6

\* The answers to a batch: one per operation, and a conflict is shown.
AnswersTo(results, ops) ==
  /\ results \in Seq(AnswerType) /\ Len(results) = Len(ops)
  /\ \A i \in DOMAIN ops :
       results[i].status = "conflict" => results[i].conflict \in ShownConflict

\* One transaction takes all answers: what it drops has been answered with
\* success.
LEMMA ApplyPushLeaves ==
  ASSUME NEW s, NEW d, NEW ops \in Seq(Operation), NEW results, StoreType(s, d),
         AnswersTo(results, ops)
  PROVE  Leaves(s, ApplyPush(s, ops, results), d,
                {ops[i].id : i \in {j \in DOMAIN ops : Succeeded(results[j])}})
<1> DEFINE n == Len(ops)
           gone(k) == {ops[i].id : i \in {j \in 1..k : Succeeded(results[j])}}
<1>1. n \in Nat /\ DOMAIN ops = 1..n /\ DOMAIN results = 1..n
  BY DEF AnswersTo
<1>2. PICK after : /\ after[0] = s
                   /\ \A k \in 1..n : after[k] = ApplyResult(after[k - 1], ops[k], results[k])
                   /\ ApplyPush(s, ops, results) = [after[n] EXCEPT !.state = "ready"]
  BY <1>1, ApplyPushSteps
<1> DEFINE Q == {k \in 0..n : Leaves(s, after[k], d, gone(k))}
<1> HIDE DEF n
<1>3. 0 \in Q
  <2>1. Leaves(s, s, d, {})
    BY FollowsItself DEF Leaves
  <2>2. gone(0) = {}
    OBVIOUS
  <2> HIDE DEF gone
  <2>3. after[0] = s
    BY <1>2
  <2>4. Leaves(s, after[0], d, gone(0))
    BY <2>1, <2>2, <2>3
  <2>5. 0 \in 0..n
    BY <1>1
  <2> QED
    BY <2>4, <2>5
<1>4. ASSUME NEW m \in 0..n, m # n, m \in Q
      PROVE  m + 1 \in Q
  <2> DEFINE k == m + 1
             more == IF Succeeded(results[k]) THEN {ops[k].id} ELSE {}
  <2>1. k \in 1..n /\ k - 1 = m /\ k \in 0..n
    <3> HIDE DEF Q
    <3> QED
      BY <1>1, <1>4
  <2>2. ops[k] \in Operation /\ results[k] \in AnswerType
        /\ (results[k].status = "conflict" => results[k].conflict \in ShownConflict)
    BY <1>1, <2>1 DEF AnswersTo
  <2>3. Leaves(s, after[m], d, gone(m))
    BY <1>4
  <2>4. after[k] = ApplyResult(after[m], ops[k], results[k])
    BY <1>2, <2>1
  <2>6. gone(m) \cup more = gone(k)
    <3>1. \A j : j \in 1..k <=> j \in 1..m \/ j = k
      BY <1>1, <2>1
    <3> HIDE DEF k
    <3> QED
      BY <3>1
  <2> HIDE DEF k, gone, more
  <2>5. Leaves(after[m], after[k], d, more)
    <3>1. StoreType(after[m], d)
      BY <2>3 DEF Leaves
    <3> QED
      BY <2>2, <2>4, <3>1, ApplyResultLeaves DEF more
  <2>7. Leaves(s, after[k], d, gone(m) \cup more)
    BY <2>3, <2>5, LeavesOn
  <2>8. k \in Q
    BY <2>1, <2>6, <2>7
  <2> QED
    BY <2>8 DEF k
<1>5. n \in Q
  <2> HIDE DEF Q, gone
  <2>1. \A m \in 0..n : m \in Q
    BY <1>1, <1>3, <1>4, CountingUp
  <2> QED
    BY <1>1, <2>1
<1> DEFINE w == after[n]
           ready == [w EXCEPT !.state = "ready"]
<1>6. Leaves(s, w, d, gone(n))
  BY <1>5
<1>7. StoreType(w, d)
  BY <1>6 DEF Leaves
<1> HIDE DEF w, gone
<1>8. Leaves(w, ready, d, {})
  <2>1. /\ ready.outbox = w.outbox /\ ready.conflicts = w.conflicts
        /\ ready.epoch = w.epoch /\ ready.cursor = w.cursor
        /\ ready.state = "ready" /\ DOMAIN ready = DOMAIN w /\ ready.entity = w.entity
    BY <1>7 DEF StoreType
  <2>2. "ready" \in StoreState
    BY DEF StoreState
  <2> HIDE DEF ready
  <2> QED
    BY <1>7, <2>1, <2>2, QueueUntouched DEF StoreType
<1>9. Leaves(s, ready, d, gone(n) \cup {})
  BY <1>6, <1>8, LeavesOn
<1>10. gone(n) \cup {} = {ops[i].id : i \in {j \in DOMAIN ops : Succeeded(results[j])}}
  BY <1>1 DEF gone
<1> QED
  BY <1>2, <1>9, <1>10 DEF w

-----------------------------------------------------------------------------
(* A pulled page.                                                          *)

\* A change as a page tells it.
ToldChange == {c \in ChangeType : c.entity \in Entity}

LEMMA FollowRemoteLeaves ==
  ASSUME NEW s, NEW d, NEW change \in ToldChange, StoreType(s, d)
  PROVE  Leaves(s, FollowRemote(s, change), d, {})
<1> DEFINE w == FollowRemote(s, change)
<1>1. change.version \in Nat /\ change.payload \in Content /\ change.tombstone \in BOOLEAN
  BY DEF ToldChange, ChangeType
<1>2. /\ w.outbox = s.outbox /\ w.entity = s.entity
      /\ w.epoch = s.epoch /\ w.cursor = s.cursor /\ w.state = s.state
      /\ DOMAIN w = DOMAIN s
      /\ w.conflicts = [c \in DOMAIN s.conflicts |-> Followed(s.conflicts[c], change)]
  BY DEF FollowRemote, StoreType
<1>3. ASSUME NEW c \in DOMAIN s.conflicts
      PROVE  Known(c, Followed(s.conflicts[c], change))
  <2>1. Known(c, s.conflicts[c])
    BY DEF StoreType
  <2> DEFINE conflict == s.conflicts[c]
             options == IF change.tombstone THEN {"keep_remote", "dismiss"}
                        ELSE conflict.options
             moved == [conflict EXCEPT !.remoteVersion = change.version,
                                       !.remotePayload = change.payload,
                                       !.remoteDeleted = change.tombstone,
                                       !.options = options, !.recorded = FALSE]
  <2> HIDE DEF conflict
  <2>2. Followed(conflict, change) \in {moved, conflict}
    BY DEF Followed
  <2>3. Known(c, conflict)
    BY <2>1 DEF conflict
  <2>4. options \in SUBSET ResolutionChoices
    BY <2>3 DEF Known, LocalConflict, ResolutionChoices
  <2> HIDE DEF options
  <2>5. moved \in LocalConflict /\ moved.recorded = FALSE
    BY <1>1, <2>3, <2>4 DEF Known, LocalConflict
  <2> HIDE DEF moved
  <2>6. Known(c, moved)
    BY <2>5 DEF Known
  <2>7. Known(c, Followed(conflict, change))
    BY <2>2, <2>3, <2>6
  <2> QED
    BY <2>7 DEF conflict
<1> HIDE DEF w
<1>4. \A c \in DOMAIN w.conflicts : Known(c, w.conflicts[c])
  BY <1>2, <1>3
<1>5. Leaves(s, w, d, {})
  BY <1>2, <1>4, QueueUntouched DEF StoreType
<1> QED
  BY <1>5 DEF w

LEMMA StopPendingLeaves ==
  ASSUME NEW s, NEW d, NEW change \in ToldChange, StoreType(s, d)
  PROVE  Leaves(s, StopPending(s, change), d, {})
<1> DEFINE e == change.entity
           related == Related(s, e)
           last == CHOOSE i \in related : \A j \in related : j <= i
           source == IF related = {} THEN None ELSE s.outbox[last].op.id
           record == [entity |-> e, status |-> "open", base |-> s.entity[e].version,
                      payload |-> s.entity[e].payload, local |-> s.entity[e].payload,
                      remoteVersion |-> change.version, remotePayload |-> change.payload,
                      remoteDeleted |-> change.tombstone, options |-> PullOptions(s, change),
                      source |-> source,
                      resolution |-> None, requested |-> None, recorded |-> FALSE]
           kept == [s EXCEPT !.conflicts = Put(@, PullConflictId(change), record)]
           shown == SetStatus(kept, e, "conflict")
           ids == {s.outbox[i].op.id : i \in related}
<1>1. /\ e \in Entity /\ change.version \in Nat /\ change.payload \in Content
      /\ change.tombstone \in BOOLEAN
  BY DEF ToldChange, ChangeType
<1>2. s.entity[e] \in VisibleRow
  BY <1>1 DEF StoreType
<1>3. s.entity[e].payload \in Content /\ s.entity[e].version \in Nat
  BY <1>2 DEF VisibleRow
<1>4. PullOptions(s, change) \in SUBSET ResolutionChoices
  BY DEF PullOptions, ResolutionChoices
<1>5. source \in OpId \cup {None}
  <2>1. CASE related = {}
    BY <2>1
  <2>2. CASE related # {}
    <3>1. /\ s.outbox \in Seq(Entry) /\ Len(s.outbox) \in Nat
          /\ DOMAIN s.outbox = 1..Len(s.outbox)
      BY DEF StoreType, QueueType
    <3>2. related \in SUBSET (1..Len(s.outbox))
      BY <3>1 DEF Related
    <3> HIDE DEF related
    <3>3. \E i \in related : \A j \in related : j <= i
      BY <2>2, <3>1, <3>2, GreatestNumber
    <3>4. last \in related
      BY <3>3
    <3> HIDE DEF last
    <3>5. s.outbox[last] \in Entry
      BY <3>1, <3>2, <3>4
    <3>6. s.outbox[last].op.id \in OpId
      BY <3>5 DEF Entry, Operation
    <3> QED
      BY <2>2, <3>6
  <2> QED
    BY <2>1, <2>2
<1>6. StopPending(s, change) = SetOps(shown, ids, "conflict")
  BY DEF StopPending
<1> HIDE DEF source, related
<1>7. record \in LocalConflict /\ record.recorded = FALSE
  BY <1>1, <1>3, <1>4, <1>5 DEF LocalConflict
<1>8. Known(PullConflictId(change), record)
  BY <1>7 DEF Known
<1> HIDE DEF record, ids
<1>9. Leaves(s, kept, d, {})
  BY <1>8, PutConflictLeaves
<1> HIDE DEF kept
<1>10. StoreType(kept, d)
  BY <1>9 DEF Leaves
<1>11. Leaves(kept, shown, d, {})
  BY <1>1, <1>10, SetStatusLeaves
<1> HIDE DEF shown
<1>12. StoreType(shown, d) /\ "conflict" \in OutboxState \ {"pending"}
  BY <1>11 DEF Leaves, OutboxState
<1>13. Leaves(shown, SetOps(shown, ids, "conflict"), d, {})
  BY <1>12, SetOpsLeaves
<1>14. Leaves(s, shown, d, {} \cup {})
  BY <1>9, <1>11, LeavesOn
<1>15. Leaves(s, SetOps(shown, ids, "conflict"), d, {} \cup {} \cup {})
  BY <1>13, <1>14, LeavesOn
<1>16. {} \cup {} \cup {} = {}
  OBVIOUS
<1> QED
  BY <1>6, <1>15, <1>16

LEMMA ApplyChangeLeaves ==
  ASSUME NEW s, NEW d, NEW change \in ToldChange, StoreType(s, d)
  PROVE  Leaves(s, ApplyChange(s, change), d, {})
<1> DEFINE row == [present |-> TRUE, version |-> change.version,
                   deleted |-> change.tombstone, payload |-> change.payload,
                   status |-> "clean"]
           w == [s EXCEPT !.entity[change.entity] = row]
<1>1. /\ change.entity \in Entity /\ change.version \in Nat
      /\ change.payload \in Content /\ change.tombstone \in BOOLEAN
  BY DEF ToldChange, ChangeType
<1>2. row \in VisibleRow
  BY <1>1 DEF VisibleRow
<1>3. ApplyChange(s, change) \in {FollowRemote(s, change), StopPending(s, change), w}
  BY DEF ApplyChange
<1> HIDE DEF row
<1>4. /\ w.outbox = s.outbox /\ w.conflicts = s.conflicts
      /\ w.epoch = s.epoch /\ w.cursor = s.cursor
      /\ w.state = s.state /\ DOMAIN w = DOMAIN s
      /\ w.entity = [s.entity EXCEPT ![change.entity] = row]
  BY <1>1 DEF StoreType
<1> HIDE DEF w
<1>5. w.entity \in [Entity -> VisibleRow]
  BY <1>2, <1>4 DEF StoreType
<1>6. Leaves(s, w, d, {})
  BY <1>4, <1>5, QueueUntouched DEF StoreType
<1> QED
  BY <1>3, <1>6, FollowRemoteLeaves, StopPendingLeaves

\* The stores a transaction goes through as it applies the changes of a page.
Advanced(s, page) == [s EXCEPT !.cursor = page.to, !.state = "ready"]
LEMMA ApplyPullSteps ==
  ASSUME NEW s, NEW page, Len(page.changes) \in Nat
  PROVE  \E after :
           /\ after[0] = s
           /\ \A k \in 1..Len(page.changes) :
                after[k] = ApplyChange(after[k - 1], page.changes[k])
           /\ ApplyPull(s, page) = Advanced(after[Len(page.changes)], page)
<1> DEFINE n == Len(page.changes)
           Upto(m, f) == f = [k \in 0..m |-> IF k = 0 THEN s
                                ELSE ApplyChange(f[k - 1], page.changes[k])]
           Q == {m \in 0..n : \E f : Upto(m, f)}
           all == CHOOSE f : Upto(n, f)
<1>1. 0 \in Q
  <2>1. Upto(0, [k \in 0..0 |-> s])
    OBVIOUS
  <2> HIDE DEF Upto
  <2> QED
    BY <2>1
<1>2. ASSUME NEW m \in 0..n, m # n, m \in Q
      PROVE  m + 1 \in Q
  <2>1. PICK f : Upto(m, f)
    BY <1>2
  <2> DEFINE next == ApplyChange(f[m], page.changes[m + 1])
             g == [k \in 0..(m + 1) |-> IF k = m + 1 THEN next ELSE f[k]]
  <2>2. m \in Nat /\ m + 1 \in 0..n /\ m + 1 # 0 /\ (m + 1) - 1 = m
    BY <1>2
  <2>3. \A k \in 0..m : f[k] = IF k = 0 THEN s
                               ELSE ApplyChange(f[k - 1], page.changes[k])
    BY <2>1
  <2>4. ASSUME NEW k \in 0..(m + 1)
        PROVE  g[k] = IF k = 0 THEN s ELSE ApplyChange(g[k - 1], page.changes[k])
    <3>1. CASE k = m + 1
      <4>1. g[k] = next /\ k - 1 = m /\ k # 0 /\ m \in 0..(m + 1) /\ m # m + 1
        BY <2>2, <3>1
      <4>2. g[k - 1] = f[m]
        BY <4>1
      <4> QED
        BY <3>1, <4>1, <4>2
    <3>2. CASE k # m + 1 /\ k # 0
      <4>1. k \in 0..m /\ k - 1 \in 0..(m + 1) /\ k - 1 # m + 1
        BY <2>2, <3>2
      <4>2. g[k] = f[k] /\ g[k - 1] = f[k - 1]
        BY <3>2, <4>1
      <4> QED
        BY <2>3, <3>2, <4>1, <4>2
    <3>3. CASE k = 0
      <4>1. g[k] = f[k] /\ 0 \in 0..m
        BY <2>2, <3>3
      <4> QED
        BY <2>3, <3>3, <4>1
    <3> QED
      BY <3>1, <3>2, <3>3
  <2>5. Upto(m + 1, g)
    <3>1. g = [k \in 0..(m + 1) |-> g[k]]
      OBVIOUS
    <3> HIDE DEF g
    <3> QED
      BY <2>4, <3>1
  <2> HIDE DEF Upto
  <2> QED
    BY <2>2, <2>5
<1>3. n \in Q
  <2> HIDE DEF Q
  <2>1. \A m \in 0..n : m \in Q
    BY <1>1, <1>2, CountingUp
  <2> QED
    BY <2>1
<1>4. Upto(n, all)
  <2> HIDE DEF Upto
  <2> QED
    BY <1>3
<1>5. ApplyPull(s, page) = Advanced(all[n], page)
  BY DEF ApplyPull, Advanced
<1> HIDE DEF all
<1>6. all[0] = s /\ \A k \in 1..n : all[k] = ApplyChange(all[k - 1], page.changes[k])
  BY <1>4
<1> QED
  BY <1>5, <1>6

\* A pulled page drops nothing, and moves the cursor to its end.
LEMMA ApplyPullLeaves ==
  ASSUME NEW s, NEW d, NEW page, page.changes \in Seq(ToldChange), page.to \in Nat,
         StoreType(s, d)
  PROVE  /\ StoreType(ApplyPull(s, page), d)
         /\ ApplyPull(s, page).epoch = s.epoch /\ ApplyPull(s, page).cursor = page.to
         /\ Follows(s, ApplyPull(s, page), {})
<1> DEFINE n == Len(page.changes)
<1>1. n \in Nat /\ \A k \in 1..n : page.changes[k] \in ToldChange
  OBVIOUS
<1>2. PICK after : /\ after[0] = s
                   /\ \A k \in 1..n : after[k] = ApplyChange(after[k - 1], page.changes[k])
                   /\ ApplyPull(s, page) = Advanced(after[n], page)
  BY <1>1, ApplyPullSteps
<1> DEFINE Q == {k \in 0..n : Leaves(s, after[k], d, {})}
<1> HIDE DEF n
<1>3. 0 \in Q
  <2>1. Leaves(s, s, d, {})
    BY FollowsItself DEF Leaves
  <2>2. after[0] = s
    BY <1>2
  <2>3. 0 \in 0..n
    BY <1>1
  <2> QED
    BY <2>1, <2>2, <2>3
<1>4. ASSUME NEW m \in 0..n, m # n, m \in Q
      PROVE  m + 1 \in Q
  <2>1. m + 1 \in 1..n /\ (m + 1) - 1 = m /\ m + 1 \in 0..n
    <3> HIDE DEF Q
    <3> QED
      BY <1>1, <1>4
  <2>2. Leaves(s, after[m], d, {})
    BY <1>4
  <2>3. after[m + 1] = ApplyChange(after[m], page.changes[m + 1])
    BY <1>2, <2>1
  <2>4. Leaves(after[m], after[m + 1], d, {})
    <3>1. StoreType(after[m], d)
      BY <2>2 DEF Leaves
    <3> QED
      BY <1>1, <2>1, <2>3, <3>1, ApplyChangeLeaves
  <2>5. Leaves(s, after[m + 1], d, {} \cup {})
    BY <2>2, <2>4, LeavesOn
  <2>6. {} \cup {} = {}
    OBVIOUS
  <2> QED
    BY <2>1, <2>5, <2>6
<1>5. n \in Q
  <2> HIDE DEF Q
  <2>1. \A m \in 0..n : m \in Q
    BY <1>1, <1>3, <1>4, CountingUp
  <2> QED
    BY <1>1, <2>1
<1> DEFINE w == after[n]
           ready == Advanced(w, page)
<1>6. Leaves(s, w, d, {})
  BY <1>5
<1>7. StoreType(w, d)
  BY <1>6 DEF Leaves
<1> HIDE DEF w
<1>8. /\ StoreType(ready, d) /\ ready.epoch = s.epoch /\ ready.cursor = page.to
      /\ Follows(w, ready, {})
  <2>1. /\ ready.outbox = w.outbox /\ ready.conflicts = w.conflicts
        /\ ready.epoch = w.epoch /\ ready.cursor = page.to
        /\ ready.state = "ready" /\ DOMAIN ready = DOMAIN w /\ ready.entity = w.entity
    BY <1>7 DEF StoreType, Advanced
  <2>2. "ready" \in StoreState
    BY DEF StoreState
  <2> HIDE DEF ready
  <2>3. StoreType(ready, d)
    BY <1>7, <2>1, <2>2 DEF StoreType, QueueType
  <2>4. InOrder(w, ready)
    BY <1>7, <2>1, SameOrder
  <2> QED
    BY <1>6, <2>1, <2>3, <2>4 DEF Follows, Queued, Leaves
<1>9. Follows(s, ready, {} \cup {})
  BY <1>6, <1>8, FollowsOn DEF Leaves
<1>10. {} \cup {} = {}
  OBVIOUS
<1> QED
  BY <1>2, <1>8, <1>9, <1>10 DEF w

-----------------------------------------------------------------------------
(* A bootstrap.                                                            *)

\* A snapshot as a device is given it.
ToldSnapshot(snapshot) ==
  /\ snapshot.epoch \in Nat /\ snapshot.cursor \in Nat
  /\ \A e \in DOMAIN snapshot.records : snapshot.records[e] \in RowType

\* A bootstrap keeps the queue; in another epoch nothing of it is pending.
LEMMA ActivateKeeps ==
  ASSUME NEW s, NEW d, NEW snapshot, StoreType(s, d), ToldSnapshot(snapshot)
  PROVE  LET w == Activate(s, snapshot)
         IN /\ StoreType(w, d) /\ Follows(s, w, {}) /\ w.conflicts = s.conflicts
            /\ w = s \/ (w.epoch = snapshot.epoch /\ w.cursor = snapshot.cursor)
            /\ \/ w.epoch = s.epoch \/ s.epoch = None
               \/ NothingPending(w)
<1>1. CASE s.manifest = snapshot
  BY <1>1, FollowsItself DEF Activate
<1>2. CASE s.manifest # snapshot
  <2> DEFINE changed == s.epoch # None /\ s.epoch # snapshot.epoch
             kept == IF changed THEN {} ELSE {e \in Entity : s.entity[e].status # "clean"}
             stopped == SetOps(s, Queued(s), "isolated")
             isolated == IF changed THEN stopped ELSE s
             rows == [e \in Entity |->
                        IF e \in kept THEN s.entity[e]
                        ELSE IF e \in DOMAIN snapshot.records
                          THEN LocalEntity(snapshot.records[e])
                        ELSE Absent]
             w == Activate(s, snapshot)
  <2>1. w = [isolated EXCEPT !.entity = rows, !.epoch = snapshot.epoch,
                             !.cursor = snapshot.cursor, !.state = "ready",
                             !.manifest = snapshot]
    BY <1>2 DEF Activate, ActivateNew
  <2>2. rows \in [Entity -> VisibleRow]
    <3>1. \A e \in DOMAIN snapshot.records : LocalEntity(snapshot.records[e]) \in VisibleRow
      BY DEF ToldSnapshot, RowType, LocalEntity, VisibleRow
    <3>2. Absent \in VisibleRow
      BY DEF Absent, VisibleRow, Content
    <3> HIDE DEF kept
    <3> QED
      BY <3>1, <3>2 DEF StoreType
  <2> HIDE DEF rows, kept
  <2>3. "isolated" \in OutboxState \ {"pending"} /\ "ready" \in StoreState
    BY DEF OutboxState, StoreState
  <2>4. /\ Leaves(s, stopped, d, {}) /\ stopped.conflicts = s.conflicts
        /\ NothingPending(stopped)
    <3> DEFINE ids == Queued(s)
    <3>1. ids \subseteq ids
      OBVIOUS
    <3> HIDE DEF ids
    <3>2. /\ Leaves(s, SetOps(s, ids, "isolated"), d, {})
          /\ SetOps(s, ids, "isolated").conflicts = s.conflicts
          /\ Queued(s) \subseteq ids => NothingPending(SetOps(s, ids, "isolated"))
      BY <2>3, SetOpsLeaves
    <3> QED
      BY <3>1, <3>2 DEF ids
  <2> HIDE DEF stopped
  <2>5. /\ Leaves(s, isolated, d, {}) /\ isolated.conflicts = s.conflicts
        /\ changed => NothingPending(isolated)
    <3>1. Leaves(s, s, d, {})
      BY FollowsItself DEF Leaves
    <3> QED
      BY <2>4, <3>1
  <2>10. changed \/ s.epoch = None \/ s.epoch = snapshot.epoch
    OBVIOUS
  <2> HIDE DEF isolated, w, changed
  <2>6. StoreType(isolated, d)
    BY <2>5 DEF Leaves
  <2>7. /\ w.outbox = isolated.outbox /\ w.conflicts = isolated.conflicts
        /\ w.epoch = snapshot.epoch /\ w.cursor = snapshot.cursor /\ w.state = "ready"
        /\ w.entity = rows /\ DOMAIN w = DOMAIN isolated
    BY <2>1, <2>6 DEF StoreType
  <2>8. StoreType(w, d)
    BY <2>2, <2>3, <2>6, <2>7 DEF StoreType, QueueType, ToldSnapshot
  <2>9. Follows(s, w, {})
    <3>1. Follows(s, isolated, {})
      BY <2>5 DEF Leaves
    <3>2. w.outbox = isolated.outbox /\ Queued(w) = Queued(isolated)
      BY <2>7 DEF Queued
    <3> QED
      BY <3>1, <3>2 DEF Follows, InOrder
  <2> QED
    BY <2>5, <2>7, <2>8, <2>9, <2>10 DEF w, NothingPending
<1> QED
  BY <1>1, <1>2

-----------------------------------------------------------------------------
(* What users do to a store.                                               *)

\* The queue of w is that of s, but for the operations gone, and op behind it.
Queues(s, w, d, gone, op) ==
  /\ StoreType(w, d) /\ w.epoch = s.epoch /\ w.cursor = s.cursor
  /\ InOrder(s, w)
  /\ \A i, k \in DOMAIN w.outbox : w.outbox[i].op = op => k <= i
  /\ \A i \in DOMAIN w.outbox :
       \/ w.outbox[i].op = op
       \/ \E j \in DOMAIN s.outbox :
            /\ w.outbox[i].op = s.outbox[j].op
            /\ w.outbox[i].state = "pending" => s.outbox[j].state = "pending"
  /\ Queued(s) \cup {op.id} \subseteq Queued(w) \cup gone

LEMMA QueueGrows ==
  ASSUME NEW s, NEW w, NEW d, NEW op \in Operation, StoreType(s, d),
         op.device = d, op.id \notin Queued(s), DOMAIN w = DOMAIN s,
         w.outbox = Append(s.outbox, [op |-> op, state |-> "pending"]),
         w.epoch = s.epoch, w.cursor = s.cursor,
         w.state \in StoreState, w.entity \in [Entity -> VisibleRow],
         \A c \in DOMAIN w.conflicts : Known(c, w.conflicts[c])
  PROVE  Queues(s, w, d, {}, op)
<1> DEFINE q == s.outbox
           entry == [op |-> op, state |-> "pending"]
           n == Len(q)
<1>1. q \in Seq(Entry) /\ n \in Nat /\ DOMAIN q = 1..n
  BY DEF StoreType, QueueType
<1>2. entry \in Entry /\ entry.op = op
  BY DEF Entry, OutboxState
<1> HIDE DEF entry
<1>3. /\ w.outbox \in Seq(Entry) /\ DOMAIN w.outbox = 1..(n + 1)
      /\ \A i \in 1..n : w.outbox[i] = q[i]
      /\ w.outbox[n + 1] = entry
  BY <1>1, <1>2 DEF entry
<1>4. \A i \in DOMAIN w.outbox : i = n + 1 \/ i \in DOMAIN q
  BY <1>1, <1>3
<1>5. \A i \in DOMAIN q : q[i].op.id # op.id
  BY DEF Queued
<1>6. n + 1 \in DOMAIN w.outbox /\ \A i \in DOMAIN q : i \in DOMAIN w.outbox /\ w.outbox[i] = q[i]
  BY <1>1, <1>3
<1> HIDE DEF n, q
<1>7. QueueType(w, d)
  <2>1. \A i \in DOMAIN q : q[i].op.device = d
    BY DEF StoreType, QueueType, q
  <2>2. \A i, j \in DOMAIN q : q[i].op.id = q[j].op.id => i = j
    BY DEF StoreType, QueueType, q
  <2>3. \A i \in DOMAIN w.outbox : w.outbox[i].op.device = d
    BY <1>2, <1>3, <1>4, <1>6, <2>1
  <2>4. ASSUME NEW i \in DOMAIN w.outbox, NEW j \in DOMAIN w.outbox,
               w.outbox[i].op.id = w.outbox[j].op.id
        PROVE  i = j
    BY <1>2, <1>3, <1>4, <1>5, <1>6, <2>2, <2>4
  <2> QED
    BY <1>3, <2>3, <2>4 DEF QueueType
<1>8. StoreType(w, d)
  BY <1>7 DEF StoreType
<1>9. Queued(s) \cup {op.id} \subseteq Queued(w)
  <2>1. \A i \in DOMAIN q : q[i].op.id \in Queued(w)
    BY <1>6 DEF Queued
  <2>2. op.id \in Queued(w)
    BY <1>2, <1>3, <1>6 DEF Queued
  <2> QED
    BY <2>1, <2>2 DEF Queued, q
<1>10. \A i \in DOMAIN w.outbox : w.outbox[i].op = op \/ \E j \in DOMAIN q : w.outbox[i] = q[j]
  BY <1>2, <1>3, <1>4, <1>6
<1>11. \A i, k \in DOMAIN w.outbox : w.outbox[i].op = op => k <= i
  <2>1. \A i \in DOMAIN q : w.outbox[i].op # op
    BY <1>5, <1>6
  <2>2. n \in Nat /\ DOMAIN w.outbox = 1..(n + 1)
    BY <1>1, <1>3 DEF n, q
  <2>3. \A i \in DOMAIN w.outbox : w.outbox[i].op = op => i = n + 1
    BY <1>4, <2>1
  <2> QED
    BY <2>2, <2>3
<1>12. InOrder(s, w)
  <2> SUFFICES ASSUME NEW i \in DOMAIN w.outbox, NEW k \in DOMAIN w.outbox,
                      NEW j \in DOMAIN q, NEW l \in DOMAIN q, i < k,
                      w.outbox[i].op = q[j].op, w.outbox[k].op = q[l].op
               PROVE  j < l
    BY DEF InOrder, q
  <2>1. w.outbox[i].op # op /\ w.outbox[k].op # op
    BY <1>5
  <2>2. i \in DOMAIN q /\ k \in DOMAIN q
    BY <1>2, <1>3, <1>4, <2>1
  <2>3. i = j /\ k = l
    BY <1>6, <2>2 DEF StoreType, QueueType, q
  <2> QED
    BY <2>3
<1> QED
  BY <1>8, <1>9, <1>10, <1>11, <1>12 DEF Queues, q

\* The mutation an edit makes is an operation of its device, and depends on
\* no operation but queued ones.
LEMMA MutationTyped ==
  ASSUME NEW s, NEW d \in Device, NEW id \in OpId, NEW type \in Edits, NEW e \in Entity,
         StoreType(s, d)
  PROVE  /\ Mutation(s, d, id, type, e) \in Operation
         /\ Mutation(s, d, id, type, e).deps \subseteq Queued(s)
<1> DEFINE related == Related(s, e)
           last == CHOOSE i \in related : \A j \in related : j <= i
           deps == IF related = {} THEN {} ELSE {s.outbox[last].op.id}
<1>1. s.entity[e] \in VisibleRow
  BY DEF StoreType
<1>2. s.entity[e].version \in Nat
  BY <1>1 DEF VisibleRow
<1>3. deps \in SUBSET OpId /\ deps \subseteq Queued(s)
  <2>1. CASE related = {}
    BY <2>1
  <2>2. CASE related # {}
    <3>1. /\ s.outbox \in Seq(Entry) /\ Len(s.outbox) \in Nat
          /\ DOMAIN s.outbox = 1..Len(s.outbox)
      BY DEF StoreType, QueueType
    <3>2. related \in SUBSET (1..Len(s.outbox))
      BY <3>1 DEF Related
    <3> HIDE DEF related
    <3>3. \E i \in related : \A j \in related : j <= i
      BY <2>2, <3>1, <3>2, GreatestNumber
    <3>4. last \in related
      BY <3>3
    <3> HIDE DEF last
    <3>5. s.outbox[last] \in Entry
      BY <3>1, <3>2, <3>4
    <3>6. s.outbox[last].op.id \in OpId
      BY <3>5 DEF Entry, Operation
    <3>7. s.outbox[last].op.id \in Queued(s)
      BY <3>1, <3>2, <3>4 DEF Queued
    <3> QED
      BY <2>2, <3>6, <3>7
  <2> QED
    BY <2>1, <2>2
<1>4. type \in {"create", "update", "delete"} /\ id \in Payload
  BY SyncAssumption
<1>5. Mutation(s, d, id, type, e) =
        [id |-> id, device |-> d, entity |-> e, type |-> type,
         base |-> s.entity[e].version, deps |-> deps,
         payload |-> IF type = "delete" THEN Empty ELSE id, res |-> None]
  BY DEF Mutation
<1> HIDE DEF deps
<1> QED
  BY <1>2, <1>3, <1>4, <1>5 DEF Operation, Content

\* An edit is shown and queued in one transaction.
LEMMA CommitQueues ==
  ASSUME NEW s, NEW d, NEW op \in Operation, StoreType(s, d),
         op.device = d, op.id \notin Queued(s)
  PROVE  Queues(s, Commit(s, op), d, {}, op)
<1> DEFINE w == Commit(s, op)
           row == [present |-> TRUE, version |-> op.base, deleted |-> op.type = "delete",
                   payload |-> IF op.type = "delete" THEN s.entity[op.entity].payload
                               ELSE op.payload,
                   status |-> "pending"]
<1>1. op.entity \in Entity /\ op.base \in Nat /\ op.payload \in Content
  BY DEF Operation
<1>2. s.entity[op.entity] \in VisibleRow
  BY <1>1 DEF StoreType
<1>3. row \in VisibleRow
  BY <1>1, <1>2 DEF VisibleRow
<1>4. /\ w.outbox = Append(s.outbox, [op |-> op, state |-> "pending"])
      /\ w.conflicts = s.conflicts
      /\ w.epoch = s.epoch /\ w.cursor = s.cursor
      /\ w.state = s.state /\ DOMAIN w = DOMAIN s
      /\ w.entity = [s.entity EXCEPT ![op.entity] = row]
  BY <1>1 DEF Commit, StoreType
<1> HIDE DEF w, row
<1>5. w.entity \in [Entity -> VisibleRow]
  BY <1>3, <1>4 DEF StoreType
<1>6. Queues(s, w, d, {}, op)
  BY <1>4, <1>5, QueueGrows DEF StoreType
<1> QED
  BY <1>6 DEF w

\* The operation of a resolution.
LEMMA ResolutionTyped ==
  ASSUME NEW d \in Device, NEW id \in OpId, NEW c, NEW conflict, Known(c, conflict),
         NEW choice \in ResolutionChoices
  PROVE  /\ ResolutionOp(d, id, c, conflict, choice) \in Operation
         /\ Chosen(conflict, choice, id) \in Content
<1> DEFINE deletes == choice = "keep_remote" /\ conflict.remoteDeleted
           res == IF conflict.recorded
                    THEN [conflict |-> c, choice |-> choice,
                          expected |-> conflict.remoteVersion]
                    ELSE None
           payload == IF deletes THEN Empty ELSE Chosen(conflict, choice, id)
           type == IF deletes THEN "delete" ELSE "update"
<1>1. /\ conflict.entity \in Entity /\ conflict.remoteVersion \in Nat
      /\ conflict.payload \in Content /\ conflict.remotePayload \in Content
      /\ conflict.recorded \in BOOLEAN
  BY DEF Known, LocalConflict
<1>2. Chosen(conflict, choice, id) \in Content
  BY <1>1, SyncAssumption DEF Chosen, Content
<1>3. payload \in Content /\ type \in {"create", "update", "delete"}
  BY <1>2 DEF Content
<1>4. res \in Resolution \cup {None}
  BY <1>1 DEF Known, Resolution
<1>5. ResolutionOp(d, id, c, conflict, choice) =
        [id |-> id, device |-> d, entity |-> conflict.entity, type |-> type,
         base |-> conflict.remoteVersion, deps |-> {}, payload |-> payload, res |-> res]
  BY DEF ResolutionOp
<1> HIDE DEF payload, type, res
<1>6. ResolutionOp(d, id, c, conflict, choice) \in Operation
  BY <1>1, <1>3, <1>4, <1>5 DEF Operation
<1> QED
  BY <1>2, <1>6

\* A resolution takes the operations it replaces out of the queue; one that
\* the server must hear of is queued behind what is left.
LEMMA QueueResolutionQueues ==
  ASSUME NEW s, NEW d \in Device, NEW id, NEW c, NEW conflict,
         NEW choice \in ResolutionChoices,
         StoreType(s, d), Known(c, conflict),
         id \in OpId \/ TakesRemoteLocally(conflict, choice)
  PROVE  LET w == QueueResolution(s, d, id, c, conflict, choice)
             gone == Replaced(s, conflict)
         IN /\ TakesRemoteLocally(conflict, choice) => Leaves(s, w, d, gone)
            /\ ~TakesRemoteLocally(conflict, choice) /\ id \notin Queued(s) =>
                 Queues(s, w, d, gone, ResolutionOp(d, id, c, conflict, choice))
<1> DEFINE local == TakesRemoteLocally(conflict, choice)
           gone == Replaced(s, conflict)
           cleared == DropOps(s, gone)
           op == ResolutionOp(d, id, c, conflict, choice)
           shown == [present |-> TRUE, version |-> conflict.remoteVersion,
                     deleted |-> choice = "keep_remote" /\ conflict.remoteDeleted,
                     payload |-> Chosen(conflict, choice, id),
                     status |-> IF local THEN "clean" ELSE "pending"]
           row == IF cleared.entity[conflict.entity].present THEN shown
                  ELSE cleared.entity[conflict.entity]
           record == Decided(cleared.conflicts[c], local, choice, id)
           w == QueueResolution(s, d, id, c, conflict, choice)
<1>1. /\ Chosen(conflict, choice, id) \in Content
      /\ ~local => op \in Operation /\ id \in OpId
  <2>1. CASE id \in OpId
    BY <2>1, ResolutionTyped
  <2>2. CASE TakesRemoteLocally(conflict, choice)
    BY <2>2 DEF TakesRemoteLocally, Chosen, Known, LocalConflict
  <2> QED
    BY <2>1, <2>2
<1>2. conflict.entity \in Entity /\ conflict.remoteVersion \in Nat
      /\ conflict.remoteDeleted \in BOOLEAN
  BY DEF Known, LocalConflict
<1>3. shown \in VisibleRow
  BY <1>1, <1>2 DEF VisibleRow
<1>4. Leaves(s, cleared, d, gone)
  BY DropOpsLeaves
<1>5. StoreType(cleared, d)
  BY <1>4 DEF Leaves
<1>20. op.device = d /\ op.id = id
  BY DEF ResolutionOp
<1>6. /\ w.outbox = IF local THEN cleared.outbox
                    ELSE Append(cleared.outbox, [op |-> op, state |-> "pending"])
      /\ w.conflicts = [cleared.conflicts EXCEPT ![c] = record]
      /\ w.entity = [cleared.entity EXCEPT ![conflict.entity] = row]
      /\ w.epoch = cleared.epoch /\ w.cursor = cleared.cursor
      /\ w.state = cleared.state /\ DOMAIN w = DOMAIN cleared
  <2> HIDE DEF cleared, local, op, shown, gone
  <2>1. w = [cleared EXCEPT
               !.entity[conflict.entity] = IF @.present THEN shown ELSE @,
               !.outbox = IF local THEN @ ELSE Append(@, [op |-> op, state |-> "pending"]),
               !.conflicts[c] = record]
    BY DEF QueueResolution, cleared, local, op, shown, gone
  <2> HIDE DEF record, w
  <2> QED
    BY <1>2, <1>5, <2>1 DEF StoreType
<1> HIDE DEF cleared, shown
<1>7. row \in VisibleRow
  BY <1>2, <1>3, <1>5 DEF StoreType
<1>8. c \in DOMAIN cleared.conflicts => Known(c, record)
  <2> SUFFICES ASSUME c \in DOMAIN cleared.conflicts PROVE Known(c, record)
    OBVIOUS
  <2>1. Known(c, cleared.conflicts[c])
    BY <1>5 DEF StoreType
  <2>2. ~local => id \in OpId
    BY <1>1
  <2> HIDE DEF local
  <2> QED
    BY <2>1, <2>2 DEF Known, LocalConflict, Decided
<1> HIDE DEF row, record, w, op, local
<1>9. w.entity \in [Entity -> VisibleRow]
  BY <1>5, <1>6, <1>7 DEF StoreType
<1>10. \A x \in DOMAIN w.conflicts : Known(x, w.conflicts[x])
  BY <1>5, <1>6, <1>8 DEF StoreType
<1>11. local => Leaves(s, w, d, gone)
  <2> SUFFICES ASSUME local PROVE Leaves(s, w, d, gone)
    OBVIOUS
  <2>1. Leaves(cleared, w, d, {})
    BY <1>5, <1>6, <1>9, <1>10, QueueUntouched DEF StoreType
  <2>2. Leaves(s, w, d, gone \cup {})
    BY <1>4, <2>1, LeavesOn
  <2>3. gone \cup {} = gone
    OBVIOUS
  <2> QED
    BY <2>2, <2>3
<1>12. ~local /\ id \notin Queued(s) => Queues(s, w, d, gone, op)
  <2> SUFFICES ASSUME ~local, id \notin Queued(s) PROVE Queues(s, w, d, gone, op)
    OBVIOUS
  <2>1. op.id \notin Queued(cleared)
    <3>1. \A i \in DOMAIN cleared.outbox : \E j \in DOMAIN s.outbox :
            cleared.outbox[i].op = s.outbox[j].op
      BY <1>4 DEF Leaves, Follows
    <3> QED
      BY <1>20, <3>1 DEF Queued
  <2>2. Queues(cleared, w, d, {}, op)
    BY <1>1, <1>5, <1>6, <1>9, <1>10, <1>20, <2>1, QueueGrows DEF StoreType
  <2> HIDE DEF gone
  <2>3. StoreType(w, d) /\ w.epoch = s.epoch /\ w.cursor = s.cursor
    BY <1>4, <2>2 DEF Queues, Leaves
  <2>4. Queued(s) \cup {op.id} \subseteq Queued(w) \cup gone
    BY <1>4, <2>2 DEF Queues, Leaves, Follows
  <2>5. ASSUME NEW i \in DOMAIN w.outbox, w.outbox[i].op # op
        PROVE  \E j \in DOMAIN s.outbox :
                 /\ w.outbox[i].op = s.outbox[j].op
                 /\ w.outbox[i].state = "pending" => s.outbox[j].state = "pending"
    <3>1. PICK k \in DOMAIN cleared.outbox :
            /\ w.outbox[i].op = cleared.outbox[k].op
            /\ w.outbox[i].state = "pending" => cleared.outbox[k].state = "pending"
      BY <2>2, <2>5 DEF Queues
    <3>2. PICK j \in DOMAIN s.outbox :
            /\ cleared.outbox[k].op = s.outbox[j].op
            /\ cleared.outbox[k].state = "pending" => s.outbox[j].state = "pending"
      BY <1>4 DEF Leaves, Follows
    <3> QED
      BY <3>1, <3>2
  <2>6. \A i, k \in DOMAIN w.outbox : w.outbox[i].op = op => k <= i
    BY <2>2 DEF Queues
  <2>7. ASSUME NEW i \in DOMAIN w.outbox, NEW k \in DOMAIN w.outbox,
               NEW j \in DOMAIN s.outbox, NEW l \in DOMAIN s.outbox, i < k,
               w.outbox[i].op = s.outbox[j].op, w.outbox[k].op = s.outbox[l].op
        PROVE  j < l
    <3>1. \A x \in DOMAIN s.outbox : s.outbox[x].op # op
      BY <1>20 DEF Queued
    <3>2. PICK m \in DOMAIN cleared.outbox : w.outbox[i].op = cleared.outbox[m].op
      BY <2>2, <2>7, <3>1 DEF Queues
    <3>3. PICK n \in DOMAIN cleared.outbox : w.outbox[k].op = cleared.outbox[n].op
      BY <2>2, <2>7, <3>1 DEF Queues
    <3>4. m < n
      BY <2>2, <2>7, <3>2, <3>3 DEF Queues, InOrder
    <3> QED
      BY <1>4, <2>7, <3>2, <3>3, <3>4 DEF Leaves, Follows, InOrder
  <2> QED
    BY <2>3, <2>4, <2>5, <2>6, <2>7 DEF Queues, InOrder
<1> QED
  BY <1>11, <1>12 DEF w, local, op

\* What is ready is pending in the queue.
LEMMA ReadyIsQueued ==
  ASSUME NEW s, NEW d, StoreType(s, d)
  PROVE  /\ Ready(s) \in Seq(Operation)
         /\ \A k \in DOMAIN Ready(s) : \E i \in DOMAIN s.outbox :
              Ready(s)[k] = s.outbox[i].op /\ s.outbox[i].state = "pending"
<1> DEFINE pending == {i \in DOMAIN s.outbox : s.outbox[i].state = "pending"}
           complete(I) == \A i \in I : \A j \in 1..(i - 1) :
                            s.outbox[j].op.id \in s.outbox[i].op.deps => j \in I
           I == FirstOf(UNION {J \in SUBSET pending : complete(J)}, PushLimit)
           ready == Those(Ops(s), I)
<1>1. /\ s.outbox \in Seq(Entry) /\ Len(s.outbox) \in Nat
      /\ DOMAIN s.outbox = 1..Len(s.outbox)
  BY DEF StoreType, QueueType
<1>2. /\ Ops(s) \in Seq(Operation) /\ DOMAIN Ops(s) = DOMAIN s.outbox
      /\ \A i \in DOMAIN s.outbox : Ops(s)[i] = s.outbox[i].op
  <2>3. \A i \in DOMAIN s.outbox : s.outbox[i] \in Entry
    BY <1>1
  <2>1. \A i \in DOMAIN s.outbox : s.outbox[i].op \in Operation
    BY <2>3 DEF Entry
  <2>2. Ops(s) \in [1..Len(s.outbox) -> Operation]
    BY <1>1, <2>1 DEF Ops
  <2> QED
    BY <1>1, <2>2 DEF Ops
<1>3. I \in SUBSET (DOMAIN Ops(s)) /\ \A i \in I : s.outbox[i].state = "pending"
  BY <1>2 DEF FirstOf
<1>4. Ready(s) = ready
  BY DEF Ready
<1> HIDE DEF I, ready
<1>5. ready \in Seq(Operation) /\ \E at : Lists(ready, Ops(s), I, at)
  BY <1>2, <1>3, ThoseListed DEF ready
<1>6. PICK at : Lists(ready, Ops(s), I, at)
  BY <1>5
<1>7. \A k \in DOMAIN ready : at[k] \in I /\ ready[k] = Ops(s)[at[k]]
  BY <1>6 DEF Lists
<1>8. \A k \in DOMAIN ready : \E i \in DOMAIN s.outbox :
        ready[k] = s.outbox[i].op /\ s.outbox[i].state = "pending"
  BY <1>2, <1>3, <1>7
<1> QED
  BY <1>4, <1>5, <1>8

\* An outbox has as many operations as rows.
LEMMA QueueCounted ==
  ASSUME NEW s, NEW d, StoreType(s, d)
  PROVE  Cardinality(Queued(s)) = Len(s.outbox)
<1> DEFINE n == Len(s.outbox)
           ids == Queued(s)
           f == [i \in 1..n |-> s.outbox[i].op.id]
<1>1. n \in Nat /\ DOMAIN s.outbox = 1..n
  BY DEF StoreType, QueueType
<1>2. \A i \in 1..n : f[i] \in ids
  BY <1>1 DEF Queued
<1>3. \A x \in ids : \E i \in 1..n : f[i] = x
  BY <1>1 DEF Queued
<1>4. \A i, j \in 1..n : f[i] = f[j] => i = j
  BY <1>1 DEF StoreType, QueueType
<1>5. DOMAIN f = 1..n /\ f = [i \in 1..n |-> f[i]]
  OBVIOUS
<1> HIDE DEF f, ids, n
<1>6. f \in Bijection(1..n, ids)
  BY <1>2, <1>3, <1>4, <1>5 DEF Bijection, Injection, Surjection, IsInjective
<1>7. ExistsBijection(1..n, ids)
  BY <1>6 DEF ExistsBijection
<1>8. Cardinality(ids) = n
  BY <1>1, <1>7, FS_CountingElements
<1> QED
  BY <1>8 DEF ids, n

-----------------------------------------------------------------------------
(* The invariant.                                                          *)

\* A batch on its way holds operations that were made in its epoch.
Batch(ops, epoch) ==
  /\ ops \in Seq(Operation)
  /\ \A k \in DOMAIN ops : ops[k].id \in DOMAIN issued /\ issued[ops[k].id].epoch = epoch

\* What a database tells of operations has been issued, in that epoch; the
\* rest are changes of the space and derived ones.
Recorded(d) ==
  /\ DbInv(d)
  /\ \A i \in DOMAIN d.changes :
       /\ d.changes[i].id \in OpId => d.changes[i].id \in DOMAIN issued \cup LifecycleId
       /\ d.changes[i].id \in DOMAIN issued =>
            d.changes[i].epoch = issued[d.changes[i].id].epoch

\* An operation that was answered with success is in the ledger unless its
\* epoch has been restored away.
Landed(id) ==
  id \in DOMAIN issued /\ (id \in DOMAIN db.processed \/ issued[id].epoch # db.epoch)

IssuedOk ==
  \A id \in DOMAIN issued :
    /\ \E d \in Device : id \in Draws[d]
    /\ issued[id].op.device \in Device
    /\ issued[id].epoch \in Nat /\ issued[id].epoch <= db.epoch

\* What waits to be sent was made in the epoch of the store; a device that
\* has not been bootstrapped has nothing that waits.
StoreOk(d) ==
  /\ StoreType(store[d], d)
  /\ store[d].epoch # None => store[d].epoch <= db.epoch
  /\ \A i \in DOMAIN store[d].outbox :
       /\ store[d].outbox[i].op.id \in DOMAIN issued
       /\ store[d].outbox[i].state = "pending" =>
            issued[store[d].outbox[i].op.id].epoch = store[d].epoch
  /\ store[d].epoch = None =>
       DOMAIN store[d].outbox = {} /\ DOMAIN store[d].conflicts = {}

ChoosingOk(d) ==
  choosing[d] # None =>
    /\ store[d].epoch # None
    /\ choosing[d].choice \in ResolutionChoices
    /\ Known(choosing[d].id, choosing[d].conflict)

\* What the cycle of a tab may have in its hands.
Hand(t, x) ==
  /\ x.at \in {"idle", "activate", "push", "results", "control", "pull", "page"}
  /\ x.at \notin {"idle", "activate"} => Here(t).epoch # None
  /\ x.at = "activate" => ToldSnapshot(x.snapshot) /\ x.snapshot.epoch <= db.epoch
  /\ x.at = "push" => Batch(x.ops, x.epoch)
  /\ x.at = "results" =>
       /\ x.ops \in Seq(Operation)
       /\ AnswersTo(x.results, x.ops)
       /\ \A i \in DOMAIN x.ops : Succeeded(x.results[i]) => Landed(x.ops[i].id)
  /\ x.at = "page" => x.page.changes \in Seq(ToldChange) /\ x.page.to \in Nat

\* The server, the devices and the histories; the cycles; the pushes that
\* outlived theirs.
Kept ==
  /\ Recorded(db) /\ Recorded(backup)
  /\ IssuedOk
  /\ DOMAIN store = Device /\ DOMAIN choosing = Device
  /\ \A d \in Device : StoreOk(d) /\ ChoosingOk(d)
  /\ replaced \subseteq OpId /\ settled \subseteq OpId
  /\ LocalWorkIsKept
Hands == DOMAIN cycle = Tab /\ \A t \in Tab : Hand(t, cycle[t])
Sent == \A m \in late : Batch(m.ops, m.epoch)

SyncInv == Kept /\ Hands /\ Sent

-----------------------------------------------------------------------------
(* A batch on the server.                                                  *)

\* Where a push stands after the first k operations of a batch.
Pushed(d, ops, k, done) ==
  /\ DbInv(done.db) /\ Extends(d, done.db)
  /\ done.db.epoch = d.epoch /\ ToldIn(d.changes, done.db.changes, d.epoch)
  /\ \A i \in DOMAIN done.db.changes :
       i > Len(d.changes) /\ done.db.changes[i].id \in OpId =>
         \E j \in 1..k : done.db.changes[i].id = ops[j].id
  /\ done.results \in Seq(AnswerType) /\ Len(done.results) = k
  /\ \A i \in 1..k :
       /\ done.results[i].status = "conflict" => done.results[i].conflict \in ShownConflict
       /\ Succeeded(done.results[i]) => ops[i].id \in DOMAIN done.db.processed

\* An operation that is applied, or blocked by one that failed before it.
LEMMA PushOpKeeps ==
  ASSUME NEW d, NEW ops \in Seq(Operation), NEW m \in Nat, m + 1 \in 1..Len(ops),
         NEW done, DbInv(d), Pushed(d, ops, m, done)
  PROVE  Pushed(d, ops, m + 1, PushOp(done, ops, m + 1))
<1> DEFINE k == m + 1
           op == ops[k]
           known == {ops[i].id : i \in DOMAIN ops}
           applied == {done.results[j].op : j \in {i \in DOMAIN done.results :
                                                      Succeeded(done.results[i])}}
           blocked == [db |-> done.db,
                       result |-> Result(op, "blocked_dependency", 0, 0, None)]
           reply == IF (op.deps \cap known) \subseteq applied THEN ApplyOne(done.db, op)
                    ELSE blocked
           next == PushOp(done, ops, k)
<1>1. op \in Operation
  OBVIOUS
<1>2. next = [db |-> reply.db, results |-> Append(done.results, reply.result)]
  BY DEF PushOp
<1>21. k \in Nat
  OBVIOUS
<1>22. \A i : i \in 1..k <=> i \in 1..m \/ i = k
  OBVIOUS
<1>3. DbInv(done.db)
  BY DEF Pushed
<1> HIDE DEF known, applied
<1>4. /\ DbInv(reply.db) /\ Extends(done.db, reply.db)
      /\ OnlyNew(done.db, reply.db, op.id) /\ reply.result \in AnswerType
      /\ Succeeded(reply.result) => op.id \in DOMAIN reply.db.processed
      /\ InEpoch(done.db, reply)
  <2>1. /\ Keeps(done.db, op.id, ApplyOne(done.db, op))
        /\ InEpoch(done.db, ApplyOne(done.db, op))
    BY <1>1, <1>3, ApplyOneKeeps, ApplyOneInEpoch
  <2>2. /\ blocked.db = done.db /\ blocked.result.status = "blocked_dependency"
        /\ blocked.result \in AnswerType
    BY <1>1 DEF Result, AnswerType, Operation
  <2>7. reply = ApplyOne(done.db, op) \/ reply = blocked
    OBVIOUS
  <2> HIDE DEF blocked, op, k, reply, next
  <2>6. \A i \in DOMAIN done.db.changes : ~(i > Len(done.db.changes))
    BY <1>3 DEF DbInv, DbType
  <2>3. /\ Extends(done.db, done.db) /\ OnlyNew(done.db, done.db, op.id)
        /\ ToldIn(done.db.changes, done.db.changes, done.db.epoch)
    BY <1>3, <2>6, ExtendsReflexive DEF OnlyNew, ToldIn
  <2>4. CASE reply = ApplyOne(done.db, op)
    BY <2>1, <2>4, SuccessIsProcessed DEF Keeps
  <2>5. CASE reply = blocked
    <3>1. ~Succeeded(blocked.result)
      BY <2>2 DEF Succeeded
    <3> QED
      BY <1>3, <2>2, <2>3, <2>5, <3>1 DEF InEpoch
  <2> QED
    BY <2>4, <2>5, <2>7
<1> HIDE DEF reply, op, k
<1>5. /\ DbInv(done.db) /\ Extends(d, done.db) /\ done.db.epoch = d.epoch
      /\ ToldIn(d.changes, done.db.changes, d.epoch)
      /\ done.results \in Seq(AnswerType) /\ Len(done.results) = m
      /\ \A i \in 1..m :
           /\ done.results[i].status = "conflict" =>
                done.results[i].conflict \in ShownConflict
           /\ Succeeded(done.results[i]) => ops[i].id \in DOMAIN done.db.processed
      /\ \A i \in DOMAIN done.db.changes :
           i > Len(d.changes) /\ done.db.changes[i].id \in OpId =>
             \E j \in 1..m : done.db.changes[i].id = ops[j].id
  BY DEF Pushed
<1>6. Extends(d, reply.db)
  BY <1>4, <1>5, ExtendsTransitive DEF DbInv
<1>7. \A i \in DOMAIN reply.db.changes :
        i > Len(done.db.changes) \/
        (i \in DOMAIN done.db.changes /\ reply.db.changes[i] = done.db.changes[i])
  <2> DEFINE old == done.db.changes
             new == reply.db.changes
  <2>4. old \in Seq(ChangeType) /\ new \in Seq(ChangeType)
    BY <1>3, <1>4 DEF DbInv, DbType
  <2>1. /\ Len(old) \in Nat /\ DOMAIN old = 1..Len(old)
        /\ Len(new) \in Nat /\ DOMAIN new = 1..Len(new)
    <3> HIDE DEF old, new
    <3> QED
      BY <2>4
  <2>2. \A i \in 1..Len(old) : new[i] = old[i]
    BY <1>4 DEF Extends
  <2> HIDE DEF old, new
  <2>3. \A i \in DOMAIN new : i > Len(old) \/ (i \in DOMAIN old /\ new[i] = old[i])
    BY <2>1, <2>2
  <2> QED
    BY <2>3 DEF old, new
<1>8. ToldIn(d.changes, reply.db.changes, d.epoch) /\ reply.db.epoch = d.epoch
  BY <1>4, <1>5, <1>7 DEF ToldIn, InEpoch
<1>9. ASSUME NEW i \in DOMAIN reply.db.changes, i > Len(d.changes),
             reply.db.changes[i].id \in OpId
      PROVE  \E j \in 1..k : reply.db.changes[i].id = ops[j].id
  <2>1. CASE i > Len(done.db.changes)
    <3>1. reply.db.changes[i].id = op.id
      BY <1>4, <1>9, <2>1 DEF OnlyNew
    <3> QED
      BY <1>22, <3>1 DEF op
  <2>2. CASE i \in DOMAIN done.db.changes /\ reply.db.changes[i] = done.db.changes[i]
    BY <1>5, <1>9, <1>22, <2>2
  <2> QED
    BY <1>7, <2>1, <2>2
<1>10. DOMAIN done.db.processed \subseteq DOMAIN reply.db.processed
  BY <1>4, <1>5, ProcessedStays
<1>11. /\ next.results \in Seq(AnswerType) /\ Len(next.results) = k
       /\ \A i \in 1..m : next.results[i] = done.results[i]
       /\ next.results[k] = reply.result
  <2> DEFINE old == done.results
             new == reply.result
  <2>1. old \in Seq(AnswerType) /\ new \in AnswerType /\ Len(old) = m
    BY <1>4, <1>5
  <2>2. next.results = Append(old, new)
    BY <1>2
  <2> HIDE DEF old, new, next
  <2>3. /\ Append(old, new) \in Seq(AnswerType) /\ Len(Append(old, new)) = m + 1
        /\ \A i \in 1..m : Append(old, new)[i] = old[i]
        /\ Append(old, new)[m + 1] = new
    BY <2>1
  <2> QED
    BY <2>2, <2>3 DEF k, old, new
<1>12. next.db = reply.db
  BY <1>2
<1> HIDE DEF next
<1>13. ASSUME NEW i \in 1..k
       PROVE  /\ next.results[i].status = "conflict" =>
                   next.results[i].conflict \in ShownConflict
              /\ Succeeded(next.results[i]) => ops[i].id \in DOMAIN next.db.processed
  <2>1. CASE i \in 1..m
    BY <1>5, <1>10, <1>11, <1>12, <2>1
  <2>2. CASE i = k
    BY <1>4, <1>11, <1>12, <2>2 DEF InEpoch, op
  <2> QED
    BY <1>22, <2>1, <2>2
<1>14. Pushed(d, ops, k, next)
  BY <1>4, <1>6, <1>8, <1>9, <1>11, <1>12, <1>13 DEF Pushed
<1> QED
  BY <1>14 DEF next, k

\* The states a push goes through.
LEMMA PushSteps ==
  ASSUME NEW d, NEW ops, Len(ops) \in Nat
  PROVE  \E done :
           /\ done[0] = [db |-> d, results |-> <<>>]
           /\ \A k \in 1..Len(ops) : done[k] = PushOp(done[k - 1], ops, k)
           /\ Push(d, ops) = done[Len(ops)]
<1> DEFINE n == Len(ops)
           start == [db |-> d, results |-> <<>>]
           Upto(m, f) == f = [k \in 0..m |-> IF k = 0 THEN start
                                ELSE PushOp(f[k - 1], ops, k)]
           Q == {m \in 0..n : \E f : Upto(m, f)}
           all == CHOOSE f : Upto(n, f)
<1>5. Push(d, ops) = all[n]
  BY DEF Push
<1> HIDE DEF start
<1>1. 0 \in Q
  <2>1. Upto(0, [k \in 0..0 |-> start])
    OBVIOUS
  <2> HIDE DEF Upto
  <2> QED
    BY <2>1
<1>2. ASSUME NEW m \in 0..n, m # n, m \in Q
      PROVE  m + 1 \in Q
  <2>1. PICK f : Upto(m, f)
    BY <1>2
  <2> DEFINE next == PushOp(f[m], ops, m + 1)
             g == [k \in 0..(m + 1) |-> IF k = m + 1 THEN next ELSE f[k]]
  <2>2. m \in Nat /\ m + 1 \in 0..n /\ m + 1 # 0 /\ (m + 1) - 1 = m
    BY <1>2
  <2>3. \A k \in 0..m : f[k] = IF k = 0 THEN start ELSE PushOp(f[k - 1], ops, k)
    BY <2>1
  <2>4. ASSUME NEW k \in 0..(m + 1)
        PROVE  g[k] = IF k = 0 THEN start ELSE PushOp(g[k - 1], ops, k)
    <3>1. CASE k = m + 1
      <4>1. g[k] = next /\ k - 1 = m /\ k # 0 /\ m \in 0..(m + 1) /\ m # m + 1
        BY <2>2, <3>1
      <4>2. g[k - 1] = f[m]
        BY <4>1
      <4> QED
        BY <3>1, <4>1, <4>2
    <3>2. CASE k # m + 1 /\ k # 0
      <4>1. k \in 0..m /\ k - 1 \in 0..(m + 1) /\ k - 1 # m + 1
        BY <2>2, <3>2
      <4>2. g[k] = f[k] /\ g[k - 1] = f[k - 1]
        BY <3>2, <4>1
      <4> QED
        BY <2>3, <3>2, <4>1, <4>2
    <3>3. CASE k = 0
      <4>1. g[k] = f[k] /\ 0 \in 0..m
        BY <2>2, <3>3
      <4> QED
        BY <2>3, <3>3, <4>1
    <3> QED
      BY <3>1, <3>2, <3>3
  <2>5. Upto(m + 1, g)
    <3>1. g = [k \in 0..(m + 1) |-> g[k]]
      OBVIOUS
    <3> HIDE DEF g
    <3> QED
      BY <2>4, <3>1
  <2> HIDE DEF Upto
  <2> QED
    BY <2>2, <2>5
<1>3. n \in Q
  <2> HIDE DEF Q
  <2>1. \A m \in 0..n : m \in Q
    BY <1>1, <1>2, CountingUp
  <2> QED
    BY <2>1
<1>4. Upto(n, all)
  <2> HIDE DEF Upto
  <2> QED
    BY <1>3
<1> HIDE DEF all
<1>6. all[0] = start /\ \A k \in 1..n : all[k] = PushOp(all[k - 1], ops, k)
  BY <1>4
<1> QED
  BY <1>5, <1>6 DEF start

\* A whole batch.
LEMMA PushKeeps ==
  ASSUME NEW d, NEW ops \in Seq(Operation), DbInv(d)
  PROVE  Pushed(d, ops, Len(ops), Push(d, ops))
<1> DEFINE n == Len(ops)
<1>1. n \in Nat
  OBVIOUS
<1>2. PICK done : /\ done[0] = [db |-> d, results |-> <<>>]
                  /\ \A k \in 1..n : done[k] = PushOp(done[k - 1], ops, k)
                  /\ Push(d, ops) = done[n]
  BY <1>1, PushSteps
<1> DEFINE Q == {k \in 0..n : Pushed(d, ops, k, done[k])}
<1>3. 0 \in Q
  <2> DEFINE start == [db |-> d, results |-> <<>>]
  <2>1. start.db = d /\ start.results = <<>>
    OBVIOUS
  <2>2. Extends(d, d) /\ ToldIn(d.changes, d.changes, d.epoch)
        /\ \A i \in DOMAIN d.changes : ~(i > Len(d.changes))
    BY ExtendsReflexive DEF ToldIn, DbInv, DbType
  <2>4. <<>> \in Seq(AnswerType) /\ Len(<<>>) = 0 /\ 1..0 = {}
    OBVIOUS
  <2> HIDE DEF start
  <2>3. Pushed(d, ops, 0, start)
    BY <2>1, <2>2, <2>4 DEF Pushed
  <2>5. done[0] = start /\ 0 \in 0..n
    BY <1>1, <1>2 DEF start
  <2> QED
    BY <2>3, <2>5
<1>4. ASSUME NEW m \in 0..n, m # n, m \in Q
      PROVE  m + 1 \in Q
  <2>1. m \in Nat /\ m + 1 \in 1..n /\ (m + 1) - 1 = m /\ m + 1 \in 0..n
    <3> HIDE DEF Q
    <3> QED
      BY <1>1, <1>4
  <2>2. Pushed(d, ops, m, done[m])
    BY <1>4
  <2>3. done[m + 1] = PushOp(done[m], ops, m + 1)
    BY <1>2, <2>1
  <2>4. Pushed(d, ops, m + 1, done[m + 1])
    BY <2>1, <2>2, <2>3, PushOpKeeps
  <2> QED
    BY <2>1, <2>4
<1>5. n \in Q
  <2> HIDE DEF Q
  <2>1. \A m \in 0..n : m \in Q
    BY <1>1, <1>3, <1>4, CountingUp
  <2> QED
    BY <1>1, <2>1
<1> QED
  BY <1>2, <1>5

\* What the server says to a batch of its epoch: all it records was issued in
\* that epoch, and what it reports as a success is in the ledger.
LEMMA PushRecorded ==
  ASSUME NEW d, NEW ops, Recorded(d), IssuedOk, Batch(ops, d.epoch)
  PROVE  LET w == Push(d, ops)
         IN /\ Recorded(w.db) /\ w.db.epoch = d.epoch
            /\ DOMAIN d.processed \subseteq DOMAIN w.db.processed
            /\ ops \in Seq(Operation) /\ AnswersTo(w.results, ops)
            /\ \A i \in DOMAIN ops : Succeeded(w.results[i]) =>
                 /\ ops[i].id \in DOMAIN issued
                 /\ ops[i].id \in DOMAIN w.db.processed
<1> DEFINE w == Push(d, ops)
<1>1. ops \in Seq(Operation) /\ Len(ops) \in Nat /\ DOMAIN ops = 1..Len(ops) /\ DbInv(d)
  BY DEF Batch, Recorded
<1>2. Pushed(d, ops, Len(ops), w)
  BY <1>1, PushKeeps
<1> HIDE DEF w
<1>3. DbInv(w.db) /\ Extends(d, w.db) /\ w.db.epoch = d.epoch
  BY <1>2 DEF Pushed
<1>4. DOMAIN d.processed \subseteq DOMAIN w.db.processed
  BY <1>1, <1>3, ProcessedStays
<1>5. AnswersTo(w.results, ops)
  BY <1>1, <1>2 DEF Pushed, AnswersTo
<1>6. \A i \in DOMAIN ops : Succeeded(w.results[i]) =>
        ops[i].id \in DOMAIN issued /\ ops[i].id \in DOMAIN w.db.processed
  BY <1>1, <1>2 DEF Pushed, Batch
<1>7. ASSUME NEW i \in DOMAIN w.db.changes
      PROVE  LET c == w.db.changes[i]
             IN /\ c.id \in OpId => c.id \in DOMAIN issued \cup LifecycleId
                /\ c.id \in DOMAIN issued => c.epoch = issued[c.id].epoch
  <2> DEFINE old == d.changes
             new == w.db.changes
  <2>1. old \in Seq(ChangeType) /\ new \in Seq(ChangeType)
    BY <1>1, <1>3 DEF DbInv, DbType
  <2>2. \A j \in 1..Len(old) : new[j] = old[j]
    BY <1>3 DEF Extends
  <2>3. ToldIn(old, new, d.epoch)
    BY <1>2 DEF Pushed
  <2>4. i > Len(old) /\ new[i].id \in OpId =>
          \E j \in 1..Len(ops) : new[i].id = ops[j].id
    BY <1>2, <1>7 DEF Pushed
  <2> HIDE DEF old, new
  <2>5. CASE i > Len(old)
    <3>1. new[i].epoch = d.epoch
      BY <1>7, <2>3, <2>5 DEF ToldIn, new
    <3>2. new[i].id \in DOMAIN issued => new[i].id \in OpId
      BY SyncAssumption DEF IssuedOk
    <3>3. \A j \in 1..Len(ops) :
            ops[j].id \in DOMAIN issued /\ issued[ops[j].id].epoch = d.epoch
      BY <1>1 DEF Batch
    <3> QED
      BY <2>4, <2>5, <3>1, <3>2, <3>3 DEF new
  <2>6. CASE ~(i > Len(old))
    <3>3. i \in DOMAIN new
      BY <1>7 DEF new
    <3>1. i \in DOMAIN old /\ new[i] = old[i]
      BY <2>1, <2>2, <2>6, <3>3
    <3>2. \A j \in DOMAIN old :
            /\ old[j].id \in OpId => old[j].id \in DOMAIN issued \cup LifecycleId
            /\ old[j].id \in DOMAIN issued => old[j].epoch = issued[old[j].id].epoch
      BY DEF Recorded, old
    <3> QED
      BY <3>1, <3>2 DEF new
  <2> QED
    BY <2>5, <2>6
<1>8. Recorded(w.db)
  BY <1>3, <1>7 DEF Recorded
<1> QED
  BY <1>1, <1>3, <1>4, <1>5, <1>6, <1>8 DEF w

-----------------------------------------------------------------------------
(* Steps.                                                                  *)

\* What every step leaves to the cycles and the pushes on their way: issued
\* operations stay as they are, what has landed stays so, the epoch does not
\* sink, and a device that has been bootstrapped stays so.
Onward ==
  /\ \A id \in DOMAIN issued : id \in DOMAIN issued' /\ issued'[id] = issued[id]
  /\ \A id \in DOMAIN issued :
       id \in DOMAIN db.processed \/ issued[id].epoch # db.epoch =>
         id \in DOMAIN db'.processed \/ issued[id].epoch # db'.epoch
  /\ db.epoch \in Nat /\ db'.epoch \in Nat /\ db.epoch <= db'.epoch
  /\ \A d \in Device : store[d].epoch # None => store'[d].epoch # None

\* A device puts a new operation behind its queue, which depends on no
\* operation but queued ones.
Grown(d, op) ==
  /\ op \in Operation /\ op.device = d /\ op.id \in Fresh(d)
  /\ op.deps \subseteq Queued(store[d])
  /\ Issue(d, op)
  /\ \E gone : Queues(store[d], store'[d], d, gone, op)
  /\ \A c \in Device : c # d => store'[c] = store[c]

\* What every step leaves to the devices: what has been replaced or, within
\* an epoch, processed stays so, and all queues are what they were but for
\* the operations that left them, unless one of them grows.
DeviceStep ==
  /\ replaced \subseteq replaced'
  /\ db'.epoch = db.epoch => DOMAIN db.processed \subseteq DOMAIN db'.processed
  /\ \/ /\ UNCHANGED issued
        /\ \A d \in Device : \E gone : Follows(store[d], store'[d], gone)
     \/ \E d \in Device : \E op : Grown(d, op)

\* A store stays in its epoch and at its cursor, and an operation leaves its
\* queue only into gone.
Stands(d, gone) ==
  /\ store'[d].epoch = store[d].epoch /\ store'[d].cursor = store[d].cursor
  /\ Queued(store[d]) \subseteq Queued(store'[d]) \cup gone

StoresStand == \A d \in Device : Stands(d, replaced')

\* A store takes what the cycle of tab t has in its hands: answers, a snapshot
\* or a page.
TakesIn(t) ==
  LET x == cycle[t]
      d == DeviceOf[t]
  IN /\ cycle'[t].at \in {"idle", "pull"}
     /\ UNCHANGED issued /\ UNCHANGED replaced
     /\ \A c \in Device : c # d => Stands(c, {})
     /\ \/ x.at = "results" /\ Stands(d, {x.ops[i].id : i \in DOMAIN x.ops})
        \/ /\ x.at = "activate" /\ Queued(store[d]) \subseteq Queued(store'[d])
           /\ \/ Stands(d, {})
              \/ /\ store'[d].epoch = x.snapshot.epoch
                 /\ store'[d].cursor = x.snapshot.cursor
        \/ /\ x.at = "page" /\ Queued(store[d]) \subseteq Queued(store'[d])
           /\ store'[d].epoch = store[d].epoch /\ store'[d].cursor = x.page.to

LEMMA OneStands ==
  ASSUME SyncInv, NEW d \in Device, NEW w, NEW gone, NEW more,
         store' = [store EXCEPT ![d] = w],
         w.epoch = store[d].epoch, w.cursor = store[d].cursor,
         Queued(store[d]) \subseteq Queued(w) \cup gone, gone \subseteq more
  PROVE  \A c \in Device : Stands(c, more)
<1>1. DOMAIN store = Device
  BY DEF SyncInv, Kept
<1>2. Stands(d, more)
  BY <1>1 DEF Stands
<1>3. \A c \in Device : c # d => store'[c] = store[c]
  BY <1>1
<1>4. \A c \in Device : c # d => Stands(c, more)
  BY <1>3 DEF Stands
<1> QED
  BY <1>2, <1>4

LEMMA OthersStand ==
  ASSUME SyncInv, NEW d \in Device, NEW w, store' = [store EXCEPT ![d] = w]
  PROVE  /\ store'[d] = w
         /\ \A c \in Device : c # d => Stands(c, {})
<1>1. DOMAIN store = Device
  BY DEF SyncInv, Kept
<1>2. \A c \in Device : c # d => store'[c] = store[c]
  BY <1>1
<1>3. \A c \in Device : c # d => Stands(c, {})
  BY <1>2 DEF Stands
<1> QED
  BY <1>1, <1>3

\* A batch stays one.
LEMMA BatchStays ==
  ASSUME NEW ops, NEW epoch, Onward, Batch(ops, epoch)
  PROVE  Batch(ops, epoch)'
  BY DEF Onward, Batch

\* What a cycle has in its hands stays good.
LEMMA HandStays ==
  ASSUME NEW t \in Tab, NEW x, Onward, Hand(t, x)
  PROVE  Hand(t, x)'
<1>1. DeviceOf[t] \in Device
  BY SyncAssumption
<1>2. x.at \notin {"idle", "activate"} => (Here(t).epoch # None)'
  BY <1>1 DEF Hand, Here, Onward
<1>3. x.at = "activate" =>
        ToldSnapshot(x.snapshot) /\ x.snapshot.epoch <= db'.epoch
  BY DEF Hand, ToldSnapshot, Onward
<1>4. x.at = "push" => Batch(x.ops, x.epoch)'
  BY BatchStays DEF Hand
<1>5. \A id : Landed(id) => Landed(id)'
  BY DEF Landed, Onward
<1> QED
  BY <1>2, <1>3, <1>4, <1>5 DEF Hand

\* The cycles and the pushes on their way when none of them moves.
LEMMA CyclesRest ==
  ASSUME SyncInv, Onward, UNCHANGED cycle
  PROVE  Hands'
<1>1. DOMAIN cycle' = Tab
  BY DEF SyncInv, Hands
<1>2. ASSUME NEW t \in Tab
      PROVE  Hand(t, cycle[t])'
  <2>1. PICK x : x = cycle[t]
    OBVIOUS
  <2>2. Hand(t, x)
    BY <2>1 DEF SyncInv, Hands
  <2>3. Hand(t, x)' /\ cycle'[t] = x
    BY <2>1, <2>2, HandStays
  <2> QED
    BY <2>3 DEF Hand
<1> QED
  BY <1>1, <1>2 DEF Hands

\* One cycle moves.
LEMMA CycleMoves ==
  ASSUME SyncInv, Onward, NEW t \in Tab, NEW y, Hand(t, y)',
         cycle' = [cycle EXCEPT ![t] = y]
  PROVE  Hands'
<1>1. DOMAIN cycle' = Tab
  BY DEF SyncInv, Hands
<1>2. ASSUME NEW u \in Tab
      PROVE  Hand(u, cycle[u])'
  <2>1. CASE u = t
    <3>1. cycle'[t] = y
      BY DEF SyncInv, Hands
    <3> QED
      BY <2>1, <3>1 DEF Hand
  <2>2. CASE u # t
    <3>1. PICK x : x = cycle[u]
      OBVIOUS
    <3>2. Hand(u, x)
      BY <3>1 DEF SyncInv, Hands
    <3>3. Hand(u, x)' /\ cycle'[u] = x
      BY <2>2, <3>1, <3>2, HandStays DEF SyncInv, Hands
    <3> QED
      BY <3>3 DEF Hand
  <2> QED
    BY <2>1, <2>2
<1> QED
  BY <1>1, <1>2 DEF Hands

\* No push is added to those on their way.
LEMMA SentStays ==
  ASSUME SyncInv, Onward, late' \subseteq late
  PROVE  Sent'
<1>1. ASSUME NEW m \in late'
      PROVE  Batch(m.ops, m.epoch)'
  <2>1. PICK q : q = m
    OBVIOUS
  <2>2. Batch(q.ops, q.epoch)
    BY <1>1, <2>1 DEF SyncInv, Sent
  <2>3. Batch(q.ops, q.epoch)'
    BY <2>2, BatchStays
  <2> QED
    BY <2>1, <2>3
<1> QED
  BY <1>1 DEF Sent

\* Stores that rest follow themselves.
LEMMA StoresFollow ==
  ASSUME SyncInv, UNCHANGED store
  PROVE  \A d \in Device : \E gone : Follows(store[d], store'[d], gone)
<1> SUFFICES ASSUME NEW d \in Device PROVE \E gone : Follows(store[d], store'[d], gone)
  OBVIOUS
<1>1. PICK s : s = store[d]
  OBVIOUS
<1>2. StoreType(s, d)
  BY <1>1 DEF SyncInv, Kept, StoreOk
<1> QED
  BY <1>1, <1>2, FollowsItself

\* The server moves and the devices rest.
LEMMA ServerMoves ==
  ASSUME SyncInv, Recorded(db)', Recorded(backup)', db.epoch <= db'.epoch,
         db'.epoch = db.epoch => DOMAIN db.processed \subseteq DOMAIN db'.processed,
         UNCHANGED <<store, choosing, history>>
  PROVE  Kept' /\ Onward /\ DeviceStep
<1>1. db.epoch \in Nat /\ db'.epoch \in Nat
  BY DEF SyncInv, Kept, Recorded, DbInv, DbType
<1>2. UNCHANGED store /\ UNCHANGED choosing /\ UNCHANGED issued
      /\ UNCHANGED replaced /\ UNCHANGED settled
  BY DEF history
<1>3. \A id \in DOMAIN issued : issued[id].epoch \in Nat /\ issued[id].epoch <= db.epoch
  BY DEF SyncInv, Kept, IssuedOk
<1>4. \A id \in DOMAIN issued :
        id \in DOMAIN db.processed \/ issued[id].epoch # db.epoch =>
          id \in DOMAIN db'.processed \/ issued[id].epoch # db'.epoch
  <2> SUFFICES ASSUME NEW id \in DOMAIN issued,
                      id \in DOMAIN db.processed \/ issued[id].epoch # db.epoch,
                      issued[id].epoch = db'.epoch
               PROVE  id \in DOMAIN db'.processed
    OBVIOUS
  <2> DEFINE old == db.epoch
             new == db'.epoch
             mine == issued[id].epoch
  <2>1. mine <= old /\ old <= new /\ mine = new /\ old \in Nat /\ new \in Nat
    BY <1>1, <1>3
  <2> HIDE DEF old, new, mine
  <2>2. mine = old /\ old = new
    BY <2>1
  <2> QED
    BY <2>2 DEF old, new, mine
<1>5. Onward
  BY <1>1, <1>2, <1>4 DEF Onward
<1>6. IssuedOk'
  <2>1. \A n \in Nat : n <= db.epoch => n <= db'.epoch
    BY <1>1
  <2> QED
    BY <1>2, <2>1 DEF SyncInv, Kept, IssuedOk
<1>7. ASSUME NEW d \in Device
      PROVE  StoreOk(d)' /\ ChoosingOk(d)'
  <2>1. StoreOk(d) /\ ChoosingOk(d)
    BY DEF SyncInv, Kept
  <2>2. store[d].epoch # None => store[d].epoch \in Nat
    BY <2>1 DEF StoreOk, StoreType
  <2>3. store[d].epoch # None => store[d].epoch <= db'.epoch
    <3>1. \A n \in Nat : n <= db.epoch => n <= db'.epoch
      BY <1>1
    <3> QED
      BY <2>1, <2>2, <3>1 DEF StoreOk
  <2>4. StoreType(store[d], d)'
    BY <1>2, <2>1 DEF StoreOk, StoreType, QueueType
  <2> QED
    BY <1>2, <2>1, <2>3, <2>4 DEF StoreOk, ChoosingOk
<1>8. LocalWorkIsKept'
  BY <1>2, <1>4 DEF SyncInv, Kept, LocalWorkIsKept, Queued
<1>9. DeviceStep
  BY <1>2, StoresFollow DEF DeviceStep
<1> QED
  BY <1>2, <1>5, <1>6, <1>7, <1>8, <1>9 DEF SyncInv, Kept

\* A device's store moves: nothing is queued that was not, and what leaves
\* the queue has been replaced or has landed.
LEMMA StoreMoves ==
  ASSUME SyncInv, NEW d \in Device, NEW w, NEW gone,
         store' = [store EXCEPT ![d] = w],
         StoreType(w, d), Follows(store[d], w, gone),
         store[d].epoch # None => w.epoch # None,
         w.epoch # None => w.epoch <= db.epoch,
         w.epoch = store[d].epoch \/ store[d].epoch = None \/ NothingPending(w),
         w.epoch = None => DOMAIN w.conflicts = {},
         \A id \in gone : id \in replaced' \/ (id \in settled' /\ Landed(id)),
         replaced \subseteq replaced', settled \subseteq settled',
         replaced' \subseteq OpId, settled' \subseteq OpId,
         UNCHANGED <<server, issued>>,
         choosing' = choosing \/ choosing' = [choosing EXCEPT ![d] = None]
  PROVE  Kept' /\ Onward /\ DeviceStep
<1>1. UNCHANGED db /\ UNCHANGED backup /\ UNCHANGED issued
  BY DEF server
<1>2. /\ DOMAIN store' = Device /\ store'[d] = w
      /\ \A c \in Device : c # d => store'[c] = store[c]
  BY DEF SyncInv, Kept
<1>3. DOMAIN choosing' = Device /\ \A c \in Device : choosing'[c] \in {choosing[c], None}
  BY DEF SyncInv, Kept
<1>4. Recorded(db)' /\ Recorded(backup)' /\ IssuedOk'
  BY <1>1 DEF SyncInv, Kept, Recorded, IssuedOk
<1>5. Onward
  BY <1>1, <1>2 DEF Onward, SyncInv, Kept, Recorded, DbInv, DbType
<1>6. ASSUME NEW c \in Device
      PROVE  StoreOk(c)' /\ ChoosingOk(c)'
  <2>1. StoreOk(c) /\ ChoosingOk(c)
    BY DEF SyncInv, Kept
  <2>2. CASE c # d
    <3>1. store'[c] = store[c]
      BY <1>2, <2>2
    <3>2. StoreOk(c)'
      BY <1>1, <2>1, <3>1 DEF StoreOk, StoreType, QueueType
    <3> QED
      BY <1>3, <2>1, <3>1, <3>2 DEF ChoosingOk
  <2>3. CASE c = d
    <3>1. store'[c] = w
      BY <1>2, <2>3
    <3>2. ChoosingOk(c)'
      BY <1>3, <2>1, <2>3, <3>1 DEF ChoosingOk
    <3>3. StoreOk(d)
      BY <2>1, <2>3
    <3>4. ASSUME NEW i \in DOMAIN w.outbox
          PROVE  /\ w.outbox[i].op.id \in DOMAIN issued
                 /\ w.outbox[i].state = "pending" =>
                      issued[w.outbox[i].op.id].epoch = w.epoch
      <4>1. PICK j \in DOMAIN store[d].outbox :
              /\ w.outbox[i].op = store[d].outbox[j].op
              /\ w.outbox[i].state = "pending" => store[d].outbox[j].state = "pending"
        BY DEF Follows
      <4>2. store[d].epoch # None
        BY <3>3, <4>1 DEF StoreOk
      <4> QED
        BY <3>3, <4>1, <4>2 DEF StoreOk, NothingPending
    <3>5. w.epoch = None => DOMAIN w.outbox = {}
      BY <3>3 DEF StoreOk, Follows
    <3>6. StoreType(w, d)
      OBVIOUS
    <3>7. StoreOk(c)'
      BY <1>1, <2>3, <3>1, <3>4, <3>5, <3>6 DEF StoreOk, StoreType, QueueType
    <3> QED
      BY <3>2, <3>7
  <2> QED
    BY <2>2, <2>3
<1>7. ASSUME NEW id \in DOMAIN issued
      PROVE  \/ id \in Queued(store'[issued[id].op.device])
             \/ id \in replaced'
             \/ id \in settled' /\ (id \in DOMAIN db.processed \/ issued[id].epoch # db.epoch)
  <2>1. \/ id \in Queued(store[issued[id].op.device])
        \/ id \in replaced
        \/ id \in settled /\ (id \in DOMAIN db.processed \/ issued[id].epoch # db.epoch)
    BY DEF SyncInv, Kept, LocalWorkIsKept
  <2>2. issued[id].op.device \in Device
    BY DEF SyncInv, Kept, IssuedOk
  <2>3. CASE issued[id].op.device # d
    <3>1. store'[issued[id].op.device] = store[issued[id].op.device]
      BY <1>2, <2>2, <2>3
    <3> QED
      BY <2>1, <3>1
  <2>4. CASE issued[id].op.device = d
    <3>1. Queued(store[d]) \subseteq Queued(w) \cup gone
      BY DEF Follows
    <3>2. store'[issued[id].op.device] = w
      BY <1>2, <2>4
    <3>3. id \in gone => \/ id \in replaced'
                         \/ id \in settled' /\ (id \in DOMAIN db.processed
                                                \/ issued[id].epoch # db.epoch)
      BY DEF Landed
    <3> QED
      BY <2>1, <2>4, <3>1, <3>2, <3>3
  <2> QED
    BY <2>3, <2>4
<1>8. LocalWorkIsKept'
  BY <1>1, <1>7 DEF LocalWorkIsKept, Queued
<1>9. DeviceStep
  <2>1. ASSUME NEW c \in Device
        PROVE  \E g : Follows(store[c], store'[c], g)
    <3>1. PICK s : s = store[c]
      OBVIOUS
    <3>2. StoreType(s, c)
      BY <3>1 DEF SyncInv, Kept, StoreOk
    <3>3. Follows(s, s, {})
      BY <3>2, FollowsItself
    <3>4. CASE c = d
      BY <1>2, <3>4
    <3>5. CASE c # d
      BY <1>2, <3>1, <3>3, <3>5
    <3> QED
      BY <3>4, <3>5
  <2> QED
    BY <1>1, <2>1 DEF DeviceStep
<1> QED
  BY <1>2, <1>3, <1>4, <1>5, <1>6, <1>8, <1>9 DEF Kept

\* A device issues an operation of its own and queues it.
LEMMA Issues ==
  ASSUME SyncInv, NEW d \in Device, NEW op \in Operation, NEW w, NEW gone,
         op.id \in Fresh(d), op.device = d, op.deps \subseteq Queued(store[d]), Issue(d, op),
         store[d].epoch # None, Queues(store[d], w, d, gone, op),
         store' = [store EXCEPT ![d] = w],
         \A id \in gone : id \in replaced',
         replaced \subseteq replaced', replaced' \subseteq OpId,
         UNCHANGED <<server, settled>>,
         choosing' = choosing \/ choosing' = [choosing EXCEPT ![d] = None]
  PROVE  Kept' /\ Onward /\ DeviceStep
<1> DEFINE told == [op |-> op, epoch |-> store[d].epoch]
<1>1. UNCHANGED db /\ UNCHANGED backup /\ UNCHANGED settled
  BY DEF server
<1>2. /\ DOMAIN store' = Device /\ store'[d] = w
      /\ \A c \in Device : c # d => store'[c] = store[c]
  BY DEF SyncInv, Kept
<1>3. DOMAIN choosing' = Device /\ \A c \in Device : choosing'[c] \in {choosing[c], None}
  BY DEF SyncInv, Kept
<1>4. op.id \in Draws[d] /\ op.id \notin DOMAIN issued /\ op.id \in OpId
  BY SyncAssumption DEF Fresh
<1>5. /\ DOMAIN issued' = DOMAIN issued \cup {op.id}
      /\ issued'[op.id] = told
      /\ \A id \in DOMAIN issued : issued'[id] = issued[id]
  <2>1. issued' = Put(issued, op.id, told)
    BY DEF Issue
  <2> HIDE DEF told
  <2> QED
    BY <1>4, <2>1 DEF Put
<1>6. told.op = op /\ told.epoch = store[d].epoch
  OBVIOUS
<1> HIDE DEF told
<1>7. store[d].epoch \in Nat /\ store[d].epoch <= db.epoch
  BY DEF SyncInv, Kept, StoreOk, StoreType
<1>8. ASSUME NEW x, Recorded(x)
      PROVE  \A i \in DOMAIN x.changes :
               /\ x.changes[i].id \in OpId => x.changes[i].id \in DOMAIN issued' \cup LifecycleId
               /\ x.changes[i].id \in DOMAIN issued' =>
                    x.changes[i].epoch = issued'[x.changes[i].id].epoch
  <2> SUFFICES ASSUME NEW i \in DOMAIN x.changes
               PROVE  /\ x.changes[i].id \in OpId =>
                           x.changes[i].id \in DOMAIN issued' \cup LifecycleId
                      /\ x.changes[i].id \in DOMAIN issued' =>
                           x.changes[i].epoch = issued'[x.changes[i].id].epoch
    OBVIOUS
  <2>1. /\ x.changes[i].id \in OpId => x.changes[i].id \in DOMAIN issued \cup LifecycleId
        /\ x.changes[i].id \in DOMAIN issued =>
             x.changes[i].epoch = issued[x.changes[i].id].epoch
    BY <1>8 DEF Recorded
  <2>2. x.changes[i].id # op.id
    BY <1>4, <2>1, SyncAssumption
  <2> QED
    BY <1>5, <2>1, <2>2
<1>9. Recorded(db)' /\ Recorded(backup)'
  <2>1. PICK x : x = db
    OBVIOUS
  <2>2. PICK y : y = backup
    OBVIOUS
  <2>3. Recorded(x) /\ Recorded(y)
    BY <2>1, <2>2 DEF SyncInv, Kept
  <2>4. Recorded(x)' /\ Recorded(y)'
    BY <1>8, <2>3 DEF Recorded
  <2>5. db' = x /\ backup' = y
    BY <1>1, <2>1, <2>2
  <2> QED
    BY <2>4, <2>5 DEF Recorded
<1>10. IssuedOk'
  BY <1>1, <1>4, <1>5, <1>6, <1>7 DEF SyncInv, Kept, IssuedOk
<1>11. Onward
  <2>1. \A n \in Nat : n <= n
    OBVIOUS
  <2>2. db.epoch \in Nat
    BY DEF SyncInv, Kept, Recorded, DbInv, DbType
  <2>3. w.epoch = store[d].epoch
    BY DEF Queues
  <2> QED
    BY <1>1, <1>2, <1>5, <2>1, <2>2, <2>3 DEF Onward
<1>12. ASSUME NEW c \in Device
       PROVE  StoreOk(c)' /\ ChoosingOk(c)'
  <2>1. StoreOk(c) /\ ChoosingOk(c)
    BY DEF SyncInv, Kept
  <2>2. CASE c # d
    <3>1. store'[c] = store[c]
      BY <1>2, <2>2
    <3>2. \A id \in DOMAIN issued : id \in DOMAIN issued' /\ issued'[id] = issued[id]
      BY <1>5
    <3>3. StoreOk(c)'
      BY <1>1, <2>1, <3>1, <3>2 DEF StoreOk, StoreType, QueueType
    <3> QED
      BY <1>3, <2>1, <3>1, <3>3 DEF ChoosingOk
  <2>3. CASE c = d
    <3>1. store'[c] = w /\ w.epoch = store[d].epoch /\ StoreType(w, d)
      BY <1>2, <2>3 DEF Queues
    <3>2. ChoosingOk(c)'
      BY <1>3, <2>1, <2>3, <3>1 DEF ChoosingOk
    <3>3. StoreOk(d)
      BY <2>1, <2>3
    <3>4. ASSUME NEW i \in DOMAIN w.outbox
          PROVE  /\ w.outbox[i].op.id \in DOMAIN issued'
                 /\ w.outbox[i].state = "pending" =>
                      issued'[w.outbox[i].op.id].epoch = w.epoch
      <4>1. CASE w.outbox[i].op = op
        BY <1>5, <1>6, <3>1, <4>1
      <4>2. CASE w.outbox[i].op # op
        <5>1. PICK j \in DOMAIN store[d].outbox :
                /\ w.outbox[i].op = store[d].outbox[j].op
                /\ w.outbox[i].state = "pending" => store[d].outbox[j].state = "pending"
          BY <4>2 DEF Queues
        <5> QED
          BY <1>5, <3>1, <3>3, <5>1 DEF StoreOk
      <4> QED
        BY <4>1, <4>2
    <3>5. w.epoch # None => w.epoch <= db.epoch
      BY <1>7, <3>1
    <3>7. StoreOk(c)'
      BY <1>1, <2>3, <3>1, <3>4, <3>5 DEF StoreOk, StoreType, QueueType
    <3> QED
      BY <3>2, <3>7
  <2> QED
    BY <2>2, <2>3
<1>13. ASSUME NEW id \in DOMAIN issued'
       PROVE  \/ id \in Queued(store'[issued'[id].op.device])
              \/ id \in replaced'
              \/ id \in settled /\ (id \in DOMAIN db.processed \/ issued'[id].epoch # db.epoch)
  <2>5. Queued(store[d]) \cup {op.id} \subseteq Queued(w) \cup gone
    BY DEF Queues
  <2>6. CASE id = op.id
    BY <1>2, <1>5, <1>6, <2>5, <2>6
  <2>7. CASE id # op.id
    <3>1. id \in DOMAIN issued /\ issued'[id] = issued[id]
      BY <1>5, <1>13, <2>7
    <3>2. \/ id \in Queued(store[issued[id].op.device])
          \/ id \in replaced
          \/ id \in settled /\ (id \in DOMAIN db.processed \/ issued[id].epoch # db.epoch)
      BY <3>1 DEF SyncInv, Kept, LocalWorkIsKept
    <3>3. issued[id].op.device \in Device
      BY <3>1 DEF SyncInv, Kept, IssuedOk
    <3>4. CASE issued[id].op.device # d
      <4>1. store'[issued[id].op.device] = store[issued[id].op.device]
        BY <1>2, <3>3, <3>4
      <4> QED
        BY <3>1, <3>2, <4>1
    <3>5. CASE issued[id].op.device = d
      BY <1>2, <2>5, <3>1, <3>2, <3>5
    <3> QED
      BY <3>4, <3>5
  <2> QED
    BY <2>6, <2>7
<1>14. LocalWorkIsKept'
  BY <1>1, <1>13 DEF LocalWorkIsKept, Queued
<1>15. DeviceStep
  <2>1. Grown(d, op)
    BY <1>2 DEF Grown
  <2> QED
    BY <1>1, <2>1 DEF DeviceStep
<1> QED
  BY <1>1, <1>2, <1>3, <1>9, <1>10, <1>11, <1>12, <1>14, <1>15 DEF SyncInv, Kept

-----------------------------------------------------------------------------
(* The actions.                                                            *)

\* An edit.
LEMMA EditKeeps ==
  ASSUME SyncInv, NEW d \in Device, NEW e \in Entity, NEW type \in Edits, Edit(d, e, type)
  PROVE  SyncInv' /\ Onward /\ DeviceStep /\ StoresStand
<1>1. PICK s : s = store[d]
  OBVIOUS
<1>2. StoreType(s, d) /\ s.epoch # None
  BY <1>1 DEF SyncInv, Kept, StoreOk, Edit, CanResume
<1>3. PICK id : id = CHOOSE x \in Fresh(d) : TRUE
  OBVIOUS
<1>4. id \in Fresh(d)
  BY <1>3 DEF Edit
<1>5. id \in OpId /\ id \notin Queued(s)
  BY <1>1, <1>4, SyncAssumption DEF Fresh, Queued, SyncInv, Kept, StoreOk
<1>6. PICK op : op = Mutation(s, d, id, type, e)
  OBVIOUS
<1>7. op \in Operation /\ op.device = d /\ op.id = id /\ op.deps \subseteq Queued(s)
  <2>1. op \in Operation /\ op.deps \subseteq Queued(s)
    BY <1>2, <1>5, <1>6, MutationTyped
  <2> QED
    BY <1>6, <2>1 DEF Mutation
<1>8. PICK w : w = Commit(s, op)
  OBVIOUS
<1>16. PICK gone : gone = {}
  OBVIOUS
<1>9. Queues(s, w, d, gone, op)
  BY <1>2, <1>5, <1>7, <1>8, <1>16, CommitQueues
<1>10. store' = [store EXCEPT ![d] = w] /\ Issue(d, op)
  BY <1>1, <1>3, <1>6, <1>8 DEF Edit
<1>11. UNCHANGED <<server, settled>> /\ choosing' = choosing /\ replaced' = replaced
       /\ UNCHANGED cycle /\ late' \subseteq late
  BY DEF Edit
<1>12. replaced' \subseteq OpId
  BY <1>11 DEF SyncInv, Kept
<1>13. Queues(store[d], w, d, gone, op) /\ store[d].epoch # None
  BY <1>1, <1>2, <1>9
<1>14. replaced \subseteq replaced' /\ \A x \in gone : x \in replaced'
  BY <1>11, <1>16
<1>15. Kept' /\ Onward /\ DeviceStep
  BY <1>1, <1>4, <1>7, <1>10, <1>11, <1>12, <1>13, <1>14, Issues
<1>17. StoresStand
  <2>1. Queued(store[d]) \subseteq Queued(w) \cup gone
    BY <1>13 DEF Queues
  <2>2. w.epoch = store[d].epoch /\ w.cursor = store[d].cursor
    BY <1>13 DEF Queues
  <2>3. PICK more : more = replaced'
    OBVIOUS
  <2>4. \A c \in Device : Stands(c, more)
    BY <1>10, <1>14, <2>1, <2>2, <2>3, OneStands
  <2> QED
    BY <2>3, <2>4 DEF StoresStand
<1> QED
  BY <1>11, <1>15, <1>17, CyclesRest, SentStays DEF SyncInv

\* The server rests and no store moves: a cycle or a choice does.
LEMMA StoresRest ==
  ASSUME SyncInv, UNCHANGED <<server, store, history>>,
         DOMAIN choosing' = Device, \A d \in Device : ChoosingOk(d)'
  PROVE  Kept' /\ Onward /\ DeviceStep
<1>1. /\ UNCHANGED db /\ UNCHANGED backup /\ UNCHANGED store /\ UNCHANGED issued
      /\ UNCHANGED replaced /\ UNCHANGED settled
  BY DEF server, history
<1>2. Onward
  BY <1>1 DEF Onward, SyncInv, Kept, Recorded, DbInv, DbType
<1>3. Recorded(db)' /\ Recorded(backup)' /\ IssuedOk'
  BY <1>1 DEF SyncInv, Kept, Recorded, IssuedOk
<1>4. ASSUME NEW d \in Device
      PROVE  StoreOk(d)'
  <2>1. StoreOk(d)
    BY DEF SyncInv, Kept
  <2> QED
    BY <1>1, <2>1 DEF StoreOk, StoreType, QueueType
<1>5. LocalWorkIsKept'
  BY <1>1 DEF SyncInv, Kept, LocalWorkIsKept, Queued
<1>6. DeviceStep
  BY <1>1, StoresFollow DEF DeviceStep
<1> QED
  BY <1>1, <1>2, <1>3, <1>4, <1>5, <1>6 DEF SyncInv, Kept

\* Only a cycle moves.
LEMMA ChoicesRest ==
  ASSUME SyncInv, UNCHANGED <<server, store, history>>, UNCHANGED choosing
  PROVE  Kept' /\ Onward /\ DeviceStep
<1>1. UNCHANGED store
  OBVIOUS
<1>2. DOMAIN choosing' = Device
  BY DEF SyncInv, Kept
<1>3. ASSUME NEW d \in Device
      PROVE  ChoosingOk(d)'
  <2>1. ChoosingOk(d)
    BY DEF SyncInv, Kept
  <2> QED
    BY <1>1, <2>1 DEF ChoosingOk, Known
<1> QED
  BY <1>2, <1>3, StoresRest

\* A choice is read from an open conflict.
LEMMA ChooseResolutionKeeps ==
  ASSUME SyncInv, NEW d \in Device, NEW c, NEW choice, ChooseResolution(d, c, choice)
  PROVE  SyncInv' /\ Onward /\ DeviceStep
<1> DEFINE chosen == [id |-> c, choice |-> choice, conflict |-> store[d].conflicts[c]]
<1>1. /\ c \in DOMAIN store[d].conflicts /\ choice \in ResolutionChoices
      /\ choosing' = [choosing EXCEPT ![d] = chosen]
  BY SyncAssumption DEF ChooseResolution
<1>2. UNCHANGED <<server, store, history>> /\ UNCHANGED cycle /\ UNCHANGED late
      /\ UNCHANGED store
  BY DEF ChooseResolution
<1>3. chosen.id = c /\ chosen.choice = choice /\ chosen.conflict = store[d].conflicts[c]
  OBVIOUS
<1> HIDE DEF chosen
<1>4. DOMAIN choosing' = Device
  BY <1>1 DEF SyncInv, Kept
<1>5. ASSUME NEW x \in Device
      PROVE  ChoosingOk(x)'
  <2>1. CASE x = d
    <3>1. StoreOk(d)
      BY DEF SyncInv, Kept
    <3>2. Known(c, store[d].conflicts[c]) /\ store[d].epoch # None
      BY <1>1, <3>1 DEF StoreOk, StoreType
    <3>3. choosing'[x] = chosen
      BY <1>1, <2>1 DEF SyncInv, Kept
    <3> QED
      BY <1>1, <1>2, <1>3, <2>1, <3>2, <3>3 DEF ChoosingOk, Known
  <2>2. CASE x # d
    <3>1. ChoosingOk(x) /\ choosing'[x] = choosing[x]
      BY <1>1, <2>2 DEF SyncInv, Kept
    <3> QED
      BY <1>2, <3>1 DEF ChoosingOk, Known
  <2> QED
    BY <2>1, <2>2
<1>6. Kept' /\ Onward /\ DeviceStep
  BY <1>2, <1>4, <1>5, StoresRest
<1> QED
  BY <1>2, <1>6, CyclesRest, SentStays DEF SyncInv

\* A resolution is written as it was chosen.
LEMMA CommitResolutionKeeps ==
  ASSUME SyncInv, NEW d \in Device, CommitResolution(d)
  PROVE  SyncInv' /\ Onward /\ DeviceStep /\ StoresStand
<1>1. PICK s : s = store[d]
  OBVIOUS
<1>2. PICK c : c = choosing[d].id
  OBVIOUS
<1>3. PICK choice : choice = choosing[d].choice
  OBVIOUS
<1>4. PICK conflict : conflict = choosing[d].conflict
  OBVIOUS
<1>5. PICK id : id = CHOOSE x \in Fresh(d) : TRUE
  OBVIOUS
<1>6. StoreOk(d) /\ ChoosingOk(d) /\ choosing[d] # None
  BY DEF SyncInv, Kept, CommitResolution
<1>7. /\ StoreType(s, d) /\ s.epoch # None /\ choice \in ResolutionChoices
      /\ Known(c, conflict)
  BY <1>1, <1>2, <1>3, <1>4, <1>6 DEF StoreOk, ChoosingOk
<1>8. PICK gone : gone = Replaced(s, conflict)
  OBVIOUS
<1>9. PICK w : w = QueueResolution(s, d, id, c, conflict, choice)
  OBVIOUS
<1>10. PICK op : op = ResolutionOp(d, id, c, conflict, choice)
  OBVIOUS
<1>12. /\ Fresh(d) # {} \/ TakesRemoteLocally(conflict, choice)
       /\ store' = [store EXCEPT ![d] = w] /\ replaced' = replaced \cup gone
       /\ IF TakesRemoteLocally(conflict, choice) THEN UNCHANGED issued
          ELSE Issue(d, op)
       /\ choosing' = [choosing EXCEPT ![d] = None]
       /\ UNCHANGED <<server, cycle, late, settled>>
  BY <1>1, <1>2, <1>3, <1>4, <1>5, <1>8, <1>9, <1>10 DEF CommitResolution
<1>13. UNCHANGED cycle /\ late' \subseteq late /\ UNCHANGED server /\ UNCHANGED settled
  BY <1>12
<1>14. gone \subseteq OpId
  <2>1. s.outbox \in Seq(Entry)
    BY <1>7 DEF StoreType, QueueType
  <2>2. \A i \in DOMAIN s.outbox : s.outbox[i] \in Entry
    BY <2>1
  <2> QED
    BY <1>8, <2>2 DEF Replaced, Related, Entry, Operation
<1>15. /\ replaced \subseteq replaced' /\ replaced' \subseteq OpId
       /\ settled \subseteq settled' /\ settled' \subseteq OpId
       /\ \A x \in gone : x \in replaced'
  BY <1>12, <1>13, <1>14 DEF SyncInv, Kept
<1> DEFINE Stood(x) == /\ x.epoch = store[d].epoch /\ x.cursor = store[d].cursor
                      /\ Queued(store[d]) \subseteq Queued(x) \cup gone
<1>18. Stood(w) => StoresStand
  <2> SUFFICES ASSUME Stood(w) PROVE StoresStand
    OBVIOUS
  <2>1. PICK more : more = replaced'
    OBVIOUS
  <2>2. \A x \in Device : Stands(x, more)
    BY <1>12, <1>15, <2>1, OneStands
  <2> QED
    BY <2>1, <2>2 DEF StoresStand
<1>16. CASE TakesRemoteLocally(conflict, choice)
  <2>2. Leaves(s, w, d, gone)
    BY <1>7, <1>8, <1>9, <1>16, QueueResolutionQueues
  <2>3. /\ StoreType(w, d) /\ w.epoch = store[d].epoch
        /\ Follows(store[d], w, gone) /\ store[d].epoch # None
    BY <1>1, <1>7, <2>2 DEF Leaves
  <2>4. w.epoch # None => w.epoch <= db.epoch
    BY <1>6, <2>3 DEF StoreOk
  <2>5. \A x \in gone : x \in replaced' \/ (x \in settled' /\ Landed(x))
    BY <1>15
  <2>6. UNCHANGED <<server, issued>>
    BY <1>12, <1>13, <1>16
  <2>7. Kept' /\ Onward /\ DeviceStep
    BY <1>12, <1>15, <2>3, <2>4, <2>5, <2>6, StoreMoves
  <2>8. Stood(w)
    BY <1>1, <2>2 DEF Leaves, Follows
  <2> QED
    BY <1>13, <1>18, <2>7, <2>8, CyclesRest, SentStays DEF SyncInv
<1>17. CASE ~TakesRemoteLocally(conflict, choice)
  <2>1. id \in Fresh(d) /\ Issue(d, op)
    BY <1>5, <1>12, <1>17
  <2>2. id \in OpId /\ id \notin Queued(s)
    BY <1>1, <1>6, <2>1, SyncAssumption DEF Fresh, Queued, StoreOk
  <2>3. op \in Operation /\ op.device = d /\ op.id = id /\ op.deps = {}
    <3>1. op \in Operation
      BY <1>7, <1>10, <2>2, ResolutionTyped
    <3> QED
      BY <1>10, <3>1 DEF ResolutionOp
  <2>4. Queues(s, w, d, gone, op)
    BY <1>7, <1>8, <1>9, <1>10, <1>17, <2>2, QueueResolutionQueues
  <2>5. Queues(store[d], w, d, gone, op) /\ store[d].epoch # None
    BY <1>1, <1>7, <2>4
  <2>6. UNCHANGED <<server, settled>>
    BY <1>13
  <2>7. Kept' /\ Onward /\ DeviceStep
    BY <1>12, <1>15, <2>1, <2>3, <2>5, <2>6, Issues
  <2>8. Stood(w)
    BY <2>5 DEF Queues
  <2> QED
    BY <1>13, <1>18, <2>7, <2>8, CyclesRest, SentStays DEF SyncInv
<1> QED
  BY <1>16, <1>17

\* A conflict is dismissed.
LEMMA DismissConflictKeeps ==
  ASSUME SyncInv, NEW d \in Device, NEW c, DismissConflict(d, c)
  PROVE  SyncInv' /\ Onward /\ DeviceStep /\ StoresStand
<1>1. PICK s : s = store[d]
  OBVIOUS
<1>2. PICK w : w = Dismiss(s, c)
  OBVIOUS
<1>3. PICK gone : gone = {}
  OBVIOUS
<1>4. /\ c \in DOMAIN s.conflicts /\ store' = [store EXCEPT ![d] = w]
      /\ UNCHANGED <<server, choosing, cycle, late, history>>
  BY <1>1, <1>2 DEF DismissConflict
<1>5. StoreOk(d)
  BY DEF SyncInv, Kept
<1>6. StoreType(s, d) /\ s.epoch # None
  BY <1>1, <1>4, <1>5 DEF StoreOk
<1>7. Leaves(s, w, d, gone)
  BY <1>2, <1>3, <1>6, SetConflictLeaves DEF Dismiss, ConflictStatus
<1>8. /\ StoreType(w, d) /\ Follows(store[d], w, gone)
      /\ w.epoch = store[d].epoch /\ w.epoch # None
  BY <1>1, <1>6, <1>7 DEF Leaves
<1>9. w.epoch # None => w.epoch <= db.epoch
  BY <1>5, <1>8 DEF StoreOk
<1>10. /\ replaced' = replaced /\ settled' = settled /\ choosing' = choosing
       /\ UNCHANGED cycle /\ late' \subseteq late /\ UNCHANGED <<server, issued>>
  BY <1>4 DEF history
<1>11. /\ replaced \subseteq replaced' /\ replaced' \subseteq OpId
       /\ settled \subseteq settled' /\ settled' \subseteq OpId
       /\ \A x \in gone : x \in replaced' \/ (x \in settled' /\ Landed(x))
  BY <1>3, <1>10 DEF SyncInv, Kept
<1>12. Kept' /\ Onward /\ DeviceStep
  BY <1>4, <1>8, <1>9, <1>10, <1>11, StoreMoves
<1>13. StoresStand
  <2>1. /\ w.epoch = store[d].epoch /\ w.cursor = store[d].cursor
        /\ Queued(store[d]) \subseteq Queued(w) \cup gone
    BY <1>1, <1>7 DEF Leaves, Follows
  <2>2. PICK more : more = replaced'
    OBVIOUS
  <2>3. \A x \in Device : Stands(x, more)
    BY <1>3, <1>4, <2>1, OneStands
  <2> QED
    BY <2>2, <2>3 DEF StoresStand
<1> QED
  BY <1>10, <1>12, <1>13, CyclesRest, SentStays DEF SyncInv

\* The server answers with a snapshot of what it has.
LEMMA RequestBootstrapKeeps ==
  ASSUME SyncInv, NEW t \in Tab, RequestBootstrap(t)
  PROVE  SyncInv' /\ Onward /\ DeviceStep
<1>1. PICK y : y = [at |-> "activate", snapshot |-> Snapshot(db)]
  OBVIOUS
<1>2. /\ cycle' = [cycle EXCEPT ![t] = y]
      /\ UNCHANGED <<server, store, history>> /\ UNCHANGED choosing /\ late' \subseteq late
      /\ UNCHANGED server
  BY <1>1 DEF RequestBootstrap, Moves
<1>3. Kept' /\ Onward /\ DeviceStep
  BY <1>2, ChoicesRest
<1>4. y.at = "activate" /\ y.snapshot = Snapshot(db)
  BY <1>1
<1>5. DbInv(db) /\ db.epoch \in Nat
  BY DEF SyncInv, Kept, Recorded, DbInv, DbType
<1>6. ToldSnapshot(y.snapshot) /\ y.snapshot.epoch = db.epoch /\ db.epoch <= db.epoch
  BY <1>4, <1>5, SnapshotTyped DEF ToldSnapshot
<1>7. Hand(t, y)
  BY <1>4, <1>6 DEF Hand
<1>8. Hand(t, y)'
  BY <1>3, <1>7, HandStays
<1> QED
  BY <1>2, <1>3, <1>8, CycleMoves, SentStays DEF SyncInv

\* A cycle takes what is ready.
LEMMA StartCycleKeeps ==
  ASSUME SyncInv, NEW t \in Tab, StartCycle(t)
  PROVE  SyncInv' /\ Onward /\ DeviceStep
<1> DEFINE d == DeviceOf[t]
<1>1. PICK s : s = store[d]
  OBVIOUS
<1>2. PICK ops : ops = Ready(s)
  OBVIOUS
<1>3. PICK y : y = IF ops = <<>> THEN [at |-> "pull"]
                   ELSE [at |-> "push", ops |-> ops, epoch |-> s.epoch]
  OBVIOUS
<1>4. /\ cycle' = [cycle EXCEPT ![t] = y]
      /\ UNCHANGED <<server, store, history>> /\ UNCHANGED choosing /\ late' \subseteq late
      /\ s.epoch # None
  BY <1>1, <1>2, <1>3 DEF StartCycle, Moves, Here, CanResume
<1>5. Kept' /\ Onward /\ DeviceStep
  BY <1>4, ChoicesRest
<1>6. d \in Device
  BY SyncAssumption
<1>7. StoreOk(d)
  BY <1>6 DEF SyncInv, Kept
<1>8. StoreType(s, d)
  BY <1>1, <1>7 DEF StoreOk
<1>9. /\ ops \in Seq(Operation)
      /\ \A k \in DOMAIN ops : \E i \in DOMAIN s.outbox :
           ops[k] = s.outbox[i].op /\ s.outbox[i].state = "pending"
  BY <1>2, <1>8, ReadyIsQueued
<1>10. Batch(ops, s.epoch)
  BY <1>1, <1>7, <1>9 DEF Batch, StoreOk
<1>11. Here(t).epoch # None
  BY <1>1, <1>4 DEF Here
<1>12. Hand(t, y)
  <2>1. CASE ops = <<>>
    <3>1. y.at = "pull"
      BY <1>3, <2>1
    <3> QED
      BY <1>11, <3>1 DEF Hand
  <2>2. CASE ops # <<>>
    <3>1. y.at = "push" /\ y.ops = ops /\ y.epoch = s.epoch
      BY <1>3, <2>2
    <3> QED
      BY <1>10, <1>11, <3>1 DEF Hand
  <2> QED
    BY <2>1, <2>2
<1>13. Hand(t, y)'
  BY <1>5, <1>12, HandStays
<1> QED
  BY <1>4, <1>5, <1>13, CycleMoves, SentStays DEF SyncInv

\* A cycle whose hands are empty, or that is about to ask for a page.
LEMMA HandEmpty == \A t \in Tab : Hand(t, Idle)
  BY DEF Hand, Idle

LEMMA HandPull ==
  ASSUME NEW t \in Tab, (Here(t).epoch # None)'
  PROVE  \A y : y = [at |-> "pull"] => Hand(t, y)'
  BY DEF Hand

\* A bootstrap is taken.
LEMMA ActivateSnapshotKeeps ==
  ASSUME SyncInv, NEW t \in Tab, ActivateSnapshot(t)
  PROVE  SyncInv' /\ Onward /\ DeviceStep /\ TakesIn(t)
<1>13. PICK d \in Device : d = DeviceOf[t]
  BY SyncAssumption
<1>1. PICK s : s = store[d]
  OBVIOUS
<1>2. PICK snapshot : snapshot = cycle[t].snapshot
  OBVIOUS
<1>3. PICK w : w = Activate(s, snapshot)
  OBVIOUS
<1>4. PICK gone : gone = {}
  OBVIOUS
<1>5. PICK y : y = Idle
  OBVIOUS
<1>6. /\ cycle[t].at = "activate" /\ store' = [store EXCEPT ![d] = w]
      /\ cycle' = [cycle EXCEPT ![t] = y]
      /\ UNCHANGED <<server, choosing, late, history>>
  BY <1>1, <1>2, <1>3, <1>5, <1>13 DEF ActivateSnapshot, Stores, Moves, Here
<1>7. /\ replaced' = replaced /\ settled' = settled /\ choosing' = choosing
      /\ late' \subseteq late /\ UNCHANGED <<server, issued>>
  BY <1>6 DEF history
<1>8. StoreOk(d) /\ StoreType(s, d)
  BY <1>1 DEF SyncInv, Kept, StoreOk
<1>9. ToldSnapshot(snapshot) /\ snapshot.epoch <= db.epoch /\ snapshot.epoch \in Nat
  BY <1>2, <1>6 DEF SyncInv, Hands, Hand, ToldSnapshot
<1>10. /\ StoreType(w, d) /\ Follows(store[d], w, gone) /\ w.conflicts = store[d].conflicts
       /\ w = store[d] \/ (w.epoch = snapshot.epoch /\ w.cursor = snapshot.cursor)
       /\ w.epoch = store[d].epoch \/ store[d].epoch = None \/ NothingPending(w)
  BY <1>1, <1>3, <1>4, <1>8, <1>9, ActivateKeeps
<1>11. /\ store[d].epoch # None => w.epoch # None
       /\ w.epoch # None => w.epoch <= db.epoch
       /\ w.epoch = None => DOMAIN w.conflicts = {}
  BY <1>8, <1>9, <1>10, SyncAssumption DEF StoreOk
<1>12. /\ replaced \subseteq replaced' /\ replaced' \subseteq OpId
       /\ settled \subseteq settled' /\ settled' \subseteq OpId
       /\ \A x \in gone : x \in replaced' \/ (x \in settled' /\ Landed(x))
  BY <1>4, <1>7 DEF SyncInv, Kept
<1>14. Kept' /\ Onward /\ DeviceStep
  BY <1>6, <1>7, <1>10, <1>11, <1>12, StoreMoves
<1>15. Hand(t, y)'
  BY <1>5, <1>14, HandEmpty, HandStays
<1>16. TakesIn(t)
  <2>1. store'[d] = w /\ \A c \in Device : c # d => Stands(c, {})
    BY <1>6, OthersStand
  <2>2. Queued(store[d]) \subseteq Queued(store'[d])
    BY <1>4, <1>10, <2>1 DEF Follows
  <2>3. w = store[d] => Stands(d, {})
    BY <2>1 DEF Stands
  <2>4. cycle'[t].at = "idle"
    BY <1>5, <1>6 DEF Idle, SyncInv, Hands
  <2> QED
    BY <1>2, <1>6, <1>7, <1>10, <1>13, <2>1, <2>2, <2>3, <2>4 DEF TakesIn
<1> QED
  BY <1>6, <1>7, <1>14, <1>15, <1>16, CycleMoves, SentStays DEF SyncInv

\* The server tells a device to bootstrap again.
LEMMA ReceiveControlKeeps ==
  ASSUME SyncInv, NEW t \in Tab, ReceiveControl(t)
  PROVE  SyncInv' /\ Onward /\ DeviceStep /\ StoresStand
<1>13. PICK d \in Device : d = DeviceOf[t]
  BY SyncAssumption
<1>1. PICK s : s = store[d]
  OBVIOUS
<1>3. PICK w : w = ApplyControl(s)
  OBVIOUS
<1>4. PICK gone : gone = {}
  OBVIOUS
<1>5. PICK y : y = Idle
  OBVIOUS
<1>6. /\ cycle[t].at = "control" /\ store' = [store EXCEPT ![d] = w]
      /\ cycle' = [cycle EXCEPT ![t] = y]
      /\ UNCHANGED <<server, choosing, late, history>>
  BY <1>1, <1>3, <1>5, <1>13 DEF ReceiveControl, Stores, Moves, Here
<1>7. /\ replaced' = replaced /\ settled' = settled /\ choosing' = choosing
      /\ late' \subseteq late /\ UNCHANGED <<server, issued>>
  BY <1>6 DEF history
<1>8. StoreOk(d) /\ StoreType(s, d)
  BY <1>1 DEF SyncInv, Kept, StoreOk
<1>9. Here(t).epoch # None
  BY <1>6 DEF SyncInv, Hands, Hand
<1>2. /\ w.outbox = s.outbox /\ w.conflicts = s.conflicts
      /\ w.epoch = s.epoch /\ w.cursor = s.cursor
      /\ w.state = "rebootstrap_required" /\ DOMAIN w = DOMAIN s /\ w.entity = s.entity
  BY <1>3, <1>8 DEF ApplyControl, StoreType
<1>16. Leaves(s, w, d, gone)
  BY <1>2, <1>4, <1>8, QueueUntouched DEF StoreType, StoreState
<1>10. /\ StoreType(w, d) /\ Follows(store[d], w, gone)
       /\ w.epoch = store[d].epoch /\ w.epoch # None
  BY <1>1, <1>9, <1>13, <1>16 DEF Leaves, Here
<1>11. w.epoch # None => w.epoch <= db.epoch
  BY <1>8, <1>10 DEF StoreOk
<1>12. /\ replaced \subseteq replaced' /\ replaced' \subseteq OpId
       /\ settled \subseteq settled' /\ settled' \subseteq OpId
       /\ \A x \in gone : x \in replaced' \/ (x \in settled' /\ Landed(x))
  BY <1>4, <1>7 DEF SyncInv, Kept
<1>14. Kept' /\ Onward /\ DeviceStep
  BY <1>6, <1>7, <1>10, <1>11, <1>12, StoreMoves
<1>15. Hand(t, y)'
  BY <1>5, <1>14, HandEmpty, HandStays
<1>17. StoresStand
  <2>1. /\ w.epoch = store[d].epoch /\ w.cursor = store[d].cursor
        /\ Queued(store[d]) \subseteq Queued(w) \cup gone
    BY <1>1, <1>16 DEF Leaves, Follows
  <2>2. PICK more : more = replaced'
    OBVIOUS
  <2>3. \A x \in Device : Stands(x, more)
    BY <1>4, <1>6, <2>1, OneStands
  <2> QED
    BY <2>2, <2>3 DEF StoresStand
<1> QED
  BY <1>6, <1>7, <1>14, <1>15, <1>17, CycleMoves, SentStays DEF SyncInv

\* The answers to a batch are taken: what leaves the outbox is in the ledger.
LEMMA ReceiveResultsKeeps ==
  ASSUME SyncInv, NEW t \in Tab, ReceiveResults(t)
  PROVE  SyncInv' /\ Onward /\ DeviceStep /\ TakesIn(t)
<1>1. PICK d \in Device : d = DeviceOf[t]
  BY SyncAssumption
<1>2. PICK s : s = store[d]
  OBVIOUS
<1>3. PICK ops : ops = cycle[t].ops
  OBVIOUS
<1>4. PICK results : results = cycle[t].results
  OBVIOUS
<1>5. PICK w : w = ApplyPush(s, ops, results)
  OBVIOUS
<1>6. PICK gone : gone = {ops[i].id : i \in {j \in DOMAIN ops : Succeeded(results[j])}}
  OBVIOUS
<1>7. /\ cycle[t].at = "results"
      /\ UNCHANGED <<server, choosing, late, issued, replaced, overtaken>>
      /\ \/ /\ store' = [store EXCEPT ![d] = w]
            /\ cycle' = [cycle EXCEPT ![t] = [at |-> "pull"]]
            /\ settled' = settled \cup gone
         \/ cycle' = [cycle EXCEPT ![t] = Idle] /\ UNCHANGED <<store, settled>>
  <2> DEFINE taken == {cycle[t].ops[i].id : i \in {j \in DOMAIN cycle[t].ops :
                                                   Succeeded(cycle[t].results[j])}}
  <2>1. taken = gone
    BY <1>3, <1>4, <1>6
  <2>2. \/ /\ store' = [store EXCEPT ![DeviceOf[t]] =
                           ApplyPush(Here(t), cycle[t].ops, cycle[t].results)]
           /\ cycle' = [cycle EXCEPT ![t] = [at |-> "pull"]]
           /\ settled' = settled \cup taken
        \/ cycle' = [cycle EXCEPT ![t] = Idle] /\ UNCHANGED <<store, settled>>
    BY DEF ReceiveResults, Stores, Moves
  <2> HIDE DEF taken
  <2>3. ApplyPush(Here(t), cycle[t].ops, cycle[t].results) = w
    BY <1>1, <1>2, <1>3, <1>4, <1>5 DEF Here
  <2>4. /\ cycle[t].at = "results"
        /\ UNCHANGED <<server, choosing, late, issued, replaced, overtaken>>
    BY DEF ReceiveResults
  <2> QED
    BY <1>1, <2>1, <2>2, <2>3, <2>4
<1>8. /\ replaced' = replaced /\ choosing' = choosing /\ late' \subseteq late
      /\ UNCHANGED <<server, issued>> /\ UNCHANGED server /\ UNCHANGED issued
      /\ UNCHANGED overtaken
  BY <1>7
<1>9. Hand(t, cycle[t])
  BY DEF SyncInv, Hands
<1>10. /\ ops \in Seq(Operation) /\ AnswersTo(results, ops)
       /\ \A i \in DOMAIN ops : Succeeded(results[i]) => Landed(ops[i].id)
       /\ Here(t).epoch # None
  BY <1>3, <1>4, <1>7, <1>9 DEF Hand
<1>11. CASE cycle' = [cycle EXCEPT ![t] = Idle] /\ UNCHANGED <<store, settled>>
  <2>1. UNCHANGED <<server, store, history>> /\ UNCHANGED choosing
    BY <1>8, <1>11 DEF history
  <2>2. Kept' /\ Onward /\ DeviceStep
    BY <2>1, ChoicesRest
  <2>3. PICK y : y = Idle
    OBVIOUS
  <2>4. Hand(t, y)' /\ cycle' = [cycle EXCEPT ![t] = y]
    BY <1>11, <2>2, <2>3, HandEmpty, HandStays
  <2>5. \A c \in Device : Stands(c, {})
    BY <1>11 DEF Stands
  <2>6. Stands(d, {ops[i].id : i \in DOMAIN ops})
    BY <2>5 DEF Stands
  <2>7. cycle'[t].at = "idle"
    BY <1>11 DEF Idle, SyncInv, Hands
  <2>8. TakesIn(t)
    BY <1>1, <1>3, <1>7, <1>8, <2>5, <2>6, <2>7 DEF TakesIn
  <2> QED
    BY <1>8, <2>2, <2>4, <2>8, CycleMoves, SentStays DEF SyncInv
<1>12. CASE /\ store' = [store EXCEPT ![d] = w]
            /\ cycle' = [cycle EXCEPT ![t] = [at |-> "pull"]]
            /\ settled' = settled \cup gone
  <2>1. StoreOk(d) /\ StoreType(s, d)
    BY <1>2 DEF SyncInv, Kept, StoreOk
  <2>2. Leaves(s, w, d, gone)
    BY <1>5, <1>6, <1>10, <2>1, ApplyPushLeaves
  <2>3. /\ StoreType(w, d) /\ Follows(store[d], w, gone)
        /\ w.epoch = store[d].epoch /\ w.epoch # None
    BY <1>1, <1>2, <1>10, <2>2 DEF Leaves, Here
  <2>4. w.epoch # None => w.epoch <= db.epoch
    BY <2>1, <2>3 DEF StoreOk
  <2>5. gone \subseteq OpId /\ \A x \in gone : Landed(x)
    <3>1. \A i \in DOMAIN ops : ops[i] \in Operation
      BY <1>10
    <3> QED
      BY <1>6, <1>10, <3>1 DEF Operation
  <2>6. /\ replaced \subseteq replaced' /\ replaced' \subseteq OpId
        /\ settled \subseteq settled' /\ settled' \subseteq OpId
        /\ \A x \in gone : x \in replaced' \/ (x \in settled' /\ Landed(x))
    BY <1>8, <1>12, <2>5 DEF SyncInv, Kept
  <2>7. Kept' /\ Onward /\ DeviceStep
    BY <1>8, <1>12, <2>3, <2>4, <2>6, StoreMoves
  <2>8. PICK y : y = [at |-> "pull"]
    OBVIOUS
  <2>9. (Here(t).epoch # None)'
    BY <1>1, <1>12, <2>3 DEF Here, SyncInv, Kept
  <2>10. Hand(t, y)' /\ cycle' = [cycle EXCEPT ![t] = y]
    BY <1>12, <2>8, <2>9, HandPull
  <2>11. store'[d] = w /\ \A c \in Device : c # d => Stands(c, {})
    BY <1>12, OthersStand
  <2>12. Stands(d, {ops[i].id : i \in DOMAIN ops})
    <3>1. gone \subseteq {ops[i].id : i \in DOMAIN ops}
      BY <1>6
    <3>2. w.epoch = s.epoch /\ w.cursor = s.cursor /\ Queued(s) \subseteq Queued(w) \cup gone
      BY <2>2 DEF Leaves, Follows
    <3> QED
      BY <1>2, <2>11, <3>1, <3>2 DEF Stands
  <2>13. cycle'[t].at = "pull"
    BY <2>8, <2>10 DEF SyncInv, Hands
  <2>14. TakesIn(t)
    BY <1>1, <1>3, <1>7, <1>8, <2>11, <2>12, <2>13 DEF TakesIn
  <2> QED
    BY <1>8, <2>7, <2>10, <2>14, CycleMoves, SentStays DEF SyncInv
<1> QED
  BY <1>7, <1>11, <1>12

\* A push is answered: its epoch is that of the server, or it is refused.
LEMMA ServerPushKeeps ==
  ASSUME SyncInv, NEW t \in Tab, ServerPush(t)
  PROVE  SyncInv' /\ Onward /\ DeviceStep
<1>1. PICK ops : ops = cycle[t].ops
  OBVIOUS
<1>2. PICK d : d = db
  OBVIOUS
<1>3. PICK w : w = Push(d, ops)
  OBVIOUS
<1>4. /\ cycle[t].at = "push"
      /\ UNCHANGED <<backup, store, choosing, late, history>>
      /\ \/ /\ cycle[t].epoch = d.epoch /\ db' = w.db
            /\ cycle' = [cycle EXCEPT ![t] =
                           [at |-> "results", ops |-> ops, results |-> w.results]]
         \/ cycle' = [cycle EXCEPT ![t] = [at |-> "control"]] /\ UNCHANGED db
  BY <1>1, <1>2, <1>3 DEF ServerPush, Moves
<1>5. /\ UNCHANGED <<store, choosing, history>> /\ UNCHANGED backup
      /\ UNCHANGED store /\ UNCHANGED choosing /\ UNCHANGED issued /\ late' \subseteq late
  BY <1>4 DEF history
<1>6. Hand(t, cycle[t])
  BY DEF SyncInv, Hands
<1>7. Batch(ops, cycle[t].epoch) /\ Here(t).epoch # None
  BY <1>1, <1>4, <1>6 DEF Hand
<1>16. DeviceOf[t] \in Device
  BY SyncAssumption
<1>8. CASE cycle' = [cycle EXCEPT ![t] = [at |-> "control"]] /\ UNCHANGED db
  <2>1. UNCHANGED <<server, store, history>>
    BY <1>5, <1>8 DEF server, history
  <2>2. Kept' /\ Onward /\ DeviceStep
    BY <1>5, <2>1, ChoicesRest
  <2>3. PICK y : y = [at |-> "control"]
    OBVIOUS
  <2>4. Hand(t, y)
    BY <1>7, <2>3 DEF Hand
  <2>5. Hand(t, y)' /\ cycle' = [cycle EXCEPT ![t] = y]
    BY <1>8, <2>2, <2>3, <2>4, HandStays
  <2> QED
    BY <1>5, <2>2, <2>5, CycleMoves, SentStays DEF SyncInv
<1>9. CASE /\ cycle[t].epoch = d.epoch /\ db' = w.db
           /\ cycle' = [cycle EXCEPT ![t] =
                          [at |-> "results", ops |-> ops, results |-> w.results]]
  <2>1. Recorded(d) /\ IssuedOk /\ Batch(ops, d.epoch)
    BY <1>2, <1>7, <1>9 DEF SyncInv, Kept
  <2>2. /\ Recorded(w.db) /\ w.db.epoch = d.epoch
        /\ DOMAIN d.processed \subseteq DOMAIN w.db.processed
        /\ ops \in Seq(Operation) /\ AnswersTo(w.results, ops)
        /\ \A i \in DOMAIN ops : Succeeded(w.results[i]) =>
             /\ ops[i].id \in DOMAIN issued
             /\ ops[i].id \in DOMAIN w.db.processed
    BY <1>3, <2>1, PushRecorded
  <2>3. Recorded(db)' /\ Recorded(backup)'
    <3>1. Recorded(backup)
      BY DEF SyncInv, Kept
    <3> QED
      BY <1>5, <1>9, <2>2, <3>1 DEF Recorded
  <2>4. d.epoch \in Nat
    BY <2>1 DEF Recorded, DbInv, DbType
  <2>5. db'.epoch = db.epoch /\ db.epoch <= db'.epoch
    BY <1>2, <1>9, <2>2, <2>4
  <2>6. Kept' /\ Onward /\ DeviceStep
    BY <1>2, <1>5, <1>9, <2>2, <2>3, <2>5, ServerMoves
  <2>7. PICK y : y = [at |-> "results", ops |-> ops, results |-> w.results]
    OBVIOUS
  <2>8. y.at = "results" /\ y.ops = ops /\ y.results = w.results
    BY <2>7
  <2>9. (Here(t).epoch # None)'
    BY <1>5, <1>7 DEF Here
  <2>10. Hand(t, y)'
    BY <1>5, <1>9, <2>2, <2>8, <2>9 DEF Hand, Landed
  <2>11. cycle' = [cycle EXCEPT ![t] = y]
    BY <1>9, <2>7
  <2> QED
    BY <1>5, <2>6, <2>10, <2>11, CycleMoves, SentStays DEF SyncInv
<1> QED
  BY <1>4, <1>8, <1>9

\* A push that outlived its cycle.
LEMMA LatePushKeeps ==
  ASSUME SyncInv, NEW m, LatePush(m)
  PROVE  SyncInv' /\ Onward /\ DeviceStep
<1>1. PICK d : d = db
  OBVIOUS
<1>2. PICK w : w = Push(d, m.ops)
  OBVIOUS
<1>3. /\ m \in late /\ late' \subseteq late
      /\ db' = (IF m.epoch = d.epoch THEN w.db ELSE d)
      /\ UNCHANGED <<store, choosing, history>> /\ UNCHANGED backup
      /\ UNCHANGED cycle /\ UNCHANGED issued
  BY <1>1, <1>2 DEF LatePush, history
<1>4. Recorded(d) /\ IssuedOk /\ Batch(m.ops, m.epoch)
  BY <1>1, <1>3 DEF SyncInv, Kept, Sent
<1>5. PICK v : v = IF m.epoch = d.epoch THEN w.db ELSE d
  OBVIOUS
<1>6. /\ Recorded(v) /\ v.epoch = d.epoch
      /\ DOMAIN d.processed \subseteq DOMAIN v.processed
  <2>1. CASE m.epoch = d.epoch
    <3>1. /\ Recorded(w.db) /\ w.db.epoch = d.epoch
          /\ DOMAIN d.processed \subseteq DOMAIN w.db.processed
      BY <1>2, <1>4, <2>1, PushRecorded
    <3> QED
      BY <1>5, <2>1, <3>1
  <2>2. CASE m.epoch # d.epoch
    BY <1>4, <1>5, <2>2
  <2> QED
    BY <2>1, <2>2
<1>7. db' = v
  BY <1>3, <1>5
<1>8. Recorded(db)' /\ Recorded(backup)'
  <2>1. Recorded(backup)
    BY DEF SyncInv, Kept
  <2> QED
    BY <1>3, <1>6, <1>7, <2>1 DEF Recorded
<1>9. d.epoch \in Nat
  BY <1>4 DEF Recorded, DbInv, DbType
<1>10. Kept' /\ Onward /\ DeviceStep
  BY <1>1, <1>3, <1>6, <1>7, <1>8, <1>9, ServerMoves
<1> QED
  BY <1>3, <1>10, CyclesRest, SentStays DEF SyncInv

\* A page is asked for, or the device is told to bootstrap again.
LEMMA RequestPageKeeps ==
  ASSUME SyncInv, NEW t \in Tab, RequestPage(t)
  PROVE  SyncInv' /\ Onward /\ DeviceStep
<1>1. PICK d \in Device : d = DeviceOf[t]
  BY SyncAssumption
<1>2. PICK page : page = Page(db, store[d].cursor, PageLimit)
  OBVIOUS
<1>3. PICK y : /\ y \in {Idle, [at |-> "control"], [at |-> "page", page |-> page]}
               /\ cycle' = [cycle EXCEPT ![t] = y]
  BY <1>1, <1>2 DEF RequestPage, Moves, Here
<1>4. /\ UNCHANGED <<server, store, history>> /\ UNCHANGED choosing
      /\ late' \subseteq late /\ cycle[t].at = "pull"
  BY DEF RequestPage
<1>5. Kept' /\ Onward /\ DeviceStep
  BY <1>4, ChoicesRest
<1>6. Here(t).epoch # None
  BY <1>4 DEF SyncInv, Hands, Hand
<1>7. StoreOk(d) /\ DbInv(db)
  BY DEF SyncInv, Kept, Recorded
<1>8. store[d].cursor \in Nat
  BY <1>7 DEF StoreOk, StoreType
<1>9. page.changes \in Seq(ToldChange) /\ page.to \in Nat
  <2>1. PICK base : base = db
    OBVIOUS
  <2>2. PICK cursor : cursor = store[d].cursor
    OBVIOUS
  <2>3. /\ page.to \in Nat /\ page.changes \in Seq(ChangeType)
        /\ \A i \in DOMAIN page.changes : page.changes[i].entity \in Entity
    BY <1>2, <1>7, <1>8, <2>1, <2>2, PageTyped
  <2> DEFINE q == page.changes
  <2>4. Len(q) \in Nat /\ q \in [1..Len(q) -> ChangeType]
    BY <2>3
  <2>5. \A i \in 1..Len(q) : q[i] \in ToldChange
    BY <2>3, <2>4 DEF ToldChange
  <2> HIDE DEF q
  <2>6. q \in [1..Len(q) -> ToldChange]
    BY <2>4, <2>5
  <2>7. q \in Seq(ToldChange)
    BY <2>4, <2>6
  <2> QED
    BY <2>3, <2>7 DEF q
<1>10. Hand(t, y)
  BY <1>3, <1>6, <1>9 DEF Hand, Idle
<1>11. Hand(t, y)'
  BY <1>5, <1>10, HandStays
<1> QED
  BY <1>3, <1>4, <1>5, <1>11, CycleMoves, SentStays DEF SyncInv

\* A page is taken.
LEMMA ReceivePageKeeps ==
  ASSUME SyncInv, NEW t \in Tab, ReceivePage(t)
  PROVE  SyncInv' /\ Onward /\ DeviceStep /\ TakesIn(t)
<1>13. PICK d \in Device : d = DeviceOf[t]
  BY SyncAssumption
<1>1. PICK s : s = store[d]
  OBVIOUS
<1>2. PICK page : page = cycle[t].page
  OBVIOUS
<1>3. PICK w : w = ApplyPull(s, page)
  OBVIOUS
<1>4. PICK gone : gone = {}
  OBVIOUS
<1>5. PICK y : y = IF page.more THEN [at |-> "pull"] ELSE Idle
  OBVIOUS
<1>6. /\ cycle[t].at = "page" /\ store' = [store EXCEPT ![d] = w]
      /\ cycle' = [cycle EXCEPT ![t] = y]
      /\ UNCHANGED <<server, choosing, late, history>>
  BY <1>1, <1>2, <1>3, <1>5, <1>13 DEF ReceivePage, Stores, Moves, Here
<1>7. /\ replaced' = replaced /\ settled' = settled /\ choosing' = choosing
      /\ late' \subseteq late /\ UNCHANGED <<server, issued>>
  BY <1>6 DEF history
<1>8. StoreOk(d) /\ StoreType(s, d)
  BY <1>1 DEF SyncInv, Kept, StoreOk
<1>9. /\ Here(t).epoch # None
      /\ page.changes \in Seq(ToldChange) /\ page.to \in Nat
  BY <1>2, <1>6 DEF SyncInv, Hands, Hand
<1>16. StoreType(w, d) /\ w.epoch = s.epoch /\ Follows(s, w, gone) /\ w.cursor = page.to
  BY <1>3, <1>4, <1>8, <1>9, ApplyPullLeaves
<1>10. /\ StoreType(w, d) /\ Follows(store[d], w, gone)
       /\ w.epoch = store[d].epoch /\ w.epoch # None
  BY <1>1, <1>9, <1>13, <1>16 DEF Here
<1>11. w.epoch # None => w.epoch <= db.epoch
  BY <1>8, <1>10 DEF StoreOk
<1>12. /\ replaced \subseteq replaced' /\ replaced' \subseteq OpId
       /\ settled \subseteq settled' /\ settled' \subseteq OpId
       /\ \A x \in gone : x \in replaced' \/ (x \in settled' /\ Landed(x))
  BY <1>4, <1>7 DEF SyncInv, Kept
<1>14. Kept' /\ Onward /\ DeviceStep
  BY <1>6, <1>7, <1>10, <1>11, <1>12, StoreMoves
<1>17. (Here(t).epoch # None)'
  BY <1>6, <1>10, <1>13 DEF Here, SyncInv, Kept
<1>15. Hand(t, y)'
  <2>1. CASE y = Idle
    BY <1>14, <2>1, HandEmpty, HandStays
  <2>2. CASE y = [at |-> "pull"]
    BY <1>17, <2>2, HandPull
  <2> QED
    BY <1>5, <2>1, <2>2
<1>18. TakesIn(t)
  <2>1. store'[d] = w /\ \A c \in Device : c # d => Stands(c, {})
    BY <1>6, OthersStand
  <2>2. Queued(store[d]) \subseteq Queued(store'[d])
    BY <1>4, <1>10, <2>1 DEF Follows
  <2>3. cycle'[t].at \in {"idle", "pull"}
    <3>1. y.at \in {"idle", "pull"}
      BY <1>5 DEF Idle
    <3> QED
      BY <1>6, <3>1 DEF SyncInv, Hands
  <2>4. store'[d].epoch = store[d].epoch /\ store'[d].cursor = page.to
    BY <1>1, <1>16, <2>1
  <2> QED
    BY <1>2, <1>6, <1>7, <1>13, <2>1, <2>2, <2>3, <2>4 DEF TakesIn
<1> QED
  BY <1>6, <1>7, <1>14, <1>15, <1>18, CycleMoves, SentStays DEF SyncInv

\* A cycle dies; the push it had sent may still be on its way.
LEMMA AbandonKeeps ==
  ASSUME SyncInv, NEW t \in Tab, Abandon(t)
  PROVE  SyncInv' /\ Onward /\ DeviceStep
<1>1. PICK y : y = Idle
  OBVIOUS
<1>2. /\ cycle' = [cycle EXCEPT ![t] = y]
      /\ UNCHANGED <<server, store, history>> /\ UNCHANGED choosing
  BY <1>1 DEF Abandon, Moves
<1>3. Kept' /\ Onward /\ DeviceStep
  BY <1>2, ChoicesRest
<1>4. Hand(t, y)'
  BY <1>1, <1>3, HandEmpty, HandStays
<1>5. Hands'
  BY <1>2, <1>3, <1>4, CycleMoves
<1>6. Sent'
  <2>1. CASE late' = late
    BY <1>3, <2>1, SentStays
  <2>2. CASE late' # late
    <3>1. PICK q : q = [ops |-> cycle[t].ops, epoch |-> cycle[t].epoch]
      OBVIOUS
    <3>2. cycle[t].at = "push" /\ late' = late \cup {q}
      BY <2>2, <3>1 DEF Abandon
    <3>3. Hand(t, cycle[t])
      BY DEF SyncInv, Hands
    <3>4. Batch(q.ops, q.epoch)
      BY <3>1, <3>2, <3>3 DEF Hand
    <3>5. ASSUME NEW m \in late'
          PROVE  Batch(m.ops, m.epoch)'
      <4>1. PICK x : x = m
        OBVIOUS
      <4>2. Batch(x.ops, x.epoch)
        BY <3>2, <3>4, <3>5, <4>1 DEF SyncInv, Sent
      <4>3. Batch(x.ops, x.epoch)'
        BY <1>3, <4>2, BatchStays
      <4> QED
        BY <4>1, <4>3
    <3> QED
      BY <3>5 DEF Sent
  <2> QED
    BY <2>1, <2>2
<1> QED
  BY <1>3, <1>5, <1>6 DEF SyncInv

\* The space is archived or restored.
LEMMA LifecycleKeeps ==
  ASSUME SyncInv, NEW id \in LifecycleId, Lifecycle(id)
  PROVE  SyncInv' /\ Onward /\ DeviceStep
<1>1. PICK d : d = db
  OBVIOUS
<1>2. PICK device \in Device : device = CHOOSE x \in Device : TRUE
  BY SyncAssumption
<1>3. PICK w : w = ToggleSpace(d, id, device)
  OBVIOUS
<1>4. /\ id \notin DOMAIN d.processed /\ db' = w
      /\ UNCHANGED <<store, choosing, history>> /\ UNCHANGED backup
      /\ UNCHANGED cycle /\ late' \subseteq late /\ UNCHANGED issued
  BY <1>1, <1>2, <1>3 DEF Lifecycle, history
<1>5. Recorded(d) /\ DbInv(d) /\ id \in OpId /\ IssuedOk
  BY <1>1, SyncAssumption DEF SyncInv, Kept, Recorded
<1>6. DbInv(w) /\ Extends(d, w)
  BY <1>3, <1>4, <1>5, ToggleSpaceKeeps
<1>7. /\ w.epoch = d.epoch
      /\ Len(w.changes) = Len(d.changes) + 1
      /\ \A i \in 1..Len(d.changes) : w.changes[i] = d.changes[i]
      /\ w.changes[Len(d.changes) + 1].id = id
  BY <1>3, <1>5, ToggleSpaceTells
<1>8. DOMAIN d.processed \subseteq DOMAIN w.processed
  BY <1>5, <1>6, ProcessedStays
<1>9. id \notin DOMAIN issued
  BY <1>5, SyncAssumption DEF IssuedOk
<1>10. ASSUME NEW i \in DOMAIN w.changes
       PROVE  LET c == w.changes[i]
              IN /\ c.id \in OpId => c.id \in DOMAIN issued \cup LifecycleId
                 /\ c.id \in DOMAIN issued => c.epoch = issued[c.id].epoch
  <2> DEFINE old == d.changes
             new == w.changes
  <2>1. old \in Seq(ChangeType) /\ new \in Seq(ChangeType) /\ i \in DOMAIN new
    BY <1>5, <1>6, <1>10 DEF DbInv, DbType
  <2>2. /\ Len(new) = Len(old) + 1 /\ \A j \in 1..Len(old) : new[j] = old[j]
        /\ new[Len(old) + 1].id = id
    BY <1>7
  <2>3. \A j \in DOMAIN old :
          /\ old[j].id \in OpId => old[j].id \in DOMAIN issued \cup LifecycleId
          /\ old[j].id \in DOMAIN issued => old[j].epoch = issued[old[j].id].epoch
    BY <1>5 DEF Recorded
  <2> HIDE DEF old, new
  <2>4. new[i].id = id \/ (i \in DOMAIN old /\ new[i] = old[i])
    BY <2>1, <2>2
  <2> QED
    BY <1>9, <2>3, <2>4 DEF new
<1>11. Recorded(w)
  BY <1>6, <1>10 DEF Recorded
<1>12. Recorded(db)' /\ Recorded(backup)'
  <2>1. Recorded(backup)
    BY DEF SyncInv, Kept
  <2> QED
    BY <1>4, <1>11, <2>1 DEF Recorded
<1>13. d.epoch \in Nat
  BY <1>5 DEF DbInv, DbType
<1>14. Kept' /\ Onward /\ DeviceStep
  BY <1>1, <1>4, <1>7, <1>8, <1>12, <1>13, ServerMoves
<1> QED
  BY <1>4, <1>14, CyclesRest, SentStays DEF SyncInv

\* The database is dumped.
LEMMA TakeBackupKeeps ==
  ASSUME SyncInv, TakeBackup
  PROVE  SyncInv' /\ Onward /\ DeviceStep
<1>1. /\ backup' = db /\ UNCHANGED db /\ UNCHANGED <<store, choosing, history>>
      /\ UNCHANGED cycle /\ late' \subseteq late /\ UNCHANGED issued
  BY DEF TakeBackup, history
<1>2. Recorded(db) /\ db.epoch \in Nat
  BY DEF SyncInv, Kept, Recorded, DbInv, DbType
<1>3. Recorded(db)' /\ Recorded(backup)'
  BY <1>1, <1>2 DEF Recorded
<1>4. Kept' /\ Onward /\ DeviceStep
  BY <1>1, <1>2, <1>3, ServerMoves
<1> QED
  BY <1>1, <1>4, CyclesRest, SentStays DEF SyncInv

\* The dump takes the place of the database, in an epoch of its own.
LEMMA RestoreBackupKeeps ==
  ASSUME SyncInv, RestoreBackup
  PROVE  SyncInv' /\ Onward /\ DeviceStep
<1>1. PICK d : d = backup
  OBVIOUS
<1>2. PICK epoch : epoch = db.epoch + 1
  OBVIOUS
<1>3. PICK w : w = [d EXCEPT !.epoch = epoch]
  OBVIOUS
<1>4. /\ db' = w /\ UNCHANGED backup /\ UNCHANGED <<store, choosing, history>>
      /\ UNCHANGED cycle /\ late' \subseteq late /\ UNCHANGED issued
  BY <1>1, <1>2, <1>3 DEF RestoreBackup, history
<1>5. Recorded(d) /\ DbInv(d) /\ db.epoch \in Nat
  BY <1>1 DEF SyncInv, Kept, Recorded, DbInv, DbType
<1>6. epoch \in Nat /\ db.epoch <= epoch /\ epoch # db.epoch
  BY <1>2, <1>5
<1>7. DbInv(w) /\ w.changes = d.changes /\ w.epoch = epoch
  <2>1. DbInv(w)
    BY <1>3, <1>5, <1>6, RestoredInv
  <2> QED
    BY <1>3, <1>5, <2>1 DEF DbInv, DbType
<1>8. Recorded(w)
  BY <1>5, <1>7 DEF Recorded
<1>9. Recorded(db)' /\ Recorded(backup)'
  BY <1>1, <1>4, <1>5, <1>8 DEF Recorded
<1>10. Kept' /\ Onward /\ DeviceStep
  BY <1>4, <1>6, <1>7, <1>9, ServerMoves
<1> QED
  BY <1>4, <1>10, CyclesRest, SentStays DEF SyncInv

-----------------------------------------------------------------------------
(* The theorems.                                                           *)

\* Nothing has happened yet.
LEMMA InitInv == Init => SyncInv
<1> SUFFICES ASSUME Init PROVE SyncInv
  OBVIOUS
<1> USE DEF Init
<1>1. Recorded(db) /\ Recorded(backup)
  BY EmptyDbInv DEF Recorded, EmptyDb
<1>2. IssuedOk /\ LocalWorkIsKept
  BY DEF IssuedOk, LocalWorkIsKept
<1>3. ASSUME NEW d \in Device
      PROVE  StoreOk(d) /\ ChoosingOk(d)
  <2> DEFINE s == EmptyStore
  <2>1. /\ DOMAIN s = {"state", "epoch", "cursor", "entity", "outbox", "conflicts", "manifest"}
        /\ s.state = "empty" /\ s.epoch = None /\ s.cursor = 0
        /\ s.entity = [e \in Entity |-> Absent] /\ s.outbox = <<>> /\ s.conflicts = <<>>
    BY DEF EmptyStore
  <2>2. Absent \in VisibleRow
    BY DEF Absent, VisibleRow, Content
  <2> HIDE DEF s
  <2>3. StoreType(s, d)
    BY <2>1, <2>2 DEF StoreType, QueueType, StoreState
  <2>4. store[d] = s /\ choosing[d] = None
    BY DEF s
  <2> QED
    BY <2>1, <2>3, <2>4 DEF StoreOk, ChoosingOk
<1>4. Kept
  BY <1>1, <1>2, <1>3 DEF Kept
<1>5. Hands
  BY HandEmpty DEF Hands
<1>6. Sent
  BY DEF Sent
<1> QED
  BY <1>4, <1>5, <1>6 DEF SyncInv

\* A step that changes nothing.
LEMMA StutterKeeps ==
  ASSUME SyncInv, UNCHANGED vars
  PROVE  SyncInv' /\ Onward /\ DeviceStep
<1>1. /\ UNCHANGED <<server, store, history>> /\ UNCHANGED choosing
      /\ UNCHANGED cycle /\ late' \subseteq late
  BY DEF vars, server, history
<1>2. Kept' /\ Onward /\ DeviceStep
  BY <1>1, ChoicesRest
<1> QED
  BY <1>1, <1>2, CyclesRest, SentStays DEF SyncInv

\* Every step keeps the invariant.
LEMMA StepKeeps ==
  ASSUME SyncInv, [Next]_vars
  PROVE  SyncInv' /\ Onward /\ DeviceStep
<1>1. CASE User
  <2>1. ASSUME NEW d \in Device, NEW e \in Entity, NEW type \in Edits, Edit(d, e, type)
        PROVE  SyncInv' /\ Onward /\ DeviceStep
    BY <2>1, EditKeeps
  <2>2. ASSUME NEW d \in Device, NEW c \in DOMAIN store[d].conflicts,
               NEW choice \in ResolutionChoices, ChooseResolution(d, c, choice)
        PROVE  SyncInv' /\ Onward /\ DeviceStep
    <3>1. PICK x : x = c
      OBVIOUS
    <3> QED
      BY <2>2, <3>1, ChooseResolutionKeeps
  <2>3. ASSUME NEW d \in Device, NEW c \in DOMAIN store[d].conflicts, DismissConflict(d, c)
        PROVE  SyncInv' /\ Onward /\ DeviceStep
    BY <2>3, DismissConflictKeeps
  <2>4. ASSUME NEW d \in Device, CommitResolution(d)
        PROVE  SyncInv' /\ Onward /\ DeviceStep
    BY <2>4, CommitResolutionKeeps
  <2> QED
    BY <1>1, <2>1, <2>2, <2>3, <2>4 DEF User
<1>2. ASSUME NEW t \in Tab, Step(t)
      PROVE  SyncInv' /\ Onward /\ DeviceStep
  BY <1>2, RequestBootstrapKeeps, ActivateSnapshotKeeps, StartCycleKeeps, ServerPushKeeps,
     ReceiveResultsKeeps, ReceiveControlKeeps, RequestPageKeeps, ReceivePageKeeps DEF Step
<1>3. CASE Fault
  BY <1>3, AbandonKeeps, LatePushKeeps DEF Fault
<1>4. CASE Server
  BY <1>4, LifecycleKeeps, TakeBackupKeeps, RestoreBackupKeeps DEF Server
<1>5. CASE UNCHANGED vars
  BY <1>5, StutterKeeps
<1> QED
  BY <1>1, <1>2, <1>3, <1>4, <1>5 DEF Next

\* The inductive invariant: every operation of a user is queued, replaced or
\* landed; what waits in an outbox, in the hands of a cycle or in a push on
\* its way was made in the epoch it is sent for; and what the server has
\* recorded of a device was issued in the epoch of the record.
THEOREM SyncInvariance == Spec => []SyncInv
<1>1. SyncInv /\ [Next]_vars => SyncInv'
  BY StepKeeps
<1> QED
  BY <1>1, InitInv, PTL DEF Spec

\* What a resolution leaves in an outbox are operations.
LEMMA OvertakenAreOps ==
  SyncInv /\ overtaken \subseteq OpId /\ [Next]_vars => overtaken' \subseteq OpId
<1> SUFFICES ASSUME SyncInv, overtaken \subseteq OpId, [Next]_vars
             PROVE  overtaken' \subseteq OpId
  OBVIOUS
<1>1. ASSUME NEW d \in Device, CommitResolution(d)
      PROVE  overtaken' \subseteq OpId
  <2>1. PICK s : s = store[d]
    OBVIOUS
  <2>2. PICK e : e = choosing[d].conflict.entity
    OBVIOUS
  <2>3. StoreType(s, d)
    BY <2>1 DEF SyncInv, Kept, StoreOk
  <2>4. \A i \in DOMAIN s.outbox : s.outbox[i].op.id \in OpId
    <3>1. s.outbox \in Seq(Entry)
      BY <2>3 DEF StoreType, QueueType
    <3>2. \A i \in DOMAIN s.outbox : s.outbox[i] \in Entry
      BY <3>1
    <3> QED
      BY <3>2 DEF Entry, Operation
  <2>5. {s.outbox[i].op.id : i \in Related(s, e)} \subseteq OpId
    BY <2>4 DEF Related
  <2>6. Overtaken(store[d], choosing[d].conflict) \subseteq OpId
    BY <2>1, <2>2, <2>5 DEF Overtaken
  <2>7. PICK id : id = CHOOSE x \in Fresh(d) : TRUE
    OBVIOUS
  <2>8. overtaken' = overtaken \cup Overtaken(store[d], choosing[d].conflict)
                      \cup Unseen(store[d], choosing[d].conflict, choosing[d].choice, id)
    BY <1>1, <2>7 DEF CommitResolution
  <2>9. Unseen(store[d], choosing[d].conflict, choosing[d].choice, id) \subseteq OpId
    <3>1. Fresh(d) # {} \/ TakesRemoteLocally(choosing[d].conflict, choosing[d].choice)
      BY <1>1 DEF CommitResolution
    <3>2. Fresh(d) # {} => id \in OpId
      BY <2>7, SyncAssumption DEF Fresh
    <3> QED
      BY <3>1, <3>2 DEF Unseen
  <2> QED
    BY <2>6, <2>8, <2>9
<1>2. ASSUME User, \A d \in Device : ~CommitResolution(d) PROVE overtaken' = overtaken
  BY <1>2 DEF User, Edit, ChooseResolution, DismissConflict, history
<1>3. ASSUME NEW t \in Tab, Step(t) PROVE overtaken' = overtaken
  BY <1>3 DEF Step, RequestBootstrap, ActivateSnapshot, StartCycle, ServerPush,
              ReceiveResults, ReceiveControl, RequestPage, ReceivePage, history
<1>4. ASSUME Fault \/ Server PROVE overtaken' = overtaken
  BY <1>4 DEF Fault, Server, Abandon, LatePush, Lifecycle, TakeBackup, RestoreBackup, history
<1>5. ASSUME UNCHANGED vars PROVE overtaken' = overtaken
  BY <1>5 DEF vars
<1> QED
  BY <1>1, <1>2, <1>3, <1>4, <1>5 DEF Next

\* The stores are typed: an outbox holds operations of its own device, one
\* row per id, in one of the states of outbox_state.
THEOREM SyncTypeCorrect == Spec => []TypeOK
<1>1. SyncInv /\ overtaken \subseteq OpId => TypeOK
  <2> SUFFICES ASSUME SyncInv, overtaken \subseteq OpId PROVE TypeOK
    OBVIOUS
  <2>1. ASSUME NEW d \in Device
        PROVE  /\ store[d].state \in {"empty", "ready", "upgrade_required",
                                      "rebootstrap_required"}
               /\ store[d].cursor \in Nat
               /\ store[d].entity \in
                    [Entity -> [present : BOOLEAN, version : Nat, deleted : BOOLEAN,
                                payload : Content, status : {"clean", "pending", "conflict"}]]
               /\ \A i \in DOMAIN store[d].outbox :
                    /\ store[d].outbox[i].op \in Operation
                    /\ store[d].outbox[i].op.device = d
                    /\ store[d].outbox[i].state \in
                         {"pending", "conflict", "blocked", "isolated"}
               /\ Cardinality(Queued(store[d])) = Len(store[d].outbox)
    <3>1. PICK s : s = store[d]
      OBVIOUS
    <3>2. StoreType(s, d)
      BY <3>1 DEF SyncInv, Kept, StoreOk
    <3>3. Cardinality(Queued(s)) = Len(s.outbox)
      BY <3>2, QueueCounted
    <3>4. s.outbox \in Seq(Entry)
      BY <3>2 DEF StoreType, QueueType
    <3>5. \A i \in DOMAIN s.outbox : s.outbox[i] \in Entry
      BY <3>4
    <3>6. \A i \in DOMAIN s.outbox :
            /\ s.outbox[i].op \in Operation /\ s.outbox[i].op.device = d
            /\ s.outbox[i].state \in {"pending", "conflict", "blocked", "isolated"}
      BY <3>2, <3>5 DEF Entry, OutboxState, StoreType, QueueType
    <3> QED
      BY <3>1, <3>2, <3>3, <3>6 DEF StoreType, StoreState, VisibleRow
  <2>2. DOMAIN issued \subseteq OpId /\ replaced \cup settled \subseteq OpId
    BY SyncAssumption DEF SyncInv, Kept, IssuedOk
  <2> QED
    BY <2>1, <2>2 DEF TypeOK
<1>2. Init => overtaken \subseteq OpId
  BY DEF Init
<1>3. SyncInv /\ overtaken \subseteq OpId /\ [Next]_vars => (overtaken \subseteq OpId)'
  BY OvertakenAreOps
<1> QED
  BY <1>1, <1>2, <1>3, SyncInvariance, PTL DEF Spec

\* A restore of the server neither loses what was queued on a device nor has
\* it replayed on top of another history: an operation leaves its outbox only
\* when it has been acknowledged or replaced by its user, an acknowledged one
\* is in the ledger unless its epoch was restored away, and no change of the
\* ledger carries an operation of another epoch.
THEOREM RestoreLosesNothing == Spec => []WorkSurvivesRestore
<1>1. SyncInv => WorkSurvivesRestore
  BY DEF SyncInv, Kept, Recorded, WorkSurvivesRestore, AppliedInItsEpoch
<1> QED
  BY <1>1, SyncInvariance, PTL

-----------------------------------------------------------------------------
(* The order of a device's own work.                                       *)

\* The device that made an operation.
Owner(id) == issued[id].op.device

\* Operation id waits for its dependency no more: a resolution has taken the
\* place of that one, or it was made in another epoch and has left the outbox.
Past(id, dep) ==
  \/ dep \in replaced
  \/ issued[dep].epoch # issued[id].epoch /\ dep \notin Queued(store[Owner(dep)])

\* An operation depends on operations its own device has made.
Linked ==
  \A id \in DOMAIN issued :
    /\ issued[id].op.id = id
    /\ \A dep \in issued[id].op.deps : dep \in DOMAIN issued /\ Owner(dep) = Owner(id)

\* What is queued is what was issued, each operation behind those it depends on.
Lined(s) ==
  \A i \in DOMAIN s.outbox :
    /\ issued[s.outbox[i].op.id].op = s.outbox[i].op
    /\ \A j \in DOMAIN s.outbox : s.outbox[j].op.id \in s.outbox[i].op.deps => j < i

\* The ledger has an operation behind those it waits for.
Causal(changes) ==
  \A i \in DOMAIN changes :
    changes[i].id \in DOMAIN issued =>
      \A dep \in issued[changes[i].id].op.deps :
        Past(changes[i].id, dep) \/ \E j \in 1..(i - 1) : changes[j].id = dep

\* What an operation of a batch for epoch waits for is in the batch as well,
\* or the server has processed it.
Ordered(d, ops, epoch) ==
  \A k \in DOMAIN ops :
    /\ issued[ops[k].id].op = ops[k]
    /\ \A dep \in ops[k].deps :
         \/ \E j \in DOMAIN ops : ops[j].id = dep
         \/ Past(ops[k].id, dep)
         \/ (epoch = d.epoch => dep \in DOMAIN d.processed)

OrderInv ==
  /\ Linked
  /\ \A d \in Device : Lined(store[d])
  /\ Causal(db.changes) /\ Causal(backup.changes)
  /\ \A t \in Tab : cycle[t].at = "push" => Ordered(db, cycle[t].ops, cycle[t].epoch)
  /\ \A m \in late : Ordered(db, m.ops, m.epoch)

\* What no step does: put an operation of the past back into a queue.
LEMMA NothingReturns ==
  ASSUME SyncInv, DeviceStep, NEW d \in Device, NEW id \in DOMAIN issued,
         id \in Queued(store'[d])
  PROVE  id \in Queued(store[d])
<1>1. CASE \E gone : Follows(store[d], store'[d], gone)
  BY <1>1 DEF Follows, Queued
<1>2. CASE \E c \in Device : \E op : Grown(c, op)
  <2>0. PICK c \in Device : \E op : Grown(c, op)
    BY <1>2
  <2>1. PICK op : Grown(c, op)
    BY <2>0
  <2>2. op.id \notin DOMAIN issued
    BY <2>1 DEF Grown, Fresh
  <2>3. CASE c = d
    <3>1. PICK gone : Queues(store[d], store'[d], d, gone, op)
      BY <2>1, <2>3 DEF Grown
    <3> QED
      BY <2>2, <3>1 DEF Queues, Queued
  <2>4. CASE c # d
    <3>1. store'[d] = store[d]
      BY <2>1, <2>4 DEF Grown
    <3> QED
      BY <3>1
  <2> QED
    BY <2>3, <2>4
<1> QED
  BY <1>1, <1>2 DEF DeviceStep

\* The operations a step issues are new, and not ids of lifecycle changes.
LEMMA IssuedAreFresh ==
  ASSUME SyncInv, Onward, DeviceStep, NEW id \in DOMAIN issued', id \notin DOMAIN issued
  PROVE  id \in OpId \ LifecycleId
<1>0. PICK d \in Device : \E op : Grown(d, op)
  BY DEF DeviceStep
<1>1. PICK op : Grown(d, op)
  BY <1>0
<1>2. id = op.id
  BY <1>1 DEF Grown, Issue, Put
<1>3. id \in Draws[d]
  BY <1>1, <1>2 DEF Grown, Fresh
<1> QED
  BY <1>3, SyncAssumption

\* The past stays the past.
LEMMA PastStays ==
  ASSUME SyncInv, Onward, DeviceStep, NEW id \in DOMAIN issued, NEW dep \in DOMAIN issued,
         Past(id, dep)
  PROVE  Past(id, dep)'
<1>1. issued'[id] = issued[id] /\ issued'[dep] = issued[dep]
  BY DEF Onward
<1>2. CASE dep \in replaced
  BY <1>2 DEF Past, DeviceStep
<1>3. CASE issued[dep].epoch # issued[id].epoch /\ dep \notin Queued(store[Owner(dep)])
  <2>1. Owner(dep) \in Device
    BY DEF SyncInv, Kept, IssuedOk, Owner
  <2>2. dep \notin Queued(store'[Owner(dep)])
    BY <1>3, <2>1, NothingReturns
  <2>3. Owner(dep)' = Owner(dep)
    BY <1>1 DEF Owner
  <2>4. dep \notin Queued(store[Owner(dep)])'
    BY <2>2, <2>3 DEF Queued
  <2> QED
    BY <1>1, <1>3, <2>4 DEF Past
<1> QED
  BY <1>2, <1>3 DEF Past

\* A ledger that rests stays in order.
LEMMA CausalStays ==
  ASSUME SyncInv, Onward, DeviceStep, Linked, NEW d, Recorded(d), Causal(d.changes)
  PROVE  Causal(d.changes)'
<1> SUFFICES ASSUME NEW i \in DOMAIN d.changes, d.changes[i].id \in DOMAIN issued',
                    NEW dep \in issued'[d.changes[i].id].op.deps
             PROVE  \/ Past(d.changes[i].id, dep)'
                    \/ \E j \in 1..(i - 1) : d.changes[j].id = dep
  BY DEF Causal, Past, Owner, Queued
<1>1. PICK id : id = d.changes[i].id
  OBVIOUS
<1>2. id \in DOMAIN issued
  BY <1>1, IssuedAreFresh DEF Recorded
<1>3. issued'[id] = issued[id]
  BY <1>2 DEF Onward
<1>4. dep \in DOMAIN issued /\ dep \in issued[id].op.deps
  BY <1>1, <1>2, <1>3 DEF Linked
<1>5. Past(id, dep) \/ \E j \in 1..(i - 1) : d.changes[j].id = dep
  BY <1>1, <1>2, <1>4 DEF Causal
<1>6. Past(id, dep) => Past(id, dep)'
  BY <1>2, <1>4, PastStays
<1>7. Past(id, dep)' => Past(d.changes[i].id, dep)'
  BY <1>1 DEF Past
<1> QED
  BY <1>1, <1>5, <1>6, <1>7

\* An operation in a queue was issued by the device whose queue it is.
LEMMA QueuedIsOwn ==
  ASSUME SyncInv, NEW d \in Device, Lined(store[d]), NEW id \in Queued(store[d])
  PROVE  id \in DOMAIN issued /\ Owner(id) = d
<1>1. PICK i \in DOMAIN store[d].outbox : store[d].outbox[i].op.id = id
  BY DEF Queued
<1>2. StoreOk(d)
  BY DEF SyncInv, Kept
<1> QED
  BY <1>1, <1>2 DEF StoreOk, StoreType, QueueType, Lined, Owner

LEMMA LinkedStays ==
  ASSUME SyncInv, Onward, DeviceStep, Linked, \A d \in Device : Lined(store[d])
  PROVE  Linked'
<1>1. ASSUME NEW id \in DOMAIN issued
      PROVE  /\ issued'[id].op.id = id
             /\ \A dep \in issued'[id].op.deps : dep \in DOMAIN issued' /\ Owner(dep)' = Owner(id)'
  <2>1. issued'[id] = issued[id]
    BY DEF Onward
  <2>2. ASSUME NEW dep \in issued[id].op.deps
        PROVE  dep \in DOMAIN issued' /\ issued'[dep] = issued[dep] /\ Owner(dep) = Owner(id)
    BY DEF Linked, Onward
  <2> QED
    BY <2>1, <2>2 DEF Linked, Owner
<1>2. CASE UNCHANGED issued
  BY <1>1, <1>2 DEF Linked
<1>3. CASE \E d \in Device : \E op : Grown(d, op)
  <2>0. PICK d \in Device : \E op : Grown(d, op)
    BY <1>3
  <2>1. PICK op : Grown(d, op)
    BY <2>0
  <2>2. /\ DOMAIN issued' = DOMAIN issued \cup {op.id} /\ issued'[op.id].op = op
        /\ op.device = d /\ op.deps \subseteq Queued(store[d])
    BY <2>1 DEF Grown, Issue, Put
  <2>3. ASSUME NEW dep \in op.deps
        PROVE  dep \in DOMAIN issued' /\ issued'[dep].op.device = d
    <3>1. dep \in DOMAIN issued /\ Owner(dep) = d
      BY <2>2, QueuedIsOwn
    <3> QED
      BY <3>1 DEF Onward, Owner
  <2> QED
    BY <1>1, <2>2, <2>3 DEF Linked, Owner
<1> QED
  BY <1>2, <1>3 DEF DeviceStep

\* A queue stays in line: what it keeps keeps its order, and a new operation
\* comes last.
LEMMA LinedStays ==
  ASSUME SyncInv, SyncInv', Onward, DeviceStep, Linked, NEW d \in Device, Lined(store[d])
  PROVE  Lined(store[d])'
<1>1. PICK s : s = store[d]
  OBVIOUS
<1>2. PICK w : w = store'[d]
  OBVIOUS
<1>3. StoreOk(d) /\ StoreType(s, d) /\ Lined(s)
  BY <1>1 DEF SyncInv, Kept, StoreOk
<1>4. DOMAIN s.outbox \subseteq Nat
  BY <1>3 DEF StoreType, QueueType
<1>5. \A i \in DOMAIN s.outbox :
        /\ s.outbox[i].op.id \in DOMAIN issued
        /\ issued[s.outbox[i].op.id].op = s.outbox[i].op
        /\ issued'[s.outbox[i].op.id].op = s.outbox[i].op
  BY <1>1, <1>3 DEF StoreOk, Lined, Onward
<1>6. ASSUME InOrder(s, w), NEW i \in DOMAIN w.outbox, NEW j \in DOMAIN w.outbox,
             NEW k \in DOMAIN s.outbox, NEW l \in DOMAIN s.outbox,
             i \in Nat, j \in Nat,
             w.outbox[i].op = s.outbox[k].op, w.outbox[j].op = s.outbox[l].op,
             w.outbox[j].op.id \in w.outbox[i].op.deps
      PROVE  j < i
  <2>1. l < k
    BY <1>3, <1>6 DEF Lined
  <2>2. i # j
    <3> SUFFICES ASSUME i = j PROVE FALSE
      OBVIOUS
    <3>1. k = l
      BY <1>3, <1>6 DEF StoreType, QueueType
    <3> QED
      BY <1>4, <2>1, <3>1
  <2>3. i < j => k < l
    BY <1>6 DEF InOrder
  <2> QED
    BY <1>4, <1>6, <2>1, <2>2, <2>3
<1>7. CASE \E gone : Follows(s, w, gone) /\ StoreType(w, d)
  <2>1. PICK gone : Follows(s, w, gone)
    BY <1>7
  <2>2. DOMAIN w.outbox \subseteq Nat
    BY <1>7 DEF StoreType, QueueType
  <2>3. ASSUME NEW i \in DOMAIN w.outbox
        PROVE  \E k \in DOMAIN s.outbox : w.outbox[i].op = s.outbox[k].op
    BY <2>1 DEF Follows
  <2>4. InOrder(s, w)
    BY <2>1 DEF Follows
  <2>5. \A i, j \in DOMAIN w.outbox : w.outbox[j].op.id \in w.outbox[i].op.deps => j < i
    BY <1>6, <2>2, <2>3, <2>4
  <2>6. \A i \in DOMAIN w.outbox : issued'[w.outbox[i].op.id].op = w.outbox[i].op
    BY <1>5, <2>3
  <2> QED
    BY <1>2, <2>5, <2>6 DEF Lined
<1>8. CASE \E op : Grown(d, op)
  <2>1. PICK op : Grown(d, op)
    BY <1>8
  <2>2. PICK gone : Queues(s, w, d, gone, op)
    BY <1>1, <1>2, <2>1 DEF Grown
  <2>3. DOMAIN w.outbox \subseteq Nat /\ InOrder(s, w)
    BY <2>2 DEF Queues, StoreType, QueueType
  <2>4. /\ op.id \notin DOMAIN issued /\ issued'[op.id].op = op
        /\ op.deps \subseteq Queued(s)
    BY <1>1, <2>1 DEF Grown, Fresh, Issue, Put
  <2>5. \A x \in op.deps : x \in DOMAIN issued
    BY <1>1, <1>3, <2>4, QueuedIsOwn
  <2>6. \A i \in DOMAIN w.outbox :
          w.outbox[i].op = op \/ \E k \in DOMAIN s.outbox : w.outbox[i].op = s.outbox[k].op
    BY <2>2 DEF Queues
  <2>7. \A i \in DOMAIN w.outbox : issued'[w.outbox[i].op.id].op = w.outbox[i].op
    BY <1>5, <2>4, <2>6
  <2>8. ASSUME NEW i \in DOMAIN w.outbox, NEW j \in DOMAIN w.outbox,
               w.outbox[j].op.id \in w.outbox[i].op.deps
        PROVE  j < i
    <3>1. CASE w.outbox[i].op = op
      <4>1. j <= i
        BY <2>2, <3>1 DEF Queues
      <4>2. j # i
        BY <2>4, <2>5, <2>8, <3>1
      <4> QED
        BY <2>3, <4>1, <4>2
    <3>2. CASE w.outbox[i].op # op
      <4>1. PICK k \in DOMAIN s.outbox : w.outbox[i].op = s.outbox[k].op
        BY <2>6, <3>2
      <4>2. w.outbox[j].op.id \in DOMAIN issued
        BY <1>5, <2>8, <4>1 DEF Linked
      <4>3. PICK l \in DOMAIN s.outbox : w.outbox[j].op = s.outbox[l].op
        BY <2>4, <2>6, <4>2
      <4> QED
        BY <1>6, <2>3, <2>8, <4>1, <4>3
    <3> QED
      BY <3>1, <3>2
  <2> QED
    BY <1>2, <2>7, <2>8 DEF Lined
<1>9. CASE w = s
  BY <1>2, <1>3, <1>5, <1>9 DEF Lined
<1>10. \/ \E gone : Follows(s, w, gone)
       \/ \E op : Grown(d, op)
       \/ w = s
  BY <1>1, <1>2 DEF DeviceStep, Grown
<1>11. StoreType(w, d)
  BY <1>2 DEF SyncInv, Kept, StoreOk
<1> QED
  BY <1>7, <1>8, <1>9, <1>10, <1>11

\* What a batch waits for, it goes on waiting for no longer.
LEMMA OrderedStays ==
  ASSUME SyncInv, Onward, DeviceStep, Linked, NEW ops, NEW epoch,
         Batch(ops, epoch), Ordered(db, ops, epoch)
  PROVE  Ordered(db, ops, epoch)'
<1>1. PICK d : d = db
  OBVIOUS
<1>2. PICK w : w = db'
  OBVIOUS
<1> SUFFICES ASSUME NEW k \in DOMAIN ops
             PROVE  /\ issued'[ops[k].id].op = ops[k]
                    /\ \A dep \in ops[k].deps :
                         \/ \E j \in DOMAIN ops : ops[j].id = dep
                         \/ Past(ops[k].id, dep)'
                         \/ (epoch = w.epoch => dep \in DOMAIN w.processed)
  BY <1>2 DEF Ordered
<1>3. PICK id : id = ops[k].id
  OBVIOUS
<1>4. id \in DOMAIN issued /\ issued[id].epoch = epoch /\ issued[id].op = ops[k]
  BY <1>1, <1>3 DEF Batch, Ordered
<1>5. issued'[id] = issued[id]
  BY <1>4 DEF Onward
<1>6. epoch \in Nat /\ epoch <= d.epoch /\ d.epoch \in Nat /\ w.epoch \in Nat /\ d.epoch <= w.epoch
  BY <1>1, <1>2, <1>4 DEF SyncInv, Kept, IssuedOk, Onward
<1>7. ASSUME NEW dep \in ops[k].deps
      PROVE  \/ \E j \in DOMAIN ops : ops[j].id = dep
             \/ Past(ops[k].id, dep)'
             \/ (epoch = w.epoch => dep \in DOMAIN w.processed)
  <2>1. dep \in DOMAIN issued
    BY <1>4 DEF Linked
  <2>2. CASE Past(id, dep)
    <3>1. Past(id, dep)'
      BY <1>4, <2>1, <2>2, PastStays
    <3>2. Past(id, dep)' => Past(ops[k].id, dep)'
      BY <1>3 DEF Past
    <3> QED
      BY <3>1, <3>2
  <2>3. CASE epoch = d.epoch => dep \in DOMAIN d.processed
    <3>1. epoch = w.epoch => w.epoch = d.epoch
      BY <1>6
    <3> QED
      BY <1>1, <1>2, <2>3, <3>1 DEF DeviceStep
  <2> QED
    BY <1>1, <1>3, <2>2, <2>3 DEF Ordered
<1> QED
  BY <1>3, <1>4, <1>5, <1>7

\* A batch is closed: with an operation it takes the queued ones that one
\* depends on.
LEMMA ReadyIsClosed ==
  ASSUME NEW s, NEW d, StoreType(s, d), Lined(s),
         NEW k \in DOMAIN Ready(s), NEW dep \in Ready(s)[k].deps, dep \in Queued(s)
  PROVE  \E m \in DOMAIN Ready(s) : Ready(s)[m].id = dep
<1> DEFINE pending == {i \in DOMAIN s.outbox : s.outbox[i].state = "pending"}
           complete(I) == \A i \in I : \A j \in 1..(i - 1) :
                            s.outbox[j].op.id \in s.outbox[i].op.deps => j \in I
           all == UNION {J \in SUBSET pending : complete(J)}
           I == FirstOf(all, PushLimit)
           ready == Those(Ops(s), I)
           n == Len(s.outbox)
<1>1. /\ s.outbox \in Seq(Entry) /\ n \in Nat /\ DOMAIN s.outbox = 1..n
  BY DEF StoreType, QueueType
<1>2. /\ Ops(s) \in Seq(Operation) /\ DOMAIN Ops(s) = 1..n
      /\ \A i \in 1..n : Ops(s)[i] = s.outbox[i].op
  <2>1. \A i \in DOMAIN s.outbox : s.outbox[i] \in Entry
    BY <1>1
  <2>2. \A i \in DOMAIN s.outbox : s.outbox[i].op \in Operation
    BY <2>1 DEF Entry
  <2>3. Ops(s) \in [1..n -> Operation]
    BY <1>1, <2>2 DEF Ops
  <2> QED
    BY <1>1, <2>3 DEF Ops
<1>3. Ready(s) = ready
  BY DEF Ready
<1>4. all \in SUBSET (1..n)
  BY <1>1
<1>5. \A i \in all, j \in 1..n :
        j < i /\ s.outbox[j].op.id \in s.outbox[i].op.deps => j \in all
  <2> SUFFICES ASSUME NEW i \in all, NEW j \in 1..n, j < i,
                      s.outbox[j].op.id \in s.outbox[i].op.deps
               PROVE  j \in all
    OBVIOUS
  <2>1. PICK J \in SUBSET pending : complete(J) /\ i \in J
    OBVIOUS
  <2>2. i \in 1..n
    BY <1>4
  <2>3. j \in 1..(i - 1)
    <3> HIDE DEF all, complete
    <3> QED
      BY <1>1, <2>2
  <2>4. j \in J
    BY <2>1, <2>3
  <2> QED
    BY <2>1, <2>4
<1> HIDE DEF all, n
<1>6. \A i, j \in all : i < j => Rank(all, i) < Rank(all, j)
  BY <1>1, <1>4, Ranks
<1>7. \A i \in all : Rank(all, i) \in Nat
  <2>1. Cardinality(all) \in Nat /\ \A i \in all : Rank(all, i) \in 1..Cardinality(all)
    BY <1>1, <1>4, Ranks
  <2> QED
    BY <2>1
<1>8. I \in SUBSET (DOMAIN Ops(s)) /\ \A i \in I : i \in all /\ Rank(all, i) <= PushLimit
  BY <1>2, <1>4 DEF FirstOf
<1>9. PICK at : Lists(ready, Ops(s), I, at)
  <2> HIDE DEF I
  <2> QED
    BY <1>2, <1>8, ThoseListed
<1>10. /\ \A m \in DOMAIN ready : at[m] \in I /\ ready[m] = Ops(s)[at[m]]
       /\ \A i \in I : \E m \in DOMAIN ready : at[m] = i
  BY <1>9 DEF Lists
<1> HIDE DEF ready
<1>11. PICK i : i = at[k]
  OBVIOUS
<1>12. i \in I /\ i \in all /\ i \in 1..n /\ dep \in s.outbox[i].op.deps
  BY <1>2, <1>3, <1>4, <1>8, <1>10, <1>11
<1>13. PICK j \in DOMAIN s.outbox : s.outbox[j].op.id = dep
  BY DEF Queued
<1>14. j < i
  BY <1>1, <1>12, <1>13 DEF Lined
<1>15. j \in all
  BY <1>1, <1>5, <1>12, <1>13, <1>14
<1>16. j \in I
  <2>1. \A x \in all : Rank(all, x) <= PushLimit => x \in I
    BY DEF FirstOf
  <2> HIDE DEF I
  <2>2. Rank(all, j) < Rank(all, i)
    BY <1>6, <1>12, <1>14, <1>15
  <2>3. Rank(all, i) <= PushLimit
    BY <1>8, <1>12
  <2>4. Rank(all, j) \in Nat /\ Rank(all, i) \in Nat /\ PushLimit \in Nat
    BY <1>7, <1>12, <1>15, SyncAssumption
  <2>5. Rank(all, j) <= PushLimit
    BY <2>2, <2>3, <2>4
  <2> QED
    BY <1>15, <2>1, <2>5
<1>17. PICK m \in DOMAIN ready : at[m] = j
  BY <1>10, <1>16
<1>18. ready[m].id = dep
  BY <1>1, <1>2, <1>10, <1>13, <1>17
<1> QED
  BY <1>3, <1>18

\* The batch a cycle takes: what is not in it of what its operations depend
\* on has been replaced or acknowledged.
LEMMA ReadyIsOrdered ==
  ASSUME SyncInv, Linked, NEW d \in Device, Lined(store[d])
  PROVE  Ordered(db, Ready(store[d]), store[d].epoch)
<1>1. PICK s : s = store[d]
  OBVIOUS
<1>2. PICK ops : ops = Ready(s)
  OBVIOUS
<1>3. PICK base : base = db
  OBVIOUS
<1>4. StoreOk(d) /\ StoreType(s, d) /\ Lined(s)
  BY <1>1 DEF SyncInv, Kept, StoreOk
<1>5. \A k \in DOMAIN ops : \E i \in DOMAIN s.outbox :
        ops[k] = s.outbox[i].op /\ s.outbox[i].state = "pending"
  BY <1>2, <1>4, ReadyIsQueued
<1>6. ASSUME NEW k \in DOMAIN ops
      PROVE  /\ issued[ops[k].id].op = ops[k]
             /\ \A dep \in ops[k].deps :
                  \/ \E j \in DOMAIN ops : ops[j].id = dep
                  \/ Past(ops[k].id, dep)
                  \/ (s.epoch = base.epoch => dep \in DOMAIN base.processed)
  <2>1. PICK id : id = ops[k].id
    OBVIOUS
  <2>2. /\ id \in DOMAIN issued /\ issued[id].epoch = s.epoch
        /\ issued[id].op = ops[k] /\ Owner(id) = d
    BY <1>1, <1>4, <1>5, <2>1 DEF StoreOk, StoreType, QueueType, Lined, Owner
  <2>3. ASSUME NEW dep \in ops[k].deps
        PROVE  \/ \E j \in DOMAIN ops : ops[j].id = dep
               \/ Past(id, dep)
               \/ (s.epoch = base.epoch => dep \in DOMAIN base.processed)
    <3>1. dep \in DOMAIN issued /\ Owner(dep) = d
      BY <2>2 DEF Linked
    <3>2. CASE dep \in Queued(s)
      <4>1. \E j \in DOMAIN Ready(s) : Ready(s)[j].id = dep
        BY <1>2, <1>4, <3>2, ReadyIsClosed
      <4> QED
        BY <1>2, <4>1
    <3>3. CASE dep \notin Queued(s)
      <4>1. \/ dep \in replaced
            \/ dep \in DOMAIN base.processed
            \/ issued[dep].epoch # base.epoch
        BY <1>1, <1>3, <3>1, <3>3 DEF SyncInv, Kept, LocalWorkIsKept, Owner
      <4>2. issued[dep].epoch # base.epoch /\ s.epoch = base.epoch => Past(id, dep)
        BY <1>1, <2>2, <3>1, <3>3 DEF Past
      <4> QED
        BY <4>1, <4>2 DEF Past
    <3> QED
      BY <3>2, <3>3
  <2> QED
    BY <2>1, <2>2, <2>3
<1>7. Ordered(base, ops, s.epoch)
  BY <1>6 DEF Ordered
<1> QED
  BY <1>1, <1>2, <1>3, <1>7

\* The ledger stays in order and the answers are for the operations of the
\* batch, as far as a push has come.
InLine(ops, k, done) ==
  Causal(done.db.changes) /\ \A j \in 1..k : done.results[j].op = ops[j].id

\* An operation that is applied has all it waits for in the ledger: in the
\* batch it was an earlier success, and what is not in the batch was there.
LEMMA PushOpInLine ==
  ASSUME NEW d, NEW ops, IssuedOk, Linked, DbInv(d),
         Batch(ops, d.epoch), Ordered(d, ops, d.epoch),
         NEW m \in Nat, m + 1 \in 1..Len(ops),
         NEW done, Pushed(d, ops, m, done), InLine(ops, m, done)
  PROVE  InLine(ops, m + 1, PushOp(done, ops, m + 1))
<1> DEFINE k == m + 1
           op == ops[k]
           known == {ops[i].id : i \in DOMAIN ops}
           applied == {done.results[j].op : j \in {i \in DOMAIN done.results :
                                                      Succeeded(done.results[i])}}
           blocked == [db |-> done.db,
                       result |-> Result(op, "blocked_dependency", 0, 0, None)]
           free == (op.deps \cap known) \subseteq applied
           reply == IF free THEN ApplyOne(done.db, op) ELSE blocked
           next == PushOp(done, ops, k)
           old == done.db.changes
           new == reply.db.changes
<1>1. ops \in Seq(Operation) /\ DOMAIN ops = 1..Len(ops) /\ k \in DOMAIN ops /\ op \in Operation
  BY DEF Batch
<1>2. next.db = reply.db /\ next.results = Append(done.results, reply.result)
  BY DEF PushOp
<1>3. /\ DbInv(done.db) /\ Extends(d, done.db)
      /\ done.results \in Seq(AnswerType) /\ Len(done.results) = m
      /\ \A i \in 1..m : Succeeded(done.results[i]) => ops[i].id \in DOMAIN done.db.processed
      /\ Causal(old) /\ \A j \in 1..m : done.results[j].op = ops[j].id
  BY DEF Pushed, InLine
<1>4. /\ DbInv(reply.db) /\ Extends(done.db, reply.db)
      /\ free => OnlyNew(done.db, reply.db, op.id)
      /\ ~free => reply.db = done.db
      /\ reply.result.op = op.id /\ reply.result \in AnswerType
  <2>1. Keeps(done.db, op.id, ApplyOne(done.db, op))
    BY <1>1, <1>3, ApplyOneKeeps
  <2>2. /\ blocked.db = done.db /\ blocked.result.op = op.id
        /\ blocked.result \in AnswerType
    BY <1>1 DEF Result, AnswerType, Operation
  <2> HIDE DEF blocked, op
  <2>3. Extends(done.db, done.db)
    BY <1>3, ExtendsReflexive
  <2>4. CASE free
    <3>1. reply = ApplyOne(done.db, op)
      BY <2>4
    <3> HIDE DEF reply, free
    <3> QED
      BY <2>1, <2>4, <3>1 DEF Keeps, Answered
  <2>5. CASE ~free
    <3>1. reply = blocked
      BY <2>5
    <3> HIDE DEF reply, free
    <3> QED
      BY <1>3, <2>2, <2>3, <2>5, <3>1
  <2> QED
    BY <2>4, <2>5
<1>5. ASSUME free, NEW dep \in op.deps
      PROVE  Past(op.id, dep) \/ dep \in DOMAIN done.db.processed
  <2>1. CASE \E j \in DOMAIN ops : ops[j].id = dep
    <3>1. dep \in applied
      BY <1>5, <2>1
    <3>2. PICK j \in DOMAIN done.results :
            Succeeded(done.results[j]) /\ done.results[j].op = dep
      BY <3>1
    <3>3. j \in 1..m
      BY <1>3
    <3> QED
      BY <1>3, <3>2, <3>3
  <2>2. CASE Past(op.id, dep)
    BY <2>2
  <2>3. CASE dep \in DOMAIN d.processed
    BY <1>3, <2>3, ProcessedStays
  <2> QED
    BY <1>1, <1>5, <2>1, <2>2, <2>3 DEF Ordered
<1>6. op.id \in DOMAIN issued /\ issued[op.id].op = op
  BY <1>1 DEF Batch, Ordered
<1>7. /\ Len(old) \in Nat /\ DOMAIN old = 1..Len(old)
      /\ Len(new) \in Nat /\ DOMAIN new = 1..Len(new)
      /\ \A i \in 1..Len(old) : i \in DOMAIN new /\ new[i] = old[i]
  <2>1. \A x : DbInv(x) => x.changes \in Seq(ChangeType)
    BY DEF DbInv, DbType
  <2>3. old \in Seq(ChangeType)
    BY <1>3, <2>1
  <2>4. new \in Seq(ChangeType)
    <3>1. DbInv(reply.db)
      BY <1>4
    <3> HIDE DEF reply
    <3> QED
      BY <2>1, <3>1
  <2>2. Len(old) <= Len(new) /\ \A i \in 1..Len(old) : new[i] = old[i]
    BY <1>4 DEF Extends
  <2> HIDE DEF old, new
  <2> QED
    BY <2>2, <2>3, <2>4
<1>8. \A id \in DOMAIN done.db.processed : \E j \in DOMAIN old : old[j].id = id
  BY <1>3 DEF DbInv, Matched
<1>9. \A i \in DOMAIN new : free /\ i > Len(old) /\ new[i].id \in OpId => new[i].id = op.id
  BY <1>4 DEF OnlyNew
<1>10. ~free => new = old
  BY <1>4
<1>11. \A id \in DOMAIN issued : id \in OpId
  BY SyncAssumption DEF IssuedOk
<1> HIDE DEF old, new, op, reply, next, free, k
<1>12. ASSUME NEW i \in DOMAIN new, new[i].id \in DOMAIN issued,
              NEW dep \in issued[new[i].id].op.deps
       PROVE  Past(new[i].id, dep) \/ \E j \in 1..(i - 1) : new[j].id = dep
  <2>1. CASE i \in DOMAIN old
    <3>1. new[i] = old[i]
      BY <1>7, <2>1
    <3>2. Past(old[i].id, dep) \/ \E j \in 1..(i - 1) : old[j].id = dep
      BY <1>3, <1>12, <2>1, <3>1 DEF Causal
    <3>3. \A j \in 1..(i - 1) : j \in 1..Len(old)
      BY <1>7, <2>1
    <3> QED
      BY <1>7, <3>1, <3>2, <3>3
  <2>2. CASE i \notin DOMAIN old
    <3>1. free /\ i > Len(old) /\ i \in Nat
      BY <1>7, <1>10, <1>12, <2>2
    <3>2. new[i].id = op.id /\ dep \in op.deps
      BY <1>6, <1>9, <1>11, <1>12, <3>1
    <3>3. CASE dep \in DOMAIN done.db.processed
      <4>1. PICK j \in DOMAIN old : old[j].id = dep
        BY <1>8, <3>3
      <4>2. j \in 1..(i - 1) /\ new[j] = old[j]
        BY <1>7, <3>1, <4>1
      <4> QED
        BY <4>1, <4>2
    <3> QED
      BY <1>5, <3>1, <3>2, <3>3
  <2> QED
    BY <2>1, <2>2
<1>13. \A j \in 1..k : next.results[j].op = ops[j].id
  <2> DEFINE q == done.results
             r == reply.result
  <2>1. q \in Seq(AnswerType) /\ r \in AnswerType /\ Len(q) = m /\ k = m + 1
    BY <1>3, <1>4 DEF k
  <2>2. next.results = Append(q, r)
    BY <1>2
  <2>3. r.op = ops[k].id /\ \A j \in 1..m : q[j].op = ops[j].id
    BY <1>3, <1>4 DEF op
  <2> HIDE DEF q, r
  <2>4. /\ \A j \in 1..m : Append(q, r)[j] = q[j]
        /\ Append(q, r)[k] = r
    BY <2>1
  <2>5. \A j \in 1..k : j \in 1..m \/ j = k
    BY <2>1
  <2> QED
    BY <2>2, <2>3, <2>4, <2>5
<1>14. Causal(next.db.changes)
  BY <1>2, <1>12 DEF Causal, new
<1> QED
  BY <1>13, <1>14 DEF InLine, next, k

\* A push puts an operation into the ledger only behind those it waits for.
LEMMA PushIsCausal ==
  ASSUME NEW d, NEW ops, IssuedOk, Linked, Recorded(d), Causal(d.changes),
         Batch(ops, d.epoch), Ordered(d, ops, d.epoch)
  PROVE  Causal(Push(d, ops).db.changes)
<1> DEFINE n == Len(ops)
<1>1. ops \in Seq(Operation) /\ n \in Nat /\ DbInv(d)
  BY DEF Batch, Recorded
<1>2. PICK done : /\ done[0] = [db |-> d, results |-> <<>>]
                  /\ \A k \in 1..n : done[k] = PushOp(done[k - 1], ops, k)
                  /\ Push(d, ops) = done[n]
  BY <1>1, PushSteps
<1> DEFINE Q == {k \in 0..n : Pushed(d, ops, k, done[k]) /\ InLine(ops, k, done[k])}
<1>3. 0 \in Q
  <2> DEFINE start == [db |-> d, results |-> <<>>]
  <2>1. start.db = d /\ start.results = <<>>
    OBVIOUS
  <2>2. Extends(d, d) /\ ToldIn(d.changes, d.changes, d.epoch)
        /\ \A i \in DOMAIN d.changes : ~(i > Len(d.changes))
    BY <1>1, ExtendsReflexive DEF ToldIn, DbInv, DbType
  <2>3. <<>> \in Seq(AnswerType) /\ Len(<<>>) = 0 /\ 1..0 = {}
    OBVIOUS
  <2> HIDE DEF start
  <2>4. Pushed(d, ops, 0, start)
    BY <1>1, <2>1, <2>2, <2>3 DEF Pushed
  <2>5. InLine(ops, 0, start)
    BY <2>1, <2>3 DEF InLine
  <2>6. done[0] = start /\ 0 \in 0..n
    BY <1>1, <1>2 DEF start
  <2> QED
    BY <2>4, <2>5, <2>6
<1>4. ASSUME NEW m \in 0..n, m # n, m \in Q
      PROVE  m + 1 \in Q
  <2>1. m \in Nat /\ m + 1 \in 1..n /\ (m + 1) - 1 = m /\ m + 1 \in 0..n
    <3> HIDE DEF Q
    <3> QED
      BY <1>1, <1>4
  <2>2. Pushed(d, ops, m, done[m]) /\ InLine(ops, m, done[m])
    BY <1>4
  <2>3. done[m + 1] = PushOp(done[m], ops, m + 1)
    BY <1>2, <2>1
  <2>4. Pushed(d, ops, m + 1, done[m + 1])
    BY <1>1, <2>1, <2>2, <2>3, PushOpKeeps
  <2>5. InLine(ops, m + 1, done[m + 1])
    BY <1>1, <2>1, <2>2, <2>3, PushOpInLine
  <2> QED
    BY <2>1, <2>4, <2>5
<1>5. n \in Q
  <2> HIDE DEF Q
  <2>1. \A m \in 0..n : m \in Q
    BY <1>1, <1>3, <1>4, CountingUp
  <2> QED
    BY <1>1, <2>1
<1> QED
  BY <1>2, <1>5 DEF InLine

\* A lifecycle change is no operation of a device.
LEMMA LifecycleIsCausal ==
  ASSUME NEW d, NEW id \in LifecycleId, NEW device, IssuedOk, DbInv(d), Causal(d.changes)
  PROVE  Causal(ToggleSpace(d, id, device).changes)
<1> DEFINE w == ToggleSpace(d, id, device)
           old == d.changes
           new == w.changes
<1>1. /\ Len(new) = Len(old) + 1 /\ \A i \in 1..Len(old) : new[i] = old[i]
      /\ new[Len(old) + 1].id = id
  BY ToggleSpaceTells
<1>2. Len(old) \in Nat /\ DOMAIN old = 1..Len(old)
  BY DEF DbInv, DbType
<1>3. DOMAIN new \subseteq 1..(Len(old) + 1)
  <2>1. w.changes = Append(d.changes, ChangeRow(id, Space, d.space.version + 1, Empty, FALSE, d.epoch))
    BY DEF ToggleSpace, AppendApplied, DbInv, DbType
  <2> QED
    BY <1>2, <2>1
<1>4. id \notin DOMAIN issued
  BY SyncAssumption DEF IssuedOk
<1>5. \A i \in DOMAIN old : old[i].id \in DOMAIN issued =>
        \A dep \in issued[old[i].id].op.deps :
          Past(old[i].id, dep) \/ \E j \in 1..(i - 1) : old[j].id = dep
  BY DEF Causal
<1> HIDE DEF old, new
<1>6. ASSUME NEW i \in DOMAIN new, new[i].id \in DOMAIN issued,
             NEW dep \in issued[new[i].id].op.deps
      PROVE  Past(new[i].id, dep) \/ \E j \in 1..(i - 1) : new[j].id = dep
  <2>1. i # Len(old) + 1
    BY <1>1, <1>4, <1>6
  <2>2. i \in DOMAIN old /\ new[i] = old[i]
    BY <1>1, <1>2, <1>3, <2>1
  <2>3. \A j \in 1..(i - 1) : j \in 1..Len(old) /\ new[j] = old[j]
    BY <1>1, <1>2, <2>2
  <2> QED
    BY <1>5, <1>6, <2>2, <2>3
<1> QED
  BY <1>6 DEF Causal, new

\* A batch that holds what it waits for.
Goes(ops, epoch) == Batch(ops, epoch) /\ Ordered(db, ops, epoch)

\* The batches of the cycles and of the pushes on their way are such.
LEMMA BatchesGo ==
  ASSUME SyncInv, OrderInv
  PROVE  /\ \A t \in Tab : cycle[t].at = "push" => Goes(cycle[t].ops, cycle[t].epoch)
         /\ \A m \in late : Goes(m.ops, m.epoch)
<1>1. ASSUME NEW t \in Tab, cycle[t].at = "push"
      PROVE  Goes(cycle[t].ops, cycle[t].epoch)
  <2>1. Hand(t, cycle[t])
    BY DEF SyncInv, Hands
  <2> QED
    BY <1>1, <2>1 DEF Hand, OrderInv, Goes
<1> QED
  BY <1>1 DEF SyncInv, Sent, OrderInv, Goes

\* A cycle takes a batch from the store alone, and a push on its way from a
\* cycle alone.
LEMMA BatchesStart ==
  ASSUME SyncInv, [Next]_vars
  PROVE  /\ \A t \in Tab : cycle'[t].at = "push" =>
              \/ cycle'[t] = cycle[t]
              \/ /\ cycle'[t].ops = Ready(store[DeviceOf[t]])
                 /\ cycle'[t].epoch = store[DeviceOf[t]].epoch
         /\ \A m \in late' :
              \/ m \in late
              \/ \E t \in Tab : /\ cycle[t].at = "push"
                                /\ m.ops = cycle[t].ops /\ m.epoch = cycle[t].epoch
<1>1. DOMAIN cycle = Tab
  BY DEF SyncInv, Hands
<1>2. ASSUME UNCHANGED cycle \/ \E t \in Tab : \E y : y.at # "push" /\ cycle' = [cycle EXCEPT ![t] = y],
             late' \subseteq late
      PROVE  /\ \A t \in Tab : cycle'[t].at = "push" => cycle'[t] = cycle[t]
             /\ \A m \in late' : m \in late
  BY <1>1, <1>2
<1>3. CASE User
  BY <1>2, <1>3 DEF User, Edit, ChooseResolution, CommitResolution, DismissConflict
<1>4. ASSUME NEW t \in Tab, Step(t), ~StartCycle(t)
      PROVE  /\ \E y : y.at # "push" /\ cycle' = [cycle EXCEPT ![t] = y]
             /\ late' \subseteq late
  <2>1. CASE RequestBootstrap(t)
    <3>1. PICK y : y = [at |-> "activate", snapshot |-> Snapshot(db)]
      OBVIOUS
    <3>2. y.at # "push" /\ cycle' = [cycle EXCEPT ![t] = y] /\ late' = late
      BY <2>1, <3>1 DEF RequestBootstrap, Moves
    <3> QED
      BY <3>2
  <2>2. CASE ServerPush(t)
    <3>1. PICK y : y = [at |-> "results", ops |-> cycle[t].ops,
                        results |-> Push(db, cycle[t].ops).results]
      OBVIOUS
    <3>2. PICK z : z = [at |-> "control"]
      OBVIOUS
    <3>3. y.at # "push" /\ z.at # "push" /\ late' = late
      BY <2>2, <3>1, <3>2 DEF ServerPush
    <3>4. cycle' = [cycle EXCEPT ![t] = y] \/ cycle' = [cycle EXCEPT ![t] = z]
      BY <2>2, <3>1, <3>2 DEF ServerPush, Moves
    <3> QED
      BY <3>3, <3>4
  <2>3. CASE RequestPage(t)
    <3>1. PICK y : y = [at |-> "page", page |-> Page(db, Here(t).cursor, PageLimit)]
      OBVIOUS
    <3>2. PICK z : z = [at |-> "control"]
      OBVIOUS
    <3>3. y.at # "push" /\ z.at # "push" /\ Idle.at # "push" /\ late' = late
      BY <2>3, <3>1, <3>2 DEF RequestPage, Idle
    <3>4. \/ cycle' = [cycle EXCEPT ![t] = y] \/ cycle' = [cycle EXCEPT ![t] = z]
          \/ cycle' = [cycle EXCEPT ![t] = Idle]
      BY <2>3, <3>1, <3>2 DEF RequestPage, Moves
    <3> QED
      BY <3>3, <3>4
  <2>4. CASE ActivateSnapshot(t) \/ ReceiveResults(t) \/ ReceiveControl(t) \/ ReceivePage(t)
    <3>1. PICK y : y = [at |-> "pull"]
      OBVIOUS
    <3>2. y.at # "push" /\ Idle.at # "push" /\ late' = late
      BY <2>4, <3>1 DEF ActivateSnapshot, ReceiveResults, ReceiveControl, ReceivePage, Idle
    <3>3. cycle' = [cycle EXCEPT ![t] = y] \/ cycle' = [cycle EXCEPT ![t] = Idle]
      BY <2>4, <3>1 DEF ActivateSnapshot, ReceiveResults, ReceiveControl, ReceivePage, Moves
    <3> QED
      BY <3>2, <3>3
  <2> QED
    BY <1>4, <2>1, <2>2, <2>3, <2>4 DEF Step
<1>5. ASSUME NEW t \in Tab, StartCycle(t)
      PROVE  /\ \A u \in Tab : cycle'[u].at = "push" =>
                  \/ cycle'[u] = cycle[u]
                  \/ /\ cycle'[u].ops = Ready(store[DeviceOf[u]])
                     /\ cycle'[u].epoch = store[DeviceOf[u]].epoch
             /\ late' = late
  <2>1. PICK ops : ops = Ready(store[DeviceOf[t]])
    OBVIOUS
  <2>2. PICK y : y = [at |-> "push", ops |-> ops, epoch |-> store[DeviceOf[t]].epoch]
    OBVIOUS
  <2>3. PICK z : z = [at |-> "pull"]
    OBVIOUS
  <2>4. cycle' = [cycle EXCEPT ![t] = y] \/ cycle' = [cycle EXCEPT ![t] = z]
    BY <1>5, <2>1, <2>2, <2>3 DEF StartCycle, Moves, Here
  <2>5. y.ops = ops /\ y.epoch = store[DeviceOf[t]].epoch /\ z.at # "push"
    BY <2>2, <2>3
  <2>6. late' = late
    BY <1>5 DEF StartCycle
  <2> QED
    BY <1>1, <2>1, <2>4, <2>5, <2>6
<1>6. ASSUME NEW t \in Tab, Abandon(t)
      PROVE  /\ \A u \in Tab : cycle'[u].at = "push" => cycle'[u] = cycle[u]
             /\ \A m \in late' :
                  \/ m \in late
                  \/ cycle[t].at = "push" /\ m.ops = cycle[t].ops /\ m.epoch = cycle[t].epoch
  <2>1. cycle' = [cycle EXCEPT ![t] = Idle] /\ Idle.at # "push"
    BY <1>6 DEF Abandon, Moves, Idle
  <2>2. PICK x : x = [ops |-> cycle[t].ops, epoch |-> cycle[t].epoch]
    OBVIOUS
  <2>3. late' = late \/ (cycle[t].at = "push" /\ late' = late \cup {x})
    BY <1>6, <2>2 DEF Abandon
  <2>4. x.ops = cycle[t].ops /\ x.epoch = cycle[t].epoch
    BY <2>2
  <2> QED
    BY <1>1, <2>1, <2>3, <2>4
<1>7. ASSUME NEW m, LatePush(m)
      PROVE  UNCHANGED cycle /\ late' \subseteq late
  BY <1>7 DEF LatePush
<1>8. CASE Server
  BY <1>2, <1>8 DEF Server, Lifecycle, TakeBackup, RestoreBackup
<1>9. CASE UNCHANGED vars
  BY <1>2, <1>9 DEF vars
<1>10. ASSUME NEW t \in Tab, Step(t)
       PROVE  /\ \A u \in Tab : cycle'[u].at = "push" =>
                   \/ cycle'[u] = cycle[u]
                   \/ /\ cycle'[u].ops = Ready(store[DeviceOf[u]])
                      /\ cycle'[u].epoch = store[DeviceOf[u]].epoch
              /\ \A m \in late' : m \in late
  BY <1>2, <1>4, <1>5, <1>10
<1>11. CASE Fault
  BY <1>2, <1>6, <1>7, <1>11 DEF Fault
<1> QED
  BY <1>3, <1>8, <1>9, <1>10, <1>11 DEF Next

\* What a step makes of the ledger: a push or a lifecycle change takes it
\* further, a restore puts the dump in its place.
LEMMA LedgersMove ==
  ASSUME SyncInv, OrderInv, [Next]_vars
  PROVE  \/ /\ db'.changes \in {db.changes, backup.changes}
            /\ backup'.changes \in {db.changes, backup.changes}
            /\ db'.epoch = db.epoch => db'.changes = db.changes
         \/ /\ UNCHANGED <<backup, store, issued, replaced>>
            /\ \/ \E ops : Goes(ops, db.epoch) /\ db' = Push(db, ops).db
               \/ \E id \in LifecycleId, d \in Device : db' = ToggleSpace(db, id, d)
<1>1. CASE User
  BY <1>1 DEF User, Edit, ChooseResolution, CommitResolution, DismissConflict, server
<1>2. ASSUME NEW t \in Tab, Step(t)
      PROVE  UNCHANGED server \/ ServerPush(t)
  BY <1>2 DEF Step, RequestBootstrap, ActivateSnapshot, StartCycle, ReceiveResults,
     ReceiveControl, RequestPage, ReceivePage
<1>3. ASSUME NEW t \in Tab, ServerPush(t)
      PROVE  /\ UNCHANGED <<backup, store, issued, replaced>>
             /\ UNCHANGED db \/ \E ops : Goes(ops, db.epoch) /\ db' = Push(db, ops).db
  <2>1. PICK ops : ops = cycle[t].ops
    OBVIOUS
  <2>2. Goes(ops, cycle[t].epoch)
    BY <1>3, <2>1, BatchesGo DEF ServerPush
  <2>3. UNCHANGED db \/ (cycle[t].epoch = db.epoch /\ db' = Push(db, ops).db)
    BY <1>3, <2>1 DEF ServerPush
  <2>4. UNCHANGED <<backup, store, issued, replaced>>
    BY <1>3 DEF ServerPush, history
  <2> QED
    BY <2>2, <2>3, <2>4
<1>4. ASSUME NEW m, LatePush(m)
      PROVE  /\ UNCHANGED <<backup, store, issued, replaced>>
             /\ UNCHANGED db \/ \E ops : Goes(ops, db.epoch) /\ db' = Push(db, ops).db
  <2>1. PICK ops : ops = m.ops
    OBVIOUS
  <2>2. Goes(ops, m.epoch)
    BY <1>4, <2>1, BatchesGo DEF LatePush
  <2>3. UNCHANGED db \/ (m.epoch = db.epoch /\ db' = Push(db, ops).db)
    BY <1>4, <2>1 DEF LatePush
  <2>4. UNCHANGED <<backup, store, issued, replaced>>
    BY <1>4 DEF LatePush, history
  <2> QED
    BY <2>2, <2>3, <2>4
<1>5. ASSUME NEW t \in Tab, Abandon(t)
      PROVE  UNCHANGED server
  BY <1>5 DEF Abandon
<1>6. ASSUME NEW id \in LifecycleId, Lifecycle(id)
      PROVE  /\ UNCHANGED <<backup, store, issued, replaced>>
             /\ \E d \in Device : db' = ToggleSpace(db, id, d)
  <2>1. PICK d \in Device : d = CHOOSE x \in Device : TRUE
    BY SyncAssumption
  <2>2. db' = ToggleSpace(db, id, d)
    BY <1>6, <2>1 DEF Lifecycle
  <2> QED
    BY <1>6, <2>2 DEF Lifecycle, history
<1>7. CASE TakeBackup
  BY <1>7 DEF TakeBackup
<1>8. CASE RestoreBackup
  <2>1. PICK d : d = backup
    OBVIOUS
  <2>2. PICK w : w = [d EXCEPT !.epoch = db.epoch + 1]
    OBVIOUS
  <2>3. DOMAIN d = {"space", "row", "conflicts", "changes", "processed", "epoch", "retained"}
    BY <2>1 DEF SyncInv, Kept, Recorded, DbInv, DbType
  <2>4. w.changes = d.changes /\ w.epoch = db.epoch + 1
    BY <2>2, <2>3
  <2>5. db' = w /\ backup' = d
    BY <1>8, <2>1, <2>2 DEF RestoreBackup
  <2>6. db.epoch \in Nat
    BY DEF SyncInv, Kept, Recorded, DbInv, DbType
  <2> QED
    BY <2>1, <2>4, <2>5, <2>6
<1>9. UNCHANGED server =>
        /\ db'.changes \in {db.changes, backup.changes}
        /\ backup'.changes \in {db.changes, backup.changes}
        /\ db'.epoch = db.epoch => db'.changes = db.changes
  BY DEF server
<1>10. UNCHANGED db /\ UNCHANGED backup => UNCHANGED server
  BY DEF server
<1>11. CASE UNCHANGED vars
  BY <1>9, <1>11 DEF vars, server
<1>12. CASE \E t \in Tab : Step(t)
  BY <1>2, <1>3, <1>9, <1>10, <1>12
<1>13. CASE Fault
  BY <1>4, <1>5, <1>9, <1>10, <1>13 DEF Fault
<1>14. CASE Server
  BY <1>6, <1>7, <1>8, <1>14 DEF Server
<1> QED
  BY <1>1, <1>9, <1>11, <1>12, <1>13, <1>14 DEF Next

\* Every step keeps the order.
LEMMA OrderKeeps ==
  ASSUME SyncInv, OrderInv, [Next]_vars
  PROVE  OrderInv'
<1>1. SyncInv' /\ Onward /\ DeviceStep
  BY StepKeeps
<1>2. Linked'
  BY <1>1, LinkedStays DEF OrderInv
<1>3. ASSUME NEW d \in Device
      PROVE  Lined(store[d])'
  BY <1>1, LinedStays DEF OrderInv
<1>4. Recorded(db) /\ Recorded(backup) /\ IssuedOk /\ DbInv(db) /\ DbInv(backup)
  BY DEF SyncInv, Kept, Recorded
<1>5. \A q \in {db.changes, backup.changes} : Causal(q)'
  <2>1. PICK x : x = db
    OBVIOUS
  <2>2. PICK y : y = backup
    OBVIOUS
  <2>3. Recorded(x) /\ Recorded(y) /\ Causal(x.changes) /\ Causal(y.changes)
    BY <1>4, <2>1, <2>2 DEF OrderInv
  <2>4. Causal(x.changes)' /\ Causal(y.changes)'
    BY <1>1, <2>3, CausalStays DEF OrderInv
  <2> SUFFICES ASSUME NEW q \in {x.changes, y.changes} PROVE Causal(q)'
    BY <2>1, <2>2
  <2>5. CASE q = x.changes
    BY <2>4, <2>5 DEF Causal
  <2>6. CASE q = y.changes
    BY <2>4, <2>6 DEF Causal
  <2> QED
    BY <2>5, <2>6
<1>6. Causal(db.changes)' /\ Causal(backup.changes)'
  <2>1. PICK q : q = db'.changes
    OBVIOUS
  <2>2. PICK r : r = backup'.changes
    OBVIOUS
  <2>3. Causal(q)' /\ Causal(r)' => Causal(db.changes)' /\ Causal(backup.changes)'
    BY <2>1, <2>2 DEF Causal
  <2>4. CASE q \in {db.changes, backup.changes} /\ r \in {db.changes, backup.changes}
    BY <1>5, <2>3, <2>4
  <2>5. ASSUME UNCHANGED <<store, issued, replaced>>, Causal(q)
        PROVE  Causal(q)'
    BY <2>5 DEF Causal, Past, Owner
  <2>6. CASE UNCHANGED <<backup, store, issued, replaced>> /\ Causal(q)
    <3>1. r \in {db.changes, backup.changes}
      BY <2>2, <2>6
    <3> QED
      BY <1>5, <2>3, <2>5, <2>6, <3>1
  <2>7. ASSUME NEW ops, Goes(ops, db.epoch), db' = Push(db, ops).db
        PROVE  Causal(q)
    <3>1. Causal(Push(db, ops).db.changes)
      <4>1. PICK d : d = db
        OBVIOUS
      <4>2. /\ Recorded(d) /\ Causal(d.changes) /\ Linked
            /\ Batch(ops, d.epoch) /\ Ordered(d, ops, d.epoch)
        BY <1>4, <2>7, <4>1 DEF OrderInv, Goes
      <4>3. Causal(Push(d, ops).db.changes)
        BY <1>4, <4>2, PushIsCausal
      <4> QED
        BY <4>1, <4>3
    <3> QED
      BY <2>1, <2>7, <3>1
  <2>8. ASSUME NEW id \in LifecycleId, NEW device \in Device, db' = ToggleSpace(db, id, device)
        PROVE  Causal(q)
    <3>1. Causal(ToggleSpace(db, id, device).changes)
      BY <1>4, LifecycleIsCausal DEF OrderInv
    <3> QED
      BY <2>1, <2>8, <3>1
  <2> QED
    BY <2>1, <2>2, <2>4, <2>6, <2>7, <2>8, LedgersMove
<1>7. ASSUME NEW ops, NEW epoch, Goes(ops, epoch)
      PROVE  Ordered(db, ops, epoch)'
  BY <1>1, <1>7, OrderedStays DEF OrderInv, Goes
<1>8. ASSUME NEW t \in Tab, cycle'[t].at = "push"
      PROVE  Ordered(db, cycle[t].ops, cycle[t].epoch)'
  <2>1. PICK ops : ops = cycle'[t].ops
    OBVIOUS
  <2>2. PICK epoch : epoch = cycle'[t].epoch
    OBVIOUS
  <2>3. Goes(ops, epoch)
    <3>1. CASE cycle'[t] = cycle[t]
      BY <1>8, <2>1, <2>2, <3>1, BatchesGo
    <3>2. CASE cycle'[t] # cycle[t]
      <4>1. PICK d \in Device : d = DeviceOf[t]
        BY SyncAssumption
      <4>2. ops = Ready(store[d]) /\ epoch = store[d].epoch
        BY <1>8, <2>1, <2>2, <3>2, <4>1, BatchesStart
      <4>3. PICK s : s = store[d]
        OBVIOUS
      <4>4. StoreOk(d) /\ StoreType(s, d)
        BY <4>3 DEF SyncInv, Kept, StoreOk
      <4>5. /\ ops \in Seq(Operation)
            /\ \A k \in DOMAIN ops : \E i \in DOMAIN s.outbox :
                 ops[k] = s.outbox[i].op /\ s.outbox[i].state = "pending"
        BY <4>2, <4>3, <4>4, ReadyIsQueued
      <4>6. Batch(ops, epoch)
        BY <4>2, <4>3, <4>4, <4>5 DEF Batch, StoreOk
      <4>7. Ordered(db, Ready(store[d]), store[d].epoch)
        BY ReadyIsOrdered DEF OrderInv
      <4> QED
        BY <4>2, <4>6, <4>7 DEF Goes
    <3> QED
      BY <3>1, <3>2
  <2>4. Ordered(db, ops, epoch)'
    BY <1>7, <2>3
  <2> QED
    BY <2>1, <2>2, <2>4 DEF Ordered
<1>9. ASSUME NEW m \in late'
      PROVE  Ordered(db, m.ops, m.epoch)'
  <2>1. PICK ops : ops = m.ops
    OBVIOUS
  <2>2. PICK epoch : epoch = m.epoch
    OBVIOUS
  <2>3. Goes(ops, epoch)
    BY <1>9, <2>1, <2>2, BatchesGo, BatchesStart
  <2>4. Ordered(db, ops, epoch)'
    BY <1>7, <2>3
  <2> QED
    BY <2>1, <2>2, <2>4 DEF Ordered
<1> QED
  BY <1>2, <1>3, <1>6, <1>8, <1>9 DEF OrderInv

\* An empty ledger, empty queues and no batches are in order.
LEMMA InitOrder == Init => OrderInv
<1> SUFFICES ASSUME Init PROVE OrderInv
  OBVIOUS
<1>1. DOMAIN issued = {} /\ DOMAIN EmptyDb.changes = {} /\ db = EmptyDb /\ backup = EmptyDb
  BY DEF Init, EmptyDb
<1>2. \A d \in Device : DOMAIN store[d].outbox = {}
  BY DEF Init, EmptyStore
<1>3. late = {} /\ \A t \in Tab : cycle[t].at # "push"
  BY DEF Init, Idle
<1> QED
  BY <1>1, <1>2, <1>3 DEF OrderInv, Linked, Lined, Causal

\* The order of a device's own work is kept from its outbox to the ledger:
\* an outbox lists an operation behind those it depends on, a batch takes
\* those along or finds them processed, and the ledger has them first, unless
\* a resolution has taken their place or they were made in another epoch and
\* have left the outbox.
THEOREM OrderInvariance == Spec => []OrderInv
<1>1. SyncInv /\ OrderInv /\ [Next]_vars => OrderInv'
  BY OrderKeeps
<1> QED
  BY <1>1, InitOrder, SyncInvariance, PTL DEF Spec

-----------------------------------------------------------------------------
(* One tab per device.                                                     *)

\* No two tabs run cycles over the same store.
OneTab == \A t, u \in Tab : DeviceOf[t] = DeviceOf[u] => t = u

\* A cursor of that epoch lies within the ledger.
Within(epoch, cursor) == epoch = db.epoch => cursor <= Len(db.changes)

\* An operation was made in no later epoch than that of its device's store,
\* on top of operations of no later epoch than its own; those of an earlier
\* one are still isolated, unless a resolution has taken their place.
Aged ==
  \A id \in DOMAIN issued :
    /\ store[Owner(id)].epoch # None /\ issued[id].epoch <= store[Owner(id)].epoch
    /\ \A dep \in issued[id].op.deps :
         /\ issued[dep].epoch <= issued[id].epoch
         /\ issued[dep].epoch # issued[id].epoch =>
              dep \in Queued(store[Owner(dep)]) \/ dep \in replaced

\* What a cycle has in its hands is of the epoch of store s, and not behind
\* its cursor.
Holds(s, x) ==
  /\ x.at = "activate" =>
       /\ s.epoch # None => s.epoch <= x.snapshot.epoch
       /\ s.epoch = x.snapshot.epoch => s.cursor <= x.snapshot.cursor
       /\ Within(x.snapshot.epoch, x.snapshot.cursor)
  /\ x.at = "push" => x.epoch = s.epoch
  /\ x.at = "results" =>
       \A k \in DOMAIN x.ops :
         x.ops[k].id \in DOMAIN issued /\ issued[x.ops[k].id].epoch = s.epoch
  /\ x.at = "page" => s.cursor <= x.page.to /\ Within(s.epoch, x.page.to)

TabInv ==
  /\ Aged
  /\ \A d \in Device : Within(store[d].epoch, store[d].cursor)
  /\ \A t \in Tab : Holds(store[DeviceOf[t]], cycle[t])

\* Within an epoch the ledger grows.
LEMMA LedgerGrows ==
  ASSUME SyncInv, OrderInv, [Next]_vars, db'.epoch = db.epoch
  PROVE  Len(db.changes) <= Len(db'.changes)
<1>1. PICK d : d = db
  OBVIOUS
<1>2. DbInv(d) /\ Len(d.changes) \in Nat
  BY <1>1 DEF SyncInv, Kept, Recorded, DbInv, DbType
<1>3. CASE db'.changes = db.changes
  BY <1>1, <1>2, <1>3
<1>4. ASSUME NEW ops, Goes(ops, d.epoch), db' = Push(d, ops).db
      PROVE  Len(d.changes) <= Len(db'.changes)
  <2>1. ops \in Seq(Operation)
    BY <1>4 DEF Goes, Batch
  <2>2. Pushed(d, ops, Len(ops), Push(d, ops))
    BY <1>2, <2>1, PushKeeps
  <2> QED
    BY <1>4, <2>2 DEF Pushed, Extends
<1>5. ASSUME NEW id \in LifecycleId, NEW device \in Device, db' = ToggleSpace(d, id, device)
      PROVE  Len(d.changes) <= Len(db'.changes)
  <2>1. Len(ToggleSpace(d, id, device).changes) = Len(d.changes) + 1
    BY <1>2, ToggleSpaceTells
  <2> QED
    BY <1>2, <1>5, <2>1
<1> QED
  BY <1>1, <1>3, <1>4, <1>5, LedgersMove

\* A cursor stays within the ledger.
LEMMA WithinStays ==
  ASSUME SyncInv, OrderInv, [Next]_vars, NEW epoch \in Nat \cup {None}, NEW cursor \in Nat,
         epoch # None => epoch <= db.epoch, Within(epoch, cursor)
  PROVE  Within(epoch, cursor)'
<1>1. db.epoch \in Nat /\ db'.epoch \in Nat /\ db.epoch <= db'.epoch
  BY StepKeeps DEF Onward
<1>2. Len(db.changes) \in Nat /\ Len(db'.changes) \in Nat
  <2>1. DbInv(db) /\ DbInv(db)'
    BY StepKeeps DEF SyncInv, Kept, Recorded
  <2>2. \A x : DbInv(x) => Len(x.changes) \in Nat
    BY DEF DbInv, DbType
  <2>3. PICK w : w = db'
    OBVIOUS
  <2>4. DbInv(w)
    BY <2>1, <2>3 DEF DbInv, DbType, Matched
  <2> QED
    BY <2>1, <2>2, <2>3, <2>4
<1> SUFFICES ASSUME epoch = db'.epoch PROVE cursor <= Len(db'.changes)
  BY DEF Within
<1>3. epoch \in Nat /\ epoch <= db.epoch
  BY <1>1, SyncAssumption
<1>4. epoch = db.epoch
  BY <1>1, <1>3
<1>5. Len(db.changes) <= Len(db'.changes) /\ cursor <= Len(db.changes)
  BY <1>4, LedgerGrows DEF Within
<1> QED
  BY <1>2, <1>5

\* The stores stand, or one takes what a cycle of its device has brought.
LEMMA StoresMove ==
  ASSUME SyncInv, [Next]_vars
  PROVE  StoresStand \/ \E t \in Tab : TakesIn(t)
<1>1. UNCHANGED store => StoresStand
  BY DEF StoresStand, Stands
<1>2. CASE User
  <2>1. ASSUME NEW d \in Device, NEW e \in Entity, NEW type \in Edits, Edit(d, e, type)
        PROVE  StoresStand
    BY <2>1, EditKeeps
  <2>2. ASSUME NEW d \in Device, NEW c \in DOMAIN store[d].conflicts,
               NEW choice \in ResolutionChoices, ChooseResolution(d, c, choice)
        PROVE  StoresStand
    BY <1>1, <2>2 DEF ChooseResolution
  <2>3. ASSUME NEW d \in Device, NEW c \in DOMAIN store[d].conflicts, DismissConflict(d, c)
        PROVE  StoresStand
    BY <2>3, DismissConflictKeeps
  <2>4. ASSUME NEW d \in Device, CommitResolution(d)
        PROVE  StoresStand
    BY <2>4, CommitResolutionKeeps
  <2> QED
    BY <1>2, <2>1, <2>2, <2>3, <2>4 DEF User
<1>3. ASSUME NEW t \in Tab, Step(t)
      PROVE  StoresStand \/ TakesIn(t)
  <2>1. CASE RequestBootstrap(t) \/ StartCycle(t) \/ ServerPush(t) \/ RequestPage(t)
    BY <1>1, <2>1 DEF RequestBootstrap, StartCycle, ServerPush, RequestPage
  <2> QED
    BY <1>3, <2>1, ActivateSnapshotKeeps, ReceiveResultsKeeps, ReceiveControlKeeps,
       ReceivePageKeeps DEF Step
<1>4. CASE Fault \/ Server \/ UNCHANGED vars
  BY <1>1, <1>4 DEF Fault, Abandon, LatePush, Server, Lifecycle, TakeBackup, RestoreBackup, vars
<1> QED
  BY <1>2, <1>3, <1>4 DEF Next

\* A cycle keeps what it has, or lets it go, or gets something that is of the
\* epoch of its store.
LEMMA CycleGets ==
  ASSUME SyncInv, OrderInv, TabInv, [Next]_vars, NEW t \in Tab
  PROVE  \/ cycle'[t] = cycle[t]
         \/ cycle'[t].at \in {"idle", "pull", "control"}
         \/ Holds(store[DeviceOf[t]], cycle[t])'
<1>1. PICK d \in Device : d = DeviceOf[t]
  BY SyncAssumption
<1>2. PICK s : s = store[d]
  OBVIOUS
<1>3. DOMAIN cycle = Tab /\ Hand(t, cycle[t])
  BY DEF SyncInv, Hands
<1>4. PICK base : base = db
  OBVIOUS
<1>5. /\ StoreOk(d) /\ DbInv(base) /\ s.cursor \in Nat /\ s.epoch \in Nat \cup {None}
      /\ base.epoch \in Nat /\ Len(base.changes) \in Nat
  BY <1>2, <1>4 DEF SyncInv, Kept, Recorded, StoreOk, StoreType, DbInv, DbType
<1>6. (s.epoch # None => s.epoch <= base.epoch) /\ Within(s.epoch, s.cursor)
  BY <1>2, <1>4, <1>5 DEF StoreOk, TabInv
<1>7. CASE RequestBootstrap(t)
  <2>1. PICK snapshot : snapshot = Snapshot(base)
    OBVIOUS
  <2>2. PICK x : x = [at |-> "activate", snapshot |-> snapshot]
    OBVIOUS
  <2>3. cycle'[t] = x /\ db' = base /\ store'[d] = s
    BY <1>2, <1>3, <1>4, <1>7, <2>1, <2>2 DEF RequestBootstrap, Moves, server
  <2>4. snapshot.epoch = base.epoch /\ snapshot.cursor = Len(base.changes)
    BY <1>5, <2>1, SnapshotTyped
  <2>5. x.at = "activate" /\ x.snapshot = snapshot
    BY <2>2
  <2>6. /\ s.epoch # None => s.epoch <= snapshot.epoch
        /\ s.epoch = snapshot.epoch => s.cursor <= snapshot.cursor
        /\ snapshot.cursor <= Len(base.changes)
    BY <1>4, <1>5, <1>6, <2>4 DEF Within
  <2> QED
    BY <1>1, <2>3, <2>5, <2>6 DEF Holds, Within
<1>8. CASE StartCycle(t)
  <2>1. PICK ops : ops = Ready(s)
    OBVIOUS
  <2>2. PICK x : x = [at |-> "push", ops |-> ops, epoch |-> s.epoch]
    OBVIOUS
  <2>3. PICK y : y = [at |-> "pull"]
    OBVIOUS
  <2>4. (cycle'[t] = x \/ cycle'[t] = y) /\ store'[d] = s
    BY <1>1, <1>2, <1>3, <1>8, <2>1, <2>2, <2>3 DEF StartCycle, Moves, Here
  <2>5. x.at = "push" /\ x.epoch = s.epoch /\ y.at = "pull"
    BY <2>2, <2>3
  <2> QED
    BY <1>1, <2>4, <2>5 DEF Holds
<1>9. CASE ServerPush(t)
  <2>1. PICK ops : ops = cycle[t].ops
    OBVIOUS
  <2>2. PICK x : x = [at |-> "results", ops |-> ops, results |-> Push(base, ops).results]
    OBVIOUS
  <2>3. PICK y : y = [at |-> "control"]
    OBVIOUS
  <2>4. /\ cycle'[t] = x \/ cycle'[t] = y
        /\ store'[d] = s /\ issued' = issued /\ cycle[t].at = "push"
    BY <1>2, <1>3, <1>4, <1>9, <2>1, <2>2, <2>3 DEF ServerPush, Moves, history
  <2>5. Batch(ops, s.epoch)
    BY <1>1, <1>2, <1>3, <2>1, <2>4 DEF Hand, TabInv, Holds
  <2>6. x.at = "results" /\ x.ops = ops /\ y.at = "control"
    BY <2>2, <2>3
  <2>7. \A k \in DOMAIN x.ops :
          x.ops[k].id \in DOMAIN issued' /\ issued'[x.ops[k].id].epoch = s.epoch
    BY <2>4, <2>5, <2>6 DEF Batch
  <2> QED
    BY <1>1, <2>4, <2>6, <2>7 DEF Holds
<1>10. CASE RequestPage(t)
  <2>1. PICK cursor : cursor = s.cursor
    OBVIOUS
  <2>2. PICK page : page = Page(base, cursor, PageLimit)
    OBVIOUS
  <2>3. PICK x : x = [at |-> "page", page |-> page]
    OBVIOUS
  <2>4. PICK y : y = [at |-> "control"]
    OBVIOUS
  <2>5. /\ \/ cycle'[t] = y \/ cycle'[t] = Idle
           \/ cycle'[t] = x /\ s.epoch = base.epoch
        /\ store'[d] = s /\ db' = base
    BY <1>1, <1>2, <1>3, <1>4, <1>10, <2>1, <2>2, <2>3, <2>4
       DEF RequestPage, Moves, Here, server
  <2>6. x.at = "page" /\ x.page = page /\ y.at = "control" /\ Idle.at = "idle"
    BY <2>3, <2>4 DEF Idle
  <2>7. /\ cursor <= page.to
        /\ cursor <= Len(base.changes) => page.to <= Len(base.changes)
    BY <1>5, <2>1, <2>2, PageGoesOn
  <2>8. s.epoch = base.epoch => s.cursor <= Len(base.changes)
    BY <1>4, <1>6 DEF Within
  <2>9. CASE cycle'[t] = x /\ s.epoch = base.epoch
    BY <1>1, <2>1, <2>5, <2>6, <2>7, <2>8, <2>9 DEF Holds, Within
  <2> QED
    BY <2>5, <2>6, <2>9
<1>11. CASE ActivateSnapshot(t) \/ ReceiveResults(t) \/ ReceivePage(t)
  BY <1>11, ActivateSnapshotKeeps, ReceiveResultsKeeps, ReceivePageKeeps DEF TakesIn
<1>12. CASE ReceiveControl(t) \/ Abandon(t)
  BY <1>3, <1>12 DEF ReceiveControl, Abandon, Moves, Idle
<1>13. CASE \E u \in Tab : u # t /\ (Step(u) \/ Abandon(u))
  <2>1. PICK u \in Tab : u # t /\ (Step(u) \/ Abandon(u))
    BY <1>13
  <2>2. ASSUME NEW y, cycle' = [cycle EXCEPT ![u] = y]
        PROVE  cycle'[t] = cycle[t]
    BY <1>3, <2>1, <2>2
  <2>3. \E y : cycle' = [cycle EXCEPT ![u] = y]
    <3>2. CASE RequestBootstrap(u) \/ ActivateSnapshot(u)
      BY <3>2 DEF RequestBootstrap, ActivateSnapshot, Moves
    <3>3. CASE StartCycle(u)
      BY <3>3 DEF StartCycle, Moves
    <3>4. CASE ServerPush(u)
      BY <3>4 DEF ServerPush, Moves
    <3>5. CASE ReceiveResults(u) \/ ReceiveControl(u) \/ Abandon(u)
      BY <3>5 DEF ReceiveResults, ReceiveControl, Abandon, Moves
    <3>6. CASE RequestPage(u)
      BY <3>6 DEF RequestPage, Moves
    <3>7. CASE ReceivePage(u)
      BY <3>7 DEF ReceivePage, Moves
    <3> QED
      BY <2>1, <3>2, <3>3, <3>4, <3>5, <3>6, <3>7 DEF Step
  <2> QED
    BY <2>2, <2>3
<1>14. CASE UNCHANGED cycle
  BY <1>14
<1>15. CASE User
  BY <1>14, <1>15 DEF User, Edit, ChooseResolution, CommitResolution, DismissConflict
<1>16. CASE Server \/ (\E m \in late : LatePush(m)) \/ UNCHANGED vars
  BY <1>14, <1>16 DEF Server, Lifecycle, TakeBackup, RestoreBackup, LatePush, vars
<1>17. CASE Step(t)
  BY <1>7, <1>8, <1>9, <1>10, <1>11, <1>12, <1>17 DEF Step
<1> QED
  BY <1>12, <1>13, <1>15, <1>16, <1>17 DEF Next, Fault

\* What a cycle has in its hands stays good while its store stands.
LEMMA HoldsStays ==
  ASSUME SyncInv, OrderInv, [Next]_vars, NEW d \in Device, NEW x, NEW gone,
         x.at = "activate" => ToldSnapshot(x.snapshot) /\ x.snapshot.epoch <= db.epoch,
         x.at = "page" => x.page.to \in Nat,
         Stands(d, gone), Holds(store[d], x)
  PROVE  Holds(store[d], x)'
<1>1. PICK s : s = store[d]
  OBVIOUS
<1>2. PICK w : w = store'[d]
  OBVIOUS
<1>3. w.epoch = s.epoch /\ w.cursor = s.cursor /\ Holds(s, x)
  BY <1>1, <1>2 DEF Stands
<1>4. s.epoch \in Nat \cup {None} /\ (s.epoch # None => s.epoch <= db.epoch)
  BY <1>1 DEF SyncInv, Kept, StoreOk, StoreType
<1>5. ASSUME x.at = "activate"
      PROVE  Within(x.snapshot.epoch, x.snapshot.cursor)'
  <2>1. PICK epoch : epoch = x.snapshot.epoch
    OBVIOUS
  <2>2. PICK cursor : cursor = x.snapshot.cursor
    OBVIOUS
  <2>3. Within(epoch, cursor)'
    BY <1>3, <1>5, <2>1, <2>2, WithinStays DEF Holds, ToldSnapshot
  <2> QED
    BY <2>1, <2>2, <2>3 DEF Within
<1>6. ASSUME x.at = "page"
      PROVE  Within(s.epoch, x.page.to)'
  <2>1. PICK epoch : epoch = s.epoch
    OBVIOUS
  <2>2. PICK to : to = x.page.to
    OBVIOUS
  <2>3. Within(epoch, to)'
    BY <1>3, <1>4, <1>6, <2>1, <2>2, WithinStays DEF Holds
  <2> QED
    BY <2>1, <2>2, <2>3 DEF Within
<1>7. \A id \in DOMAIN issued : id \in DOMAIN issued' /\ issued'[id] = issued[id]
  BY StepKeeps DEF Onward
<1>8. Within(s.epoch, x.page.to)' => Within(w.epoch, x.page.to)'
  BY <1>3 DEF Within
<1>9. Holds(w, x)'
  BY <1>3, <1>5, <1>6, <1>7, <1>8 DEF Holds
<1> QED
  BY <1>2, <1>9 DEF Holds, Within

\* A store goes forward: its epoch does not sink, within an epoch its cursor
\* does not, and it stays within the ledger.
Forward(d) ==
  /\ store[d].epoch # None => store'[d].epoch # None /\ store[d].epoch <= store'[d].epoch
  /\ store'[d].epoch = store[d].epoch => store[d].cursor <= store'[d].cursor
  /\ Within(store[d].epoch, store[d].cursor)'

LEMMA StoreForward ==
  ASSUME SyncInv, OrderInv, TabInv, [Next]_vars, NEW d \in Device
  PROVE  Forward(d)
<1>1. PICK s : s = store[d]
  OBVIOUS
<1>2. PICK w : w = store'[d]
  OBVIOUS
<1>3. /\ s.epoch \in Nat \cup {None} /\ (s.epoch # None => s.epoch <= db.epoch)
      /\ s.cursor \in Nat /\ Within(s.epoch, s.cursor) /\ None \notin Nat
  BY <1>1, SyncAssumption DEF SyncInv, Kept, StoreOk, StoreType, TabInv
<1>4. SUFFICES /\ s.epoch # None => w.epoch # None /\ s.epoch <= w.epoch
               /\ w.epoch = s.epoch => s.cursor <= w.cursor
               /\ Within(w.epoch, w.cursor)'
  BY <1>1, <1>2 DEF Forward, Within
<1>5. ASSUME NEW gone, Stands(d, gone)
      PROVE  /\ s.epoch # None => w.epoch # None /\ s.epoch <= w.epoch
             /\ w.epoch = s.epoch => s.cursor <= w.cursor
             /\ Within(w.epoch, w.cursor)'
  <2>1. w.epoch = s.epoch /\ w.cursor = s.cursor
    BY <1>1, <1>2, <1>5 DEF Stands
  <2>2. PICK epoch : epoch = s.epoch
    OBVIOUS
  <2>3. PICK cursor : cursor = s.cursor
    OBVIOUS
  <2>4. Within(epoch, cursor)'
    BY <1>3, <2>2, <2>3, WithinStays
  <2>5. Within(w.epoch, w.cursor)'
    BY <2>1, <2>2, <2>3, <2>4 DEF Within
  <2> QED
    BY <1>3, <2>1, <2>5
<1>6. ASSUME NEW t \in Tab, TakesIn(t), d = DeviceOf[t]
      PROVE  /\ s.epoch # None => w.epoch # None /\ s.epoch <= w.epoch
             /\ w.epoch = s.epoch => s.cursor <= w.cursor
             /\ Within(w.epoch, w.cursor)'
  <2>1. PICK x : x = cycle[t]
    OBVIOUS
  <2>2. Hand(t, x) /\ Holds(s, x)
    BY <1>1, <1>6, <2>1 DEF SyncInv, Hands, TabInv
  <2>3. CASE x.at = "results"
    BY <1>5, <1>6, <2>1, <2>3 DEF TakesIn
  <2>4. CASE x.at = "activate"
    <3>1. CASE Stands(d, {})
      BY <1>5, <3>1
    <3>2. CASE w.epoch = x.snapshot.epoch /\ w.cursor = x.snapshot.cursor
      <4>1. PICK epoch : epoch = w.epoch
        OBVIOUS
      <4>2. PICK cursor : cursor = w.cursor
        OBVIOUS
      <4>3. /\ epoch \in Nat /\ epoch <= db.epoch /\ cursor \in Nat
            /\ Within(epoch, cursor)
            /\ s.epoch # None => s.epoch <= epoch
            /\ s.epoch = epoch => s.cursor <= cursor
        BY <2>2, <2>4, <3>2, <4>1, <4>2 DEF Hand, Holds, ToldSnapshot
      <4>4. Within(epoch, cursor)'
        BY <4>3, WithinStays
      <4>5. Within(w.epoch, w.cursor)'
        BY <4>1, <4>2, <4>4 DEF Within
      <4> QED
        BY <1>3, <4>1, <4>2, <4>3, <4>5
    <3> QED
      BY <1>2, <1>6, <2>1, <2>4, <3>1, <3>2 DEF TakesIn
  <2>5. CASE x.at = "page"
    <3>1. w.epoch = s.epoch /\ w.cursor = x.page.to
      BY <1>1, <1>2, <1>6, <2>1, <2>5 DEF TakesIn
    <3>2. s.cursor <= x.page.to /\ Within(s.epoch, x.page.to) /\ x.page.to \in Nat
      BY <2>2, <2>5 DEF Hand, Holds
    <3>3. PICK epoch : epoch = s.epoch
      OBVIOUS
    <3>4. PICK to : to = x.page.to
      OBVIOUS
    <3>5. Within(epoch, to)'
      BY <1>3, <3>2, <3>3, <3>4, WithinStays
    <3>6. Within(w.epoch, w.cursor)'
      BY <3>1, <3>3, <3>4, <3>5 DEF Within
    <3> QED
      BY <1>3, <3>1, <3>2, <3>6
  <2> QED
    BY <1>6, <2>1, <2>3, <2>4, <2>5 DEF TakesIn
<1>7. CASE StoresStand
  BY <1>5, <1>7 DEF StoresStand
<1>8. ASSUME NEW t \in Tab, TakesIn(t)
      PROVE  d = DeviceOf[t] \/ Stands(d, {})
  BY <1>8 DEF TakesIn
<1> QED
  BY <1>5, <1>6, <1>7, <1>8, StoresMove

\* With one tab per device, what a cycle has in its hands stays good.
LEMMA HandsStayGood ==
  ASSUME OneTab, SyncInv, OrderInv, TabInv, [Next]_vars, NEW t \in Tab
  PROVE  Holds(store[DeviceOf[t]], cycle[t])'
<1>1. PICK d \in Device : d = DeviceOf[t]
  BY SyncAssumption
<1>2. PICK x : x = cycle[t]
  OBVIOUS
<1>3. Hand(t, x) /\ Holds(store[d], x)
  BY <1>1, <1>2 DEF SyncInv, Hands, TabInv
<1>4. CASE cycle'[t].at \in {"idle", "pull", "control"}
  BY <1>4 DEF Holds
<1>5. CASE cycle'[t].at \notin {"idle", "pull", "control"} /\ cycle'[t] = x
  <2>1. \E gone : Stands(d, gone)
    <3>1. CASE StoresStand
      BY <3>1 DEF StoresStand
    <3>2. ASSUME NEW u \in Tab, TakesIn(u)
          PROVE  Stands(d, {})
      <4>1. u # t
        BY <1>5, <3>2 DEF TakesIn
      <4>2. DeviceOf[u] # d
        BY <1>1, <4>1 DEF OneTab
      <4> QED
        BY <3>2, <4>2 DEF TakesIn
    <3> QED
      BY <3>1, <3>2, StoresMove
  <2>2. PICK gone : Stands(d, gone)
    BY <2>1
  <2>3. /\ x.at = "activate" => ToldSnapshot(x.snapshot) /\ x.snapshot.epoch <= db.epoch
        /\ x.at = "page" => x.page.to \in Nat
    BY <1>3 DEF Hand
  <2>4. Holds(store[d], x)'
    BY <1>3, <2>2, <2>3, HoldsStays
  <2> QED
    BY <1>1, <1>5, <2>4 DEF Holds, Within
<1> QED
  BY <1>2, <1>4, <1>5, CycleGets

\* An operation of an earlier epoch does not leave its queue for an
\* acknowledgement: the answers in the hands of a cycle are for operations of
\* the epoch of its store.
LEMMA OldStayQueued ==
  ASSUME SyncInv, OrderInv, TabInv, [Next]_vars, NEW d \in Device, NEW dep \in Queued(store[d]),
         dep \in DOMAIN issued, issued[dep].epoch # store[d].epoch
  PROVE  dep \in Queued(store'[d]) \/ dep \in replaced'
<1>1. CASE StoresStand
  BY <1>1 DEF StoresStand, Stands
<1>2. ASSUME NEW t \in Tab, TakesIn(t), d = DeviceOf[t]
      PROVE  dep \in Queued(store'[d])
  <2>1. PICK x : x = cycle[t]
    OBVIOUS
  <2>2. Holds(store[d], x)
    BY <1>2, <2>1 DEF TabInv
  <2>3. CASE x.at = "results"
    <3>1. \A i \in DOMAIN x.ops : x.ops[i].id # dep
      BY <2>2, <2>3 DEF Holds
    <3> QED
      BY <1>2, <2>1, <2>3, <3>1 DEF TakesIn, Stands
  <2>4. CASE x.at # "results"
    BY <1>2, <2>1, <2>4 DEF TakesIn
  <2> QED
    BY <2>3, <2>4
<1>3. ASSUME NEW t \in Tab, TakesIn(t), d # DeviceOf[t]
      PROVE  dep \in Queued(store'[d])
  BY <1>3 DEF TakesIn, Stands
<1> QED
  BY <1>1, <1>2, <1>3, StoresMove

LEMMA AgedStays ==
  ASSUME SyncInv, OrderInv, TabInv, [Next]_vars
  PROVE  Aged'
<1>1. SyncInv' /\ Onward /\ DeviceStep /\ OrderInv'
  BY StepKeeps, OrderKeeps
<1>2. ASSUME NEW id \in DOMAIN issued
      PROVE  /\ Owner(id)' = Owner(id) /\ Owner(id) \in Device /\ issued'[id] = issued[id]
             /\ issued[id].epoch \in Nat /\ store[Owner(id)].epoch \in Nat
             /\ issued[id].epoch <= store[Owner(id)].epoch
             /\ store'[Owner(id)].epoch \in Nat
             /\ store[Owner(id)].epoch <= store'[Owner(id)].epoch
  <2>1. PICK d : d = Owner(id)
    OBVIOUS
  <2>2. issued'[id] = issued[id] /\ d \in Device /\ issued[id].epoch \in Nat
    BY <1>1, <2>1 DEF Onward, SyncInv, Kept, IssuedOk, Owner
  <2>3. store[d].epoch # None /\ issued[id].epoch <= store[d].epoch
    BY <2>1 DEF TabInv, Aged
  <2>4. store[d].epoch \in Nat
    BY <2>2, <2>3 DEF SyncInv, Kept, StoreOk, StoreType
  <2>5. store'[d].epoch # None /\ store[d].epoch <= store'[d].epoch
    BY <2>2, <2>3, StoreForward DEF Forward
  <2>6. store'[d].epoch \in Nat
    <3>1. PICK w : w = store'[d]
      OBVIOUS
    <3>2. w.epoch \in Nat \cup {None}
      BY <1>1, <2>2, <3>1 DEF SyncInv, Kept, StoreOk, StoreType
    <3> QED
      BY <2>5, <3>1, <3>2
  <2> QED
    BY <2>1, <2>2, <2>3, <2>4, <2>5, <2>6 DEF Owner
<1>3. \A d \in Device : Queued(store[d])' = Queued(store'[d])
  BY DEF Queued
<1>4. ASSUME NEW id \in DOMAIN issued
      PROVE  /\ store'[Owner(id)'].epoch # None /\ issued'[id].epoch <= store'[Owner(id)'].epoch
             /\ \A dep \in issued'[id].op.deps :
                  /\ issued'[dep].epoch <= issued'[id].epoch
                  /\ issued'[dep].epoch # issued'[id].epoch =>
                       dep \in Queued(store[Owner(dep)])' \/ dep \in replaced'
  <2>1. ASSUME NEW dep \in issued[id].op.deps
        PROVE  /\ issued'[dep].epoch <= issued'[id].epoch
               /\ issued'[dep].epoch # issued'[id].epoch =>
                    dep \in Queued(store[Owner(dep)])' \/ dep \in replaced'
    <3>1. dep \in DOMAIN issued /\ Owner(dep) = Owner(id)
      BY DEF OrderInv, Linked
    <3>2. issued[dep].epoch <= issued[id].epoch
      BY DEF TabInv, Aged
    <3>3. ASSUME issued[dep].epoch # issued[id].epoch
          PROVE  dep \in Queued(store[Owner(dep)])' \/ dep \in replaced'
      <4>1. PICK d : d = Owner(dep)
        OBVIOUS
      <4>2. d \in Device /\ Owner(dep)' = d
        BY <1>2, <3>1, <4>1
      <4>3. dep \in Queued(store[d]) \/ dep \in replaced
        BY <3>3, <4>1 DEF TabInv, Aged
      <4>4. issued[dep].epoch # store[d].epoch
        BY <1>2, <3>1, <3>2, <3>3, <4>1
      <4>5. dep \in Queued(store'[d]) \/ dep \in replaced'
        BY <1>1, <3>1, <4>2, <4>3, <4>4, OldStayQueued DEF DeviceStep
      <4> QED
        BY <4>2, <4>5 DEF Queued
    <3> QED
      BY <1>2, <3>1, <3>2, <3>3
  <2>2. /\ store'[Owner(id)].epoch # None /\ issued[id].epoch <= store'[Owner(id)].epoch
    <3>1. \A a, b, c \in Nat : a <= b /\ b <= c => a <= c
      OBVIOUS
    <3> QED
      BY <1>2, <3>1, SyncAssumption
  <2> QED
    BY <1>2, <2>1, <2>2
<1>5. CASE UNCHANGED issued
  BY <1>4, <1>5 DEF Aged
<1>6. CASE \E d \in Device : \E op : Grown(d, op)
  <2>0. PICK d \in Device : \E op : Grown(d, op)
    BY <1>6
  <2>1. PICK op : Grown(d, op)
    BY <2>0
  <2>2. PICK gone : Queues(store[d], store'[d], d, gone, op)
    BY <2>1 DEF Grown
  <2>3. /\ DOMAIN issued' = DOMAIN issued \cup {op.id} /\ op.id \notin DOMAIN issued
        /\ issued'[op.id].op = op /\ issued'[op.id].epoch = store[d].epoch
        /\ op.device = d /\ op.deps \subseteq Queued(store[d])
    BY <2>1 DEF Grown, Fresh, Issue, Put
  <2>4. StoresStand
    <3>1. ~UNCHANGED issued
      BY <2>3
    <3> QED
      BY <3>1, StoresMove DEF TakesIn
  <2>5. store'[d].epoch = store[d].epoch /\ store[d].epoch \in Nat
    <3>1. issued'[op.id].epoch \in Nat
      BY <1>1, <2>3 DEF SyncInv, Kept, IssuedOk
    <3> QED
      BY <2>3, <2>4, <3>1 DEF StoresStand, Stands
  <2>6. Owner(op.id)' = d
    BY <2>3 DEF Owner
  <2>7. ASSUME NEW dep \in op.deps
        PROVE  /\ issued'[dep].epoch <= store[d].epoch
               /\ dep \in Queued(store[Owner(dep)])' \/ dep \in replaced'
    <3>1. dep \in Queued(store[d])
      BY <2>3
    <3>2. dep \in DOMAIN issued /\ Owner(dep) = d
      BY <3>1, QueuedIsOwn DEF OrderInv
    <3>3. issued'[dep].epoch <= store[d].epoch /\ Owner(dep)' = d
      BY <1>2, <3>2
    <3>4. dep \in Queued(store'[d]) \/ dep \in replaced'
      BY <2>4, <3>1 DEF StoresStand, Stands
    <3> QED
      BY <3>3, <3>4 DEF Queued
  <2>8. None \notin Nat /\ store[d].epoch <= store[d].epoch
    BY <2>5, SyncAssumption
  <2>9. ASSUME NEW id \in DOMAIN issued'
        PROVE  /\ store'[Owner(id)'].epoch # None /\ issued'[id].epoch <= store'[Owner(id)'].epoch
               /\ \A dep \in issued'[id].op.deps :
                    /\ issued'[dep].epoch <= issued'[id].epoch
                    /\ issued'[dep].epoch # issued'[id].epoch =>
                         dep \in Queued(store[Owner(dep)])' \/ dep \in replaced'
    <3>1. CASE id \in DOMAIN issued
      BY <1>4, <3>1
    <3>2. CASE id = op.id
      BY <2>3, <2>5, <2>6, <2>7, <2>8, <3>2
    <3> QED
      BY <2>3, <3>1, <3>2
  <2> QED
    BY <2>9 DEF Aged
<1> QED
  BY <1>1, <1>5, <1>6 DEF DeviceStep

\* With one tab per device, every step keeps what its cycle has in its hands
\* in step with its store.
LEMMA TabKeeps ==
  ASSUME OneTab, SyncInv, OrderInv, TabInv, [Next]_vars
  PROVE  TabInv' /\ \A d \in Device : Forward(d)
<1>1. \A d \in Device : Forward(d)
  BY StoreForward
<1>2. \A d \in Device : Within(store[d].epoch, store[d].cursor)'
  BY <1>1 DEF Forward
<1>3. \A t \in Tab : Holds(store[DeviceOf[t]], cycle[t])'
  BY HandsStayGood
<1> QED
  BY <1>1, <1>2, <1>3, AgedStays DEF TabInv

\* Nothing is in hand before the first step.
LEMMA InitTab == Init => TabInv
<1> SUFFICES ASSUME Init PROVE TabInv
  OBVIOUS
<1>1. \A d \in Device : store[d].epoch = None
  BY DEF Init, EmptyStore
<1>2. db.epoch \in Nat
  BY InitInv DEF SyncInv, Kept, Recorded, DbInv, DbType
<1>3. DOMAIN issued = {} /\ \A t \in Tab : cycle[t].at = "idle"
  BY DEF Init, Idle
<1> QED
  BY <1>1, <1>2, <1>3, SyncAssumption DEF TabInv, Aged, Within, Holds

\* With one tab per device, what a cycle has in its hands is of the epoch of
\* its store and not behind its cursor, and what a restore has isolated stays
\* in the outbox until its user decides about it.
THEOREM OneTabInvariance ==
  ASSUME OneTab
  PROVE  Spec => []TabInv
<1>1. SyncInv /\ OrderInv /\ TabInv /\ [Next]_vars => TabInv'
  BY TabKeeps
<1> QED
  BY <1>1, InitTab, SyncInvariance, OrderInvariance, PTL DEF Spec

\* With one tab per device, the cursor of a replica never moves back within
\* an epoch, whatever snapshots, pages and restores come in between
\* (invariant 4 of sync-v1).  With two tabs it does: the run sync_two_tabs.
THEOREM CursorsGoForward ==
  ASSUME OneTab
  PROVE  Spec => CursorForward
<1>1. SyncInv /\ OrderInv /\ TabInv /\ [Next]_vars => [\A d \in Device : GoesForward(d)]_vars
  BY TabKeeps DEF Forward, GoesForward
<1> QED
  BY <1>1, SyncInvariance, OrderInvariance, OneTabInvariance, PTL DEF Spec, CursorForward

\* With one tab per device, the ledger has an edit only behind the edit its
\* author made it on top of, or a resolution has taken that one's place:
\* whatever is retried, arrives late or is restored in between.
THEOREM OneTabKeepsOrder ==
  ASSUME OneTab
  PROVE  Spec => []CausalOrder
<1>1. SyncInv /\ OrderInv /\ TabInv => CausalOrder
  <2> SUFFICES ASSUME OrderInv, TabInv, NEW i \in DOMAIN db.changes,
                      db.changes[i].id \in DOMAIN issued,
                      NEW dep \in issued[db.changes[i].id].op.deps
               PROVE  dep \in replaced \/ \E j \in 1..(i - 1) : db.changes[j].id = dep
    BY DEF CausalOrder
  <2>1. PICK id : id = db.changes[i].id
    OBVIOUS
  <2>2. Past(id, dep) \/ \E j \in 1..(i - 1) : db.changes[j].id = dep
    BY <2>1 DEF OrderInv, Causal
  <2>3. Past(id, dep) => dep \in replaced
    BY <2>1 DEF Past, TabInv, Aged
  <2> QED
    BY <2>2, <2>3
<1> QED
  BY <1>1, SyncInvariance, OrderInvariance, OneTabInvariance, PTL

\* The server is in its first epoch.
FirstEpoch == db.epoch = 0

\* On a server that is never restored the same holds with any number of tabs.
THEOREM OneEpochKeepsOrder ==
  ASSUME MaxEpoch = 0
  PROVE  Spec => []CausalOrder
<1>1. Init => FirstEpoch
  BY DEF Init, EmptyDb, FirstEpoch
<1>2. SyncInv /\ OrderInv /\ FirstEpoch /\ [Next]_vars => FirstEpoch'
  <2> SUFFICES ASSUME SyncInv, OrderInv, db.epoch = 0, [Next]_vars
               PROVE  db'.epoch = 0
    BY DEF FirstEpoch
  <2>1. PICK d : d = db
    OBVIOUS
  <2>2. DbInv(d)
    BY <2>1 DEF SyncInv, Kept, Recorded
  <2>3. ASSUME NEW t \in Tab, Step(t)
        PROVE  db'.epoch = d.epoch
    <3>1. CASE ServerPush(t)
      <4>1. PICK ops : ops = cycle[t].ops
        OBVIOUS
      <4>2. db' = d \/ db' = Push(d, ops).db
        BY <2>1, <3>1, <4>1 DEF ServerPush
      <4>3. ops \in Seq(Operation)
        BY <3>1, <4>1, BatchesGo DEF ServerPush, Goes, Batch
      <4>4. Push(d, ops).db.epoch = d.epoch
        BY <2>2, <4>3, PushKeeps DEF Pushed
      <4> QED
        BY <4>2, <4>4
    <3>2. CASE ~ServerPush(t)
      BY <2>1, <2>3, <3>2 DEF Step, RequestBootstrap, ActivateSnapshot, StartCycle,
         ReceiveResults, ReceiveControl, RequestPage, ReceivePage, server
    <3> QED
      BY <3>1, <3>2
  <2>4. ASSUME NEW m \in late, LatePush(m)
        PROVE  db'.epoch = d.epoch
    <3>1. PICK ops : ops = m.ops
      OBVIOUS
    <3>2. db' = d \/ db' = Push(d, ops).db
      BY <2>1, <2>4, <3>1 DEF LatePush
    <3>3. ops \in Seq(Operation)
      BY <2>4, <3>1, BatchesGo DEF Goes, Batch
    <3>4. Push(d, ops).db.epoch = d.epoch
      BY <2>2, <3>3, PushKeeps DEF Pushed
    <3> QED
      BY <3>2, <3>4
  <2>5. ASSUME NEW id \in LifecycleId, Lifecycle(id)
        PROVE  db'.epoch = d.epoch
    <3>1. PICK device : device = CHOOSE x \in Device : TRUE
      OBVIOUS
    <3>2. db' = ToggleSpace(d, id, device)
      BY <2>1, <2>5, <3>1 DEF Lifecycle
    <3> QED
      BY <2>2, <3>2, ToggleSpaceTells
  <2>6. ~RestoreBackup
    BY DEF RestoreBackup
  <2>7. CASE User \/ (\E t \in Tab : Abandon(t)) \/ TakeBackup \/ UNCHANGED vars
    BY <2>7 DEF User, Edit, ChooseResolution, CommitResolution, DismissConflict, Abandon,
       TakeBackup, server, vars
  <2> QED
    BY <2>1, <2>3, <2>4, <2>5, <2>6, <2>7 DEF Next, Fault, Server
<1>3. SyncInv /\ OrderInv /\ FirstEpoch => CausalOrder
  <2> SUFFICES ASSUME SyncInv, OrderInv, db.epoch = 0,
                      NEW i \in DOMAIN db.changes, db.changes[i].id \in DOMAIN issued,
                      NEW dep \in issued[db.changes[i].id].op.deps
               PROVE  dep \in replaced \/ \E j \in 1..(i - 1) : db.changes[j].id = dep
    BY DEF CausalOrder, FirstEpoch
  <2>1. PICK id : id = db.changes[i].id
    OBVIOUS
  <2>2. Past(id, dep) \/ \E j \in 1..(i - 1) : db.changes[j].id = dep
    BY <2>1 DEF OrderInv, Causal
  <2>3. id \in DOMAIN issued /\ dep \in DOMAIN issued
    BY <2>1 DEF OrderInv, Linked
  <2>4. issued[id].epoch = 0 /\ issued[dep].epoch = 0
    <3>1. \A x \in DOMAIN issued : issued[x].epoch \in Nat /\ issued[x].epoch <= 0
      BY DEF SyncInv, Kept, IssuedOk
    <3> QED
      BY <2>3, <3>1
  <2> QED
    BY <2>2, <2>4 DEF Past
<1> QED
  BY <1>1, <1>2, <1>3, SyncInvariance, OrderInvariance, PTL DEF Spec
=============================================================================
