---------------------------- MODULE ShownProofs -----------------------------
(***************************************************************************)
(* What a device shows of the work that waits in its outbox: with one tab  *)
(* per device an entity shows the last operation queued for it that no     *)
(* resolution has overtaken.                                               *)
(*                                                                         *)
(* The argument goes by entity.  The operations of an entity that stand in *)
(* a queue form a chain of dependencies behind those that were overtaken,  *)
(* and a success can only take the first of a chain away, since the server *)
(* applies an operation behind those it depends on.                        *)
(***************************************************************************)
EXTENDS SyncV1Proofs

\* What is queued for an entity and not overtaken, o being what is.
Standing(s, e, o) == {i \in Related(s, e) : s.outbox[i].op.id \notin o}

\* Isolated operations come before the others, overtaken ones before those
\* that stand.
Ranked(s, e, o) ==
  \A i, j \in Related(s, e) : i < j =>
    /\ s.outbox[j].state = "isolated" => s.outbox[i].state = "isolated"
    /\ s.outbox[j].op.id \in o => s.outbox[i].op.id \in o

\* Between any two operations that stand, one is what the later depends on.
Chained(s, e, o) ==
  \A i, j \in Standing(s, e, o) : i < j =>
    \E k \in Standing(s, e, o) :
      i <= k /\ k < j /\ s.outbox[k].op.id \in s.outbox[j].op.deps

\* Something of the entity waits to be sent or decided.
Waits(s, e, o) == \E i \in Standing(s, e, o) : s.outbox[i].state # "isolated"

\* The entity shows the queued operation: its content, or its deletion unless
\* that was refused or stopped.
Shows(s, e, i) ==
  IF s.outbox[i].op.type = "delete"
    THEN \/ s.entity[e].deleted \/ s.outbox[i].state # "pending"
         \/ \E j \in Related(s, e) : s.outbox[j].state = "blocked"
    ELSE ~s.entity[e].deleted /\ s.entity[e].payload = s.outbox[i].op.payload

\* What waits is shown, and an entity that is not clean has something that
\* waits if anything of it stands.
InView(s, e, o) ==
  /\ Waits(s, e, o) =>
       /\ s.entity[e].present /\ s.entity[e].status # "clean"
       /\ \A i \in Standing(s, e, o) : (\A j \in Standing(s, e, o) : j <= i) => Shows(s, e, i)
  /\ s.entity[e].status # "clean" /\ Standing(s, e, o) # {} => Waits(s, e, o)

Tidy(s, e, o) == Ranked(s, e, o) /\ Chained(s, e, o) /\ InView(s, e, o)

\* The queue of w is that of s without the operations ids; at tells where
\* what is left stood.
Thins(s, w, at, ids) ==
  /\ \A k \in DOMAIN w.outbox :
       /\ at[k] \in DOMAIN s.outbox /\ w.outbox[k] = s.outbox[at[k]]
       /\ w.outbox[k].op.id \notin ids
  /\ \A k, m \in DOMAIN w.outbox : k < m <=> at[k] < at[m]
  /\ \A i \in DOMAIN s.outbox :
       s.outbox[i].op.id \notin ids => \E k \in DOMAIN w.outbox : at[k] = i

-----------------------------------------------------------------------------
(* Queues of an entity.                                                    *)

\* Rows of an outbox are numbers.
LEMMA RowsAreNumbers ==
  ASSUME NEW s, NEW d, StoreType(s, d)
  PROVE  /\ DOMAIN s.outbox \subseteq Nat /\ Len(s.outbox) \in Nat
         /\ DOMAIN s.outbox = 1..Len(s.outbox)
         /\ \A i \in DOMAIN s.outbox : s.outbox[i] \in Entry
  BY DEF StoreType, QueueType

LEMMA DropOpsThins ==
  ASSUME NEW s, NEW d, NEW ids, StoreType(s, d)
  PROVE  \E at : Thins(s, DropOps(s, ids), at, ids)
<1> DEFINE q == s.outbox
           I == {i \in DOMAIN q : q[i].op.id \notin ids}
           p == Those(q, I)
           w == DropOps(s, ids)
<1>1. q \in Seq(Entry) /\ I \in SUBSET (DOMAIN q)
  BY DEF StoreType, QueueType
<1>2. p \in Seq(Entry) /\ \E at : Lists(p, q, I, at)
  <2> HIDE DEF I
  <2> QED
    BY <1>1, ThoseListed
<1>3. w.outbox = p
  BY DEF DropOps, StoreType
<1> HIDE DEF p, w
<1>4. PICK at : Lists(p, q, I, at)
  BY <1>2
<1>5. /\ \A k \in DOMAIN p : at[k] \in I /\ p[k] = q[at[k]]
      /\ \A i \in I : \E k \in DOMAIN p : at[k] = i
      /\ \A k, m \in DOMAIN p : k < m => at[k] < at[m]
  BY <1>4 DEF Lists
<1>6. DOMAIN p \subseteq Nat /\ \A k \in DOMAIN p : at[k] \in Nat
  <2>1. I \subseteq Nat
    BY <1>1
  <2>2. DOMAIN p \subseteq Nat
    BY <1>2
  <2> HIDE DEF I
  <2> QED
    BY <1>5, <2>1, <2>2
<1>7. \A k, m \in DOMAIN p : k < m <=> at[k] < at[m]
  <2> SUFFICES ASSUME NEW k \in DOMAIN p, NEW m \in DOMAIN p, ~(k < m) PROVE ~(at[k] < at[m])
    BY <1>5
  <2>1. k = m \/ m < k
    BY <1>6
  <2>2. at[k] = at[m] \/ at[m] < at[k]
    BY <1>5, <2>1
  <2> QED
    BY <1>6, <2>2
<1>8. Thins(s, w, at, ids)
  BY <1>3, <1>5, <1>7 DEF Thins
<1> QED
  BY <1>8 DEF w

-----------------------------------------------------------------------------
(* What a transaction keeps of the shape of an entity's queue.             *)

\* The queue of e in w comes from that in s: in order, with what is isolated
\* isolated still; at tells where its operations stood.
Carries(s, w, e, at) ==
  /\ \A k \in Related(w, e) :
       /\ at[k] \in Related(s, e) /\ w.outbox[k].op = s.outbox[at[k]].op
       /\ (w.outbox[k].state = "isolated" <=> s.outbox[at[k]].state = "isolated")
  /\ \A k, m \in Related(w, e) : k < m <=> at[k] < at[m]

\* o and u agree on what is queued for e.
Agree(s, e, o, u) ==
  \A i \in Related(s, e) : s.outbox[i].op.id \in o <=> s.outbox[i].op.id \in u

\* An entity stays tidy if at most the first operation that stands is taken
\* away, the row stays while something of it is left, and what it showed it
\* still shows.
LEMMA TidyOn ==
  ASSUME NEW s, NEW w, NEW d, NEW e, NEW o, NEW u, NEW at,
         StoreType(s, d), StoreType(w, d), Tidy(s, e, o),
         Carries(s, w, e, at), Agree(s, e, o, u),
         \A i \in Standing(s, e, o) :
           (\E k \in Related(w, e) : at[k] = i) \/ \A j \in Standing(s, e, o) : i <= j,
         s.entity[e].present /\ s.entity[e].status # "clean" /\ Standing(w, e, u) # {} =>
           w.entity[e].present /\ w.entity[e].status # "clean",
         w.entity[e].status # "clean" /\ Standing(w, e, u) # {} =>
           s.entity[e].status # "clean" \/ Waits(s, e, o),
         \A k \in Standing(w, e, u) :
           s.entity[e].status # "clean" /\ Shows(s, e, at[k]) => Shows(w, e, k)
  PROVE  Tidy(w, e, u)
<1>1. /\ Related(s, e) \subseteq Nat /\ Related(w, e) \subseteq Nat
      /\ \A k \in Related(w, e) : k \in Nat /\ at[k] \in Nat
  <2>1. DOMAIN s.outbox \subseteq Nat /\ DOMAIN w.outbox \subseteq Nat
    BY RowsAreNumbers
  <2>2. Related(s, e) \subseteq Nat /\ Related(w, e) \subseteq Nat
    BY <2>1 DEF Related
  <2> QED
    BY <2>2 DEF Carries
<1>2. \A k \in Related(w, e) : k \in Standing(w, e, u) <=> at[k] \in Standing(s, e, o)
  BY DEF Carries, Standing, Agree
<1>3. \A k \in Standing(w, e, u) : k \in Related(w, e)
  BY DEF Standing
<1>4. \A k \in Standing(s, e, o) : k \in Related(s, e)
  BY DEF Standing
<1>5. Ranked(w, e, u)
  <2>1. ASSUME NEW i \in Related(w, e), NEW j \in Related(w, e), i < j
        PROVE  /\ w.outbox[j].state = "isolated" => w.outbox[i].state = "isolated"
               /\ w.outbox[j].op.id \in u => w.outbox[i].op.id \in u
    <3>1. at[i] < at[j] /\ at[i] \in Related(s, e) /\ at[j] \in Related(s, e)
      BY <2>1 DEF Carries
    <3>2. /\ s.outbox[at[j]].state = "isolated" => s.outbox[at[i]].state = "isolated"
          /\ s.outbox[at[j]].op.id \in o => s.outbox[at[i]].op.id \in o
      BY <3>1 DEF Tidy, Ranked
    <3>3. w.outbox[i].op = s.outbox[at[i]].op /\ w.outbox[j].op = s.outbox[at[j]].op
      BY DEF Carries
    <3> QED
      BY <3>1, <3>2, <3>3 DEF Carries, Agree
  <2> QED
    BY <2>1 DEF Ranked
<1>6. Chained(w, e, u)
  <2>1. ASSUME NEW i \in Standing(w, e, u), NEW j \in Standing(w, e, u), i < j
        PROVE  \E k \in Standing(w, e, u) :
                 i <= k /\ k < j /\ w.outbox[k].op.id \in w.outbox[j].op.deps
    <3>1. /\ i \in Related(w, e) /\ j \in Related(w, e)
          /\ at[i] \in Standing(s, e, o) /\ at[j] \in Standing(s, e, o) /\ at[i] < at[j]
      BY <1>2, <1>3, <2>1 DEF Carries
    <3>2. PICK k \in Standing(s, e, o) :
            at[i] <= k /\ k < at[j] /\ s.outbox[k].op.id \in s.outbox[at[j]].op.deps
      BY <3>1 DEF Tidy, Chained
    <3>3. \E m \in Related(w, e) : at[m] = k
      <4>1. CASE \A n \in Standing(s, e, o) : k <= n
        <5>1. k = at[i]
          BY <1>1, <1>4, <3>1, <3>2, <4>1
        <5> QED
          BY <3>1, <5>1
      <4> QED
        BY <4>1
    <3>4. PICK m \in Related(w, e) : at[m] = k
      BY <3>3
    <3>5. m \in Standing(w, e, u)
      BY <1>2, <3>2, <3>4
    <3>6. m < j
      BY <3>1, <3>2, <3>4 DEF Carries
    <3>7. i <= m
      <4>1. ~(m < i)
        <5>1. m < i => at[m] < at[i]
          BY <3>1 DEF Carries
        <5> QED
          BY <1>1, <3>1, <3>2, <3>4, <5>1
      <4> QED
        BY <1>1, <3>1, <4>1
    <3>8. w.outbox[m].op = s.outbox[k].op /\ w.outbox[j].op = s.outbox[at[j]].op
      BY <3>1, <3>4 DEF Carries
    <3> QED
      BY <3>2, <3>5, <3>6, <3>7, <3>8
  <2> QED
    BY <2>1 DEF Chained
<1>7. Waits(w, e, u) => Waits(s, e, o)
  BY <1>2, <1>3 DEF Waits, Carries
<1>8. Waits(s, e, o) /\ Standing(w, e, u) # {} => Waits(w, e, u)
  <2>1. SUFFICES ASSUME Waits(s, e, o), NEW k \in Standing(w, e, u) PROVE Waits(w, e, u)
    OBVIOUS
  <2>2. PICK i \in Standing(s, e, o) : s.outbox[i].state # "isolated"
    BY <2>1 DEF Waits
  <2>3. CASE \E m \in Related(w, e) : at[m] = i
    BY <1>2, <2>2, <2>3 DEF Waits, Carries
  <2>4. CASE \A j \in Standing(s, e, o) : i <= j
    <3>1. k \in Related(w, e) /\ at[k] \in Standing(s, e, o) /\ at[k] \in Related(s, e)
      BY <1>2, <1>3, <1>4
    <3>2. i = at[k] \/ i < at[k]
      BY <1>1, <1>4, <2>4, <3>1
    <3>3. s.outbox[at[k]].state # "isolated"
      BY <1>4, <2>2, <3>1, <3>2 DEF Tidy, Ranked
    <3>4. w.outbox[k].state # "isolated"
      BY <3>1, <3>3 DEF Carries
    <3> QED
      BY <3>4 DEF Waits
  <2> QED
    BY <2>3, <2>4
<1>9. ASSUME Waits(w, e, u)
      PROVE  /\ w.entity[e].present /\ w.entity[e].status # "clean"
             /\ \A i \in Standing(w, e, u) :
                  (\A j \in Standing(w, e, u) : j <= i) => Shows(w, e, i)
  <2>1. Waits(s, e, o) /\ Standing(w, e, u) # {}
    BY <1>7, <1>9 DEF Waits
  <2>2. /\ s.entity[e].present /\ s.entity[e].status # "clean"
        /\ \A i \in Standing(s, e, o) :
             (\A j \in Standing(s, e, o) : j <= i) => Shows(s, e, i)
    BY <2>1 DEF Tidy, InView
  <2>3. ASSUME NEW k \in Standing(w, e, u), \A j \in Standing(w, e, u) : j <= k
        PROVE  Shows(w, e, k)
    <3>1. k \in Related(w, e) /\ at[k] \in Standing(s, e, o)
      BY <1>2, <1>3
    <3>2. ASSUME NEW j \in Standing(s, e, o) PROVE j <= at[k]
      <4>1. CASE \E m \in Related(w, e) : at[m] = j
        <5>1. PICK m \in Related(w, e) : at[m] = j
          BY <4>1
        <5>2. m <= k
          BY <1>2, <2>3, <5>1
        <5>3. k < m <=> at[k] < at[m]
          BY <3>1 DEF Carries
        <5> QED
          BY <1>1, <3>1, <5>1, <5>2, <5>3
      <4>2. CASE \A n \in Standing(s, e, o) : j <= n
        BY <3>1, <4>2
      <4> QED
        BY <4>1, <4>2
    <3>3. Shows(s, e, at[k])
      BY <2>2, <3>1, <3>2
    <3> QED
      BY <2>2, <3>3
  <2> QED
    BY <2>1, <2>2, <2>3
<1>10. ASSUME w.entity[e].status # "clean", Standing(w, e, u) # {}
       PROVE  Waits(w, e, u)
  <2>1. Standing(s, e, o) # {}
    BY <1>2, <1>3, <1>10
  <2>2. Waits(s, e, o)
    BY <1>10, <2>1 DEF Tidy, InView
  <2> QED
    BY <1>8, <1>10, <2>2
<1> QED
  BY <1>5, <1>6, <1>9, <1>10 DEF Tidy, InView

\* Between s and w operations only stop, in place, and not by isolation.
Marks(s, w, e) ==
  /\ DOMAIN w.outbox = DOMAIN s.outbox
  /\ \A i \in DOMAIN s.outbox : w.outbox[i].op = s.outbox[i].op
  /\ \A i \in Related(s, e) : w.outbox[i].state = "isolated" <=> s.outbox[i].state = "isolated"

LEMMA TidyMarked ==
  ASSUME NEW s, NEW w, NEW d, NEW e, NEW o, StoreType(s, d), StoreType(w, d),
         Tidy(s, e, o), Marks(s, w, e),
         s.entity[e].present /\ s.entity[e].status # "clean" /\ Standing(s, e, o) # {} =>
           w.entity[e].present /\ w.entity[e].status # "clean",
         w.entity[e].status # "clean" /\ Standing(s, e, o) # {} =>
           s.entity[e].status # "clean" \/ Waits(s, e, o),
         \A k \in Standing(s, e, o) :
           s.entity[e].status # "clean" /\ Shows(s, e, k) => Shows(w, e, k)
  PROVE  Tidy(w, e, o)
<1> DEFINE at == [i \in DOMAIN s.outbox |-> i]
<1>1. Related(w, e) = Related(s, e) /\ \A i \in Related(s, e) : i \in DOMAIN s.outbox
  BY DEF Marks, Related
<1>2. Standing(w, e, o) = Standing(s, e, o) /\ \A i \in Standing(s, e, o) : i \in Related(s, e)
  BY <1>1 DEF Marks, Standing
<1>3. \A i \in Related(s, e) : at[i] = i
  BY <1>1
<1> HIDE DEF at
<1>4. Carries(s, w, e, at)
  BY <1>1, <1>3 DEF Carries, Marks
<1>5. Agree(s, e, o, o)
  BY DEF Agree
<1> QED
  BY <1>1, <1>2, <1>3, <1>4, <1>5, TidyOn

\* An entity whose queue and row are left alone stays tidy.
LEMMA TidyRests ==
  ASSUME NEW s, NEW w, NEW e, NEW o, Tidy(s, e, o),
         w.outbox = s.outbox, w.entity[e] = s.entity[e]
  PROVE  Tidy(w, e, o)
<1>1. Related(w, e) = Related(s, e)
  BY DEF Related
<1>2. Standing(w, e, o) = Standing(s, e, o)
  BY <1>1 DEF Standing
<1>3. \A i : Shows(w, e, i) <=> Shows(s, e, i)
  BY <1>1 DEF Shows
<1>4. Waits(w, e, o) <=> Waits(s, e, o)
  BY <1>2 DEF Waits
<1>5. Ranked(w, e, o)
  BY <1>1 DEF Tidy, Ranked
<1>6. Chained(w, e, o)
  BY <1>2 DEF Tidy, Chained
<1> QED
  BY <1>2, <1>3, <1>4, <1>5, <1>6 DEF Tidy, InView

\* Operations are dropped: of those that stand at most the first, and none
\* that was refused.
LEMMA TidyThinned ==
  ASSUME NEW s, NEW w, NEW d, NEW e, NEW o, NEW u, NEW ids,
         StoreType(s, d), StoreType(w, d), Tidy(s, e, o), Agree(s, e, o, u),
         w.outbox = DropOps(s, ids).outbox,
         \A i \in Standing(s, e, o) :
           s.outbox[i].op.id \notin ids \/ \A j \in Standing(s, e, o) : i <= j,
         \A i \in Related(s, e) : s.outbox[i].state = "blocked" => s.outbox[i].op.id \notin ids,
         w.entity[e].present = s.entity[e].present,
         w.entity[e].deleted = s.entity[e].deleted,
         w.entity[e].payload = s.entity[e].payload,
         s.entity[e].status # "clean" /\ Standing(w, e, u) # {} =>
           w.entity[e].status # "clean",
         w.entity[e].status # "clean" /\ Standing(w, e, u) # {} =>
           s.entity[e].status # "clean" \/ Waits(s, e, o)
  PROVE  Tidy(w, e, u)
<1>1. PICK at : Thins(s, DropOps(s, ids), at, ids)
  BY DropOpsThins
<1>2. /\ \A k \in DOMAIN w.outbox : at[k] \in DOMAIN s.outbox /\ w.outbox[k] = s.outbox[at[k]]
      /\ \A k, m \in DOMAIN w.outbox : k < m <=> at[k] < at[m]
      /\ \A i \in DOMAIN s.outbox :
           s.outbox[i].op.id \notin ids => \E k \in DOMAIN w.outbox : at[k] = i
  BY <1>1 DEF Thins
<1>3. /\ Related(w, e) \subseteq DOMAIN w.outbox /\ Related(s, e) \subseteq DOMAIN s.outbox
      /\ Standing(s, e, o) \subseteq Related(s, e) /\ Standing(w, e, u) \subseteq Related(w, e)
  BY DEF Related, Standing
<1>4. \A k \in DOMAIN w.outbox : k \in Related(w, e) <=> at[k] \in Related(s, e)
  BY <1>2 DEF Related
<1>5. Carries(s, w, e, at)
  BY <1>2, <1>3, <1>4 DEF Carries
<1>6. \A i \in Related(s, e) :
        s.outbox[i].op.id \notin ids => \E k \in Related(w, e) : at[k] = i
  BY <1>2, <1>3, <1>4
<1>7. ASSUME NEW k \in Standing(w, e, u), Shows(s, e, at[k])
      PROVE  Shows(w, e, k)
  <2>1. w.outbox[k] = s.outbox[at[k]]
    BY <1>2, <1>3
  <2>2. ASSUME NEW j \in Related(s, e), s.outbox[j].state = "blocked"
        PROVE  \E m \in Related(w, e) : w.outbox[m].state = "blocked"
    <3>1. PICK m \in Related(w, e) : at[m] = j
      BY <1>6, <2>2
    <3> QED
      BY <1>2, <1>3, <2>2, <3>1
  <2> QED
    BY <1>7, <2>1, <2>2 DEF Shows
<1>8. \A i \in Standing(s, e, o) :
        (\E k \in Related(w, e) : at[k] = i) \/ \A j \in Standing(s, e, o) : i <= j
  BY <1>3, <1>6
<1> QED
  BY <1>5, <1>7, <1>8, TidyOn

\* Once everything queued is isolated, clean rows show what they may.
LEMMA TidyIsolated ==
  ASSUME NEW s, NEW w, NEW e, NEW o, Tidy(s, e, o),
         DOMAIN w.outbox = DOMAIN s.outbox,
         \A i \in DOMAIN s.outbox : /\ w.outbox[i].op = s.outbox[i].op
                                    /\ w.outbox[i].state = "isolated",
         w.entity[e].status = "clean"
  PROVE  Tidy(w, e, o)
<1>1. Related(w, e) = Related(s, e) /\ \A i \in Related(s, e) : i \in DOMAIN s.outbox
  BY DEF Related
<1>2. Standing(w, e, o) = Standing(s, e, o) /\ \A i \in Standing(s, e, o) : i \in DOMAIN s.outbox
  BY <1>1 DEF Standing
<1>3. ~Waits(w, e, o)
  BY <1>2 DEF Waits
<1>4. Ranked(w, e, o)
  BY <1>1 DEF Tidy, Ranked
<1>5. Chained(w, e, o)
  BY <1>2 DEF Tidy, Chained
<1> QED
  BY <1>3, <1>4, <1>5 DEF Tidy, InView

\* A new operation comes last; if something stands, it depends on the last of
\* it, and the row shows it.
LEMMA TidyAppended ==
  ASSUME NEW s, NEW w, NEW d, NEW e, NEW o, NEW op \in Operation, StoreType(s, d),
         Ranked(s, e, o), Chained(s, e, o),
         w.outbox = Append(s.outbox, [op |-> op, state |-> "pending"]),
         op.entity = e, op.id \notin o,
         \A i \in Standing(s, e, o) : (\A j \in Standing(s, e, o) : j <= i) =>
           s.outbox[i].op.id \in op.deps,
         w.entity[e].present, w.entity[e].status # "clean",
         IF op.type = "delete" THEN w.entity[e].deleted
           ELSE ~w.entity[e].deleted /\ w.entity[e].payload = op.payload
  PROVE  Tidy(w, e, o)
<1> DEFINE n == Len(s.outbox)
           entry == [op |-> op, state |-> "pending"]
<1>1. /\ s.outbox \in Seq(Entry) /\ n \in Nat /\ DOMAIN s.outbox = 1..n
      /\ entry \in Entry /\ entry.op = op /\ entry.state = "pending"
  BY RowsAreNumbers DEF StoreType, QueueType, Entry, OutboxState
<1> HIDE DEF entry
<1>2. /\ DOMAIN w.outbox = 1..(n + 1)
      /\ \A i \in 1..n : w.outbox[i] = s.outbox[i]
      /\ w.outbox[n + 1].op = op /\ w.outbox[n + 1].state = "pending"
  <2>1. w.outbox = Append(s.outbox, entry)
    BY DEF entry
  <2> QED
    BY <1>1, <2>1
<1> HIDE DEF n
<1>3. \A i \in 1..(n + 1) : i \in 1..n \/ i = n + 1
  BY <1>1
<1>4. n + 1 \notin 1..n /\ n + 1 \in 1..(n + 1) /\ \A i \in 1..n : i \in 1..(n + 1) /\ i < n + 1
  BY <1>1
<1>5. Related(w, e) = Related(s, e) \cup {n + 1} /\ Related(s, e) \subseteq 1..n
  BY <1>1, <1>2, <1>3, <1>4 DEF Related
<1>6. Standing(w, e, o) = Standing(s, e, o) \cup {n + 1} /\ Standing(s, e, o) \subseteq Related(s, e)
  <2>1. w.outbox[n + 1].op.id \notin o /\ n + 1 \in Related(w, e)
    BY <1>2, <1>5
  <2>2. \A i \in Related(s, e) : w.outbox[i].op.id = s.outbox[i].op.id
    BY <1>2, <1>5
  <2> QED
    BY <1>5, <2>1, <2>2 DEF Standing
<1>7. Ranked(w, e, o)
  <2>1. ASSUME NEW i \in Related(w, e), NEW j \in Related(w, e), i < j
        PROVE  /\ w.outbox[j].state = "isolated" => w.outbox[i].state = "isolated"
               /\ w.outbox[j].op.id \in o => w.outbox[i].op.id \in o
    <3>1. CASE j = n + 1
      BY <1>2, <3>1
    <3>2. CASE j # n + 1
      <4>1. j \in Related(s, e) /\ i # n + 1
        BY <1>1, <1>5, <2>1, <3>2
      <4>2. i \in Related(s, e)
        BY <1>5, <4>1
      <4>3. w.outbox[i] = s.outbox[i] /\ w.outbox[j] = s.outbox[j]
        BY <1>2, <1>5, <4>1, <4>2
      <4> QED
        BY <2>1, <4>1, <4>2, <4>3 DEF Ranked
    <3> QED
      BY <3>1, <3>2
  <2> QED
    BY <2>1 DEF Ranked
<1>8. Chained(w, e, o)
  <2>1. ASSUME NEW i \in Standing(w, e, o), NEW j \in Standing(w, e, o), i < j
        PROVE  \E k \in Standing(w, e, o) :
                 i <= k /\ k < j /\ w.outbox[k].op.id \in w.outbox[j].op.deps
    <3>1. i \in Standing(s, e, o)
      <4>1. i # n + 1
        BY <1>1, <1>5, <1>6, <2>1
      <4> QED
        BY <1>6, <4>1
    <3>2. CASE j = n + 1
      <4>1. Standing(s, e, o) \in SUBSET (1..n) /\ Standing(s, e, o) # {}
        BY <1>5, <1>6, <3>1
      <4>2. \E x \in Standing(s, e, o) : \A y \in Standing(s, e, o) : y <= x
        BY <1>1, <4>1, GreatestNumber
      <4>3. PICK x \in Standing(s, e, o) : \A y \in Standing(s, e, o) : y <= x
        BY <4>2
      <4>4. s.outbox[x].op.id \in op.deps
        BY <4>3
      <4>5. x \in 1..n /\ x < n + 1 /\ w.outbox[x] = s.outbox[x] /\ x \in Standing(w, e, o)
        BY <1>2, <1>4, <1>6, <4>1
      <4>6. i <= x
        BY <3>1, <4>3
      <4> QED
        BY <1>2, <3>2, <4>4, <4>5, <4>6
    <3>3. CASE j # n + 1
      <4>1. j \in Standing(s, e, o)
        BY <1>6, <3>3
      <4>2. PICK k \in Standing(s, e, o) :
              i <= k /\ k < j /\ s.outbox[k].op.id \in s.outbox[j].op.deps
        BY <2>1, <3>1, <4>1 DEF Chained
      <4>3. w.outbox[k] = s.outbox[k] /\ w.outbox[j] = s.outbox[j]
        BY <1>2, <1>5, <1>6, <4>1
      <4> QED
        BY <1>6, <4>2, <4>3
    <3> QED
      BY <3>2, <3>3
  <2> QED
    BY <2>1 DEF Chained
<1>9. Waits(w, e, o)
  <2>1. n + 1 \in Standing(w, e, o) /\ w.outbox[n + 1].state # "isolated"
    BY <1>2, <1>6
  <2> QED
    BY <2>1 DEF Waits
<1>10. ASSUME NEW i \in Standing(w, e, o), \A j \in Standing(w, e, o) : j <= i
       PROVE  Shows(w, e, i)
  <2>1. n + 1 <= i
    BY <1>6, <1>10
  <2>2. i = n + 1
    BY <1>1, <1>5, <1>6, <2>1
  <2>3. w.outbox[i].op = op
    BY <1>2, <2>2
  <2> QED
    BY <2>3 DEF Shows
<1> QED
  BY <1>7, <1>8, <1>9, <1>10 DEF Tidy, InView

-----------------------------------------------------------------------------
(* What the transactions of a cycle write.                                 *)

\* The conflicts of w have the sources they had in s, or x, or none.
Sourced(s, w, x) ==
  \A c \in DOMAIN w.conflicts :
    \/ w.conflicts[c].source \in {x, None}
    \/ c \in DOMAIN s.conflicts /\ w.conflicts[c].source = s.conflicts[c].source

\* The operations ids are in another state, and nothing else of the queue.
Stopped(s, w, ids, state) ==
  /\ DOMAIN w.outbox = DOMAIN s.outbox
  /\ \A i \in DOMAIN s.outbox :
       /\ w.outbox[i].op = s.outbox[i].op
       /\ w.outbox[i].state =
            IF s.outbox[i].op.id \in ids THEN state ELSE s.outbox[i].state

\* Only the row of e is written.
OthersAsBefore(s, w, e) == \A x \in Entity : x # e => w.entity[x] = s.entity[x]

SameContent(s, w, e) ==
  /\ w.entity[e].present = s.entity[e].present
  /\ w.entity[e].deleted = s.entity[e].deleted
  /\ w.entity[e].payload = s.entity[e].payload

LEMMA SetOpsRows ==
  ASSUME NEW s, NEW d, NEW ids, NEW state, StoreType(s, d)
  PROVE  /\ Stopped(s, SetOps(s, ids, state), ids, state)
         /\ SetOps(s, ids, state).entity = s.entity
         /\ SetOps(s, ids, state).conflicts = s.conflicts
<1> DEFINE q == s.outbox
           p == [i \in DOMAIN q |-> IF q[i].op.id \in ids THEN [q[i] EXCEPT !.state = state]
                                    ELSE q[i]]
           w == SetOps(s, ids, state)
<1>1. \A i \in DOMAIN q : q[i] \in Entry
  BY RowsAreNumbers
<1>2. \A i \in DOMAIN q :
        /\ p[i].op = q[i].op
        /\ p[i].state = IF q[i].op.id \in ids THEN state ELSE q[i].state
  BY <1>1 DEF Entry
<1>3. DOMAIN p = DOMAIN q
  OBVIOUS
<1>4. w.outbox = p /\ w.entity = s.entity /\ w.conflicts = s.conflicts
  BY DEF SetOps, StoreType
<1> HIDE DEF p, w
<1>5. Stopped(s, w, ids, state)
  BY <1>2, <1>3, <1>4 DEF Stopped
<1> QED
  BY <1>4, <1>5 DEF w

LEMMA SetStatusRows ==
  ASSUME NEW s, NEW d, NEW e \in Entity, NEW status, StoreType(s, d)
  PROVE  LET w == SetStatus(s, e, status)
         IN /\ w.outbox = s.outbox /\ w.conflicts = s.conflicts
            /\ OthersAsBefore(s, w, e) /\ SameContent(s, w, e)
            /\ w.entity[e].status = status
<1> DEFINE w == SetStatus(s, e, status)
           row == [s.entity[e] EXCEPT !.status = status]
<1>1. s.entity[e] \in VisibleRow
  BY DEF StoreType
<1>2. /\ row.status = status /\ row.present = s.entity[e].present
      /\ row.deleted = s.entity[e].deleted /\ row.payload = s.entity[e].payload
  BY <1>1 DEF VisibleRow
<1>3. w.outbox = s.outbox /\ w.conflicts = s.conflicts /\ w.entity = [s.entity EXCEPT ![e] = row]
  BY DEF SetStatus, StoreType
<1> HIDE DEF w, row
<1>4. w.entity[e] = row /\ \A x \in Entity : x # e => w.entity[x] = s.entity[x]
  BY <1>3 DEF StoreType
<1>5. OthersAsBefore(s, w, e) /\ SameContent(s, w, e)
  BY <1>2, <1>4 DEF OthersAsBefore, SameContent
<1> QED
  BY <1>2, <1>3, <1>4, <1>5 DEF w

LEMMA SetConflictRows ==
  ASSUME NEW s, NEW d, NEW c, NEW status, StoreType(s, d)
  PROVE  LET w == SetConflict(s, c, status)
         IN w.outbox = s.outbox /\ w.entity = s.entity /\ Sourced(s, w, None)
<1> DEFINE w == SetConflict(s, c, status)
<1>1. CASE c \notin DOMAIN s.conflicts
  <2>1. w = s
    BY <1>1 DEF SetConflict
  <2> QED
    BY <2>1 DEF Sourced
<1>2. CASE c \in DOMAIN s.conflicts
  <2> DEFINE new == [s.conflicts[c] EXCEPT !.status = status]
  <2>1. Known(c, s.conflicts[c])
    BY <1>2 DEF StoreType
  <2>2. new.source = s.conflicts[c].source
    BY <2>1 DEF Known, LocalConflict
  <2>3. /\ w.outbox = s.outbox /\ w.entity = s.entity
        /\ w.conflicts = [s.conflicts EXCEPT ![c] = new]
    BY <1>2 DEF SetConflict, StoreType
  <2> HIDE DEF w, new
  <2>4. Sourced(s, w, None)
    BY <2>2, <2>3 DEF Sourced
  <2> QED
    BY <2>3, <2>4 DEF w
<1> QED
  BY <1>1, <1>2

LEMMA PutConflictRows ==
  ASSUME NEW s, NEW d, NEW c, NEW record, StoreType(s, d)
  PROVE  LET w == [s EXCEPT !.conflicts = Put(@, c, record)]
         IN /\ w.outbox = s.outbox /\ w.entity = s.entity
            /\ Sourced(s, w, record.source)
<1> DEFINE w == [s EXCEPT !.conflicts = Put(@, c, record)]
<1>1. w.outbox = s.outbox /\ w.entity = s.entity /\ w.conflicts = Put(s.conflicts, c, record)
  BY DEF StoreType
<1> HIDE DEF w
<1>2. /\ DOMAIN w.conflicts = DOMAIN s.conflicts \cup {c}
      /\ w.conflicts[c] = record
      /\ \A x \in DOMAIN s.conflicts : x # c => w.conflicts[x] = s.conflicts[x]
  BY <1>1 DEF Put
<1>3. Sourced(s, w, record.source)
  BY <1>2 DEF Sourced
<1> QED
  BY <1>1, <1>3 DEF w

LEMMA AcknowledgeRows ==
  ASSUME NEW s, NEW d, NEW op \in Operation, NEW result,
         StoreType(s, d), result.version \in Nat
  PROVE  LET w == Acknowledge(s, op, result)
             left == {w.outbox[i].state : i \in Related(w, op.entity)}
         IN /\ w.outbox = DropOps(s, {op.id}).outbox
            /\ OthersAsBefore(s, w, op.entity) /\ SameContent(s, w, op.entity)
            /\ left # {} =>
                 \/ w.entity[op.entity].status # "clean"
                 \/ w.entity[op.entity].status = s.entity[op.entity].status
            /\ Sourced(s, w, None)
<1> DEFINE e == op.entity
           rest == DropOps(s, {op.id})
           left == {rest.outbox[i].state : i \in Related(rest, e)}
           status == IF "conflict" \in left THEN "conflict"
                     ELSE IF left # {} THEN "pending" ELSE "clean"
           row == [rest.entity[e] EXCEPT !.version = result.version, !.status = status]
           numbered == [rest EXCEPT !.entity[e].version = result.version,
                                    !.entity[e].status = status]
           moved == IF s.entity[e].present THEN numbered ELSE rest
           resolving == {c \in DOMAIN s.conflicts :
                           /\ s.conflicts[c].status = "resolving"
                           /\ s.conflicts[c].resolution = op.id}
           closing == CHOOSE c \in resolving : TRUE
           after == IF op.res # None
                      THEN SetConflict(moved, op.res.conflict, StatusOf(op.res.choice))
                    ELSE IF resolving # {}
                      THEN SetConflict(moved, closing, StatusOf(s.conflicts[closing].requested))
                    ELSE moved
           w == Acknowledge(s, op, result)
<1>1. e \in Entity
  BY DEF Operation
<1>2. w = after
  BY DEF Acknowledge
<1>3. StoreType(rest, d) /\ rest.entity = s.entity /\ rest.conflicts = s.conflicts
  BY DropOpsLeaves DEF Leaves
<1>4. left # {} => status # "clean"
  OBVIOUS
<1>5. status \in {"clean", "pending", "conflict"}
  OBVIOUS
<1> HIDE DEF rest, status, left
<1>6. rest.entity[e] \in VisibleRow
  BY <1>1, <1>3 DEF StoreType
<1>7. /\ row \in VisibleRow /\ row.status = status /\ row.present = rest.entity[e].present
      /\ row.deleted = rest.entity[e].deleted /\ row.payload = rest.entity[e].payload
  BY <1>5, <1>6 DEF VisibleRow
<1>8. /\ numbered.outbox = rest.outbox /\ numbered.conflicts = rest.conflicts
      /\ numbered.epoch = rest.epoch /\ numbered.cursor = rest.cursor
      /\ numbered.state = rest.state /\ DOMAIN numbered = DOMAIN rest
      /\ numbered.entity = [rest.entity EXCEPT ![e] = row]
  BY <1>1, <1>3 DEF StoreType
<1> HIDE DEF numbered, row
<1>9. numbered.entity[e] = row /\ \A x \in Entity : x # e => numbered.entity[x] = rest.entity[x]
  BY <1>1, <1>3, <1>8 DEF StoreType
<1>10. StoreType(numbered, d)
  <2>1. numbered.entity \in [Entity -> VisibleRow]
    BY <1>3, <1>7, <1>8 DEF StoreType
  <2> QED
    BY <1>3, <1>8, <2>1 DEF StoreType, QueueType
<1>11. /\ moved.outbox = rest.outbox /\ moved.conflicts = s.conflicts
       /\ StoreType(moved, d)
       /\ OthersAsBefore(s, moved, e) /\ SameContent(s, moved, e)
       /\ moved.entity[e].status \in {status, s.entity[e].status}
  BY <1>3, <1>7, <1>8, <1>9, <1>10 DEF OthersAsBefore, SameContent
<1> HIDE DEF moved
<1>12. w = moved \/ \E c, choice : w = SetConflict(moved, c, StatusOf(choice))
  <2> HIDE DEF w, resolving, closing
  <2> QED
    BY <1>2
<1>13. w.outbox = moved.outbox /\ w.entity = moved.entity /\ Sourced(moved, w, None)
  <2>1. \A c, choice : LET v == SetConflict(moved, c, StatusOf(choice))
                       IN v.outbox = moved.outbox /\ v.entity = moved.entity
                          /\ Sourced(moved, v, None)
    BY <1>11, SetConflictRows
  <2>2. Sourced(moved, moved, None)
    BY DEF Sourced
  <2> HIDE DEF w
  <2> QED
    BY <1>12, <2>1, <2>2
<1> HIDE DEF w
<1>14. Sourced(s, w, None)
  BY <1>11, <1>13 DEF Sourced
<1>15. {w.outbox[i].state : i \in Related(w, e)} = left
  BY <1>11, <1>13 DEF Related, left
<1>16. OthersAsBefore(s, w, e) /\ SameContent(s, w, e)
  BY <1>11, <1>13 DEF OthersAsBefore, SameContent
<1> QED
  BY <1>4, <1>11, <1>13, <1>14, <1>15, <1>16 DEF w, rest

LEMMA MeetConflictRows ==
  ASSUME NEW s, NEW d, NEW op \in Operation, NEW result,
         StoreType(s, d), result.conflict \in ShownConflict
  PROVE  LET w == MeetConflict(s, op, result)
         IN /\ Stopped(s, w, {op.id}, "conflict")
            /\ OthersAsBefore(s, w, op.entity) /\ SameContent(s, w, op.entity)
            /\ w.entity[op.entity].status = "conflict"
            /\ Sourced(s, w, op.id)
<1> DEFINE e == op.entity
           told == result.conflict
           record == [entity |-> e, status |-> "open", base |-> told.base,
                      payload |-> s.entity[e].payload, local |-> told.local,
                      remoteVersion |-> told.remoteVersion,
                      remotePayload |-> told.remotePayload,
                      remoteDeleted |-> told.remoteDeleted, options |-> told.options,
                      source |-> op.id, resolution |-> None, requested |-> None,
                      recorded |-> TRUE]
           kept == [s EXCEPT !.conflicts = Put(@, told.id, record)]
           dropped == IF op.res = None THEN kept
                      ELSE SetConflict(kept, op.res.conflict, "dismissed")
           shown == SetStatus(dropped, e, "conflict")
           w == MeetConflict(s, op, result)
<1>1. e \in Entity /\ op.id \in OpId
  BY DEF Operation
<1>2. s.entity[e].payload \in Content
  BY <1>1 DEF StoreType, VisibleRow
<1>3. /\ told.id \in ConflictId /\ told.base \in Nat /\ told.local \in Content
      /\ told.remoteVersion \in Nat /\ told.remotePayload \in Content
      /\ told.remoteDeleted \in BOOLEAN /\ told.options \in SUBSET ResolutionChoices
  BY DEF ShownConflict
<1>4. w = SetOps(shown, {op.id}, "conflict")
  BY DEF MeetConflict
<1> HIDE DEF told
<1>5. record \in LocalConflict /\ record.source = op.id
  BY <1>1, <1>2, <1>3 DEF LocalConflict
<1>6. Known(told.id, record)
  BY <1>3, <1>5 DEF Known
<1> HIDE DEF record
<1>7. StoreType(kept, d)
  BY <1>6, PutConflictLeaves DEF Leaves
<1>8. kept.outbox = s.outbox /\ kept.entity = s.entity /\ Sourced(s, kept, op.id)
  BY <1>5, PutConflictRows
<1> HIDE DEF kept
<1>9. /\ StoreType(dropped, d)
      /\ dropped.outbox = kept.outbox /\ dropped.entity = kept.entity
      /\ Sourced(kept, dropped, None)
  <2>1. "dismissed" \in ConflictStatus
    BY DEF ConflictStatus
  <2>2. Sourced(kept, kept, None)
    BY DEF Sourced
  <2> QED
    BY <1>7, <2>1, <2>2, SetConflictLeaves, SetConflictRows DEF Leaves
<1> HIDE DEF dropped
<1>10. StoreType(shown, d)
  BY <1>1, <1>9, SetStatusLeaves DEF Leaves
<1>11. /\ shown.outbox = dropped.outbox /\ shown.conflicts = dropped.conflicts
       /\ OthersAsBefore(dropped, shown, e) /\ SameContent(dropped, shown, e)
       /\ shown.entity[e].status = "conflict"
  BY <1>1, <1>9, SetStatusRows
<1> HIDE DEF shown
<1>12. /\ Stopped(shown, w, {op.id}, "conflict")
       /\ w.entity = shown.entity /\ w.conflicts = shown.conflicts
  BY <1>4, <1>10, SetOpsRows
<1> HIDE DEF w
<1>13. Stopped(s, w, {op.id}, "conflict")
  BY <1>8, <1>9, <1>11, <1>12 DEF Stopped
<1>14. Sourced(s, w, op.id)
  <2>1. Sourced(s, dropped, op.id)
    BY <1>8, <1>9 DEF Sourced
  <2> QED
    BY <1>11, <1>12, <2>1 DEF Sourced
<1>15. OthersAsBefore(s, w, e) /\ SameContent(s, w, e) /\ w.entity[e].status = "conflict"
  BY <1>8, <1>9, <1>11, <1>12 DEF OthersAsBefore, SameContent
<1> QED
  BY <1>13, <1>14, <1>15 DEF w

LEMMA RefuseRows ==
  ASSUME NEW s, NEW d, NEW op \in Operation, StoreType(s, d)
  PROVE  LET w == Refuse(s, op)
         IN /\ Stopped(s, w, {op.id}, "blocked")
            /\ OthersAsBefore(s, w, op.entity)
            /\ w.entity[op.entity].present = s.entity[op.entity].present
            /\ w.entity[op.entity].payload = s.entity[op.entity].payload
            /\ \/ ~w.entity[op.entity].deleted /\ w.entity[op.entity].status = "pending"
               \/ w.entity[op.entity] = s.entity[op.entity]
            /\ w.conflicts = s.conflicts
<1> DEFINE e == op.entity
           blocked == SetOps(s, {op.id}, "blocked")
           back == [blocked EXCEPT !.entity[e].deleted = FALSE]
           w == Refuse(s, op)
<1>1. e \in Entity
  BY DEF Operation
<1>2. /\ StoreType(blocked, d) /\ Stopped(s, blocked, {op.id}, "blocked")
      /\ blocked.entity = s.entity /\ blocked.conflicts = s.conflicts
  <2>1. "blocked" \in OutboxState \ {"pending"}
    BY DEF OutboxState
  <2> QED
    BY <2>1, SetOpsLeaves, SetOpsRows DEF Leaves
<1>3. w = blocked \/ w = SetStatus(back, e, "pending")
  BY DEF Refuse
<1> HIDE DEF blocked, w
<1>4. CASE w = blocked
  BY <1>2, <1>4 DEF OthersAsBefore, w
<1>5. CASE w = SetStatus(back, e, "pending")
  <2> DEFINE row == [blocked.entity[e] EXCEPT !.deleted = FALSE]
  <2>1. blocked.entity[e] \in VisibleRow
    BY <1>1, <1>2 DEF StoreType
  <2>2. /\ row \in VisibleRow /\ row.deleted = FALSE
        /\ row.present = blocked.entity[e].present /\ row.payload = blocked.entity[e].payload
    BY <2>1 DEF VisibleRow
  <2>3. /\ back.outbox = blocked.outbox /\ back.conflicts = blocked.conflicts
        /\ back.epoch = blocked.epoch /\ back.cursor = blocked.cursor
        /\ back.state = blocked.state /\ DOMAIN back = DOMAIN blocked
        /\ back.entity = [blocked.entity EXCEPT ![e] = row]
    BY <1>1, <1>2 DEF StoreType
  <2> HIDE DEF back, row
  <2>4. back.entity[e] = row /\ \A x \in Entity : x # e => back.entity[x] = blocked.entity[x]
    BY <1>1, <1>2, <2>3 DEF StoreType
  <2>5. StoreType(back, d)
    <3>1. back.entity \in [Entity -> VisibleRow]
      BY <1>2, <2>2, <2>3 DEF StoreType
    <3> QED
      BY <1>2, <2>3, <3>1 DEF StoreType, QueueType
  <2>6. /\ w.outbox = back.outbox /\ w.conflicts = back.conflicts
        /\ OthersAsBefore(back, w, e) /\ SameContent(back, w, e)
        /\ w.entity[e].status = "pending"
    BY <1>1, <1>5, <2>5, SetStatusRows
  <2>7. Stopped(s, w, {op.id}, "blocked")
    BY <1>2, <2>3, <2>6 DEF Stopped
  <2>8. OthersAsBefore(s, w, e)
    BY <1>2, <2>4, <2>6 DEF OthersAsBefore
  <2> QED
    BY <1>2, <2>2, <2>3, <2>4, <2>6, <2>7, <2>8 DEF SameContent, w
<1> QED
  BY <1>3, <1>4, <1>5

LEMMA FollowRemoteRows ==
  ASSUME NEW s, NEW d, NEW change, StoreType(s, d)
  PROVE  LET w == FollowRemote(s, change)
         IN w.outbox = s.outbox /\ w.entity = s.entity /\ Sourced(s, w, None)
<1> DEFINE w == FollowRemote(s, change)
<1>1. /\ w.outbox = s.outbox /\ w.entity = s.entity
      /\ w.conflicts = [c \in DOMAIN s.conflicts |-> Followed(s.conflicts[c], change)]
  BY DEF FollowRemote, StoreType
<1>2. ASSUME NEW c \in DOMAIN s.conflicts
      PROVE  Followed(s.conflicts[c], change).source = s.conflicts[c].source
  <2>1. s.conflicts[c] \in LocalConflict
    BY DEF StoreType, Known
  <2> QED
    BY <2>1 DEF Followed, LocalConflict
<1> HIDE DEF w
<1>3. Sourced(s, w, None)
  BY <1>1, <1>2 DEF Sourced
<1> QED
  BY <1>1, <1>3 DEF w

LEMMA StopPendingRows ==
  ASSUME NEW s, NEW d, NEW change \in ToldChange, StoreType(s, d)
  PROVE  LET w == StopPending(s, change)
             e == change.entity
             ids == {s.outbox[i].op.id : i \in Related(s, e)}
         IN /\ Stopped(s, w, ids, "conflict")
            /\ OthersAsBefore(s, w, e) /\ SameContent(s, w, e)
            /\ w.entity[e].status = "conflict"
            /\ \E x \in ids \cup {None} : Sourced(s, w, x)
<1> DEFINE e == change.entity
           related == Related(s, e)
           last == CHOOSE i \in related : \A j \in related : j <= i
           source == IF related = {} THEN None ELSE s.outbox[last].op.id
           record == [entity |-> e, status |-> "open", base |-> s.entity[e].version,
                      payload |-> s.entity[e].payload, local |-> s.entity[e].payload,
                      remoteVersion |-> change.version, remotePayload |-> change.payload,
                      remoteDeleted |-> change.tombstone, options |-> PullOptions(s, change),
                      source |-> source,
                      resolution |-> None, requested |-> None, recorded |-> FALSE]
           kept == [s EXCEPT !.conflicts = Put(@, PullConflictId(change), record)]
           shown == SetStatus(kept, e, "conflict")
           ids == {s.outbox[i].op.id : i \in related}
           w == StopPending(s, change)
<1>1. /\ e \in Entity /\ change.version \in Nat /\ change.payload \in Content
      /\ change.tombstone \in BOOLEAN
  BY DEF ToldChange, ChangeType
<1>2. s.entity[e] \in VisibleRow
  BY <1>1 DEF StoreType
<1>3. s.entity[e].payload \in Content /\ s.entity[e].version \in Nat
  BY <1>2 DEF VisibleRow
<1>4. PullOptions(s, change) \in SUBSET ResolutionChoices
  BY DEF PullOptions, ResolutionChoices
<1>5. source \in ids \cup {None} /\ ids \subseteq OpId
  <2>1. /\ Len(s.outbox) \in Nat /\ DOMAIN s.outbox = 1..Len(s.outbox)
        /\ \A i \in DOMAIN s.outbox : s.outbox[i] \in Entry
    BY RowsAreNumbers
  <2>2. related \in SUBSET (1..Len(s.outbox))
    BY <2>1 DEF Related
  <2> HIDE DEF related
  <2>3. ids \subseteq OpId
    BY <2>1, <2>2 DEF Entry, Operation
  <2>4. CASE related = {}
    BY <2>3, <2>4
  <2>5. CASE related # {}
    <3>1. \E i \in related : \A j \in related : j <= i
      BY <2>1, <2>2, <2>5, GreatestNumber
    <3>2. last \in related
      BY <3>1
    <3> HIDE DEF last
    <3> QED
      BY <2>3, <2>5, <3>2
  <2> QED
    BY <2>4, <2>5
<1>6. w = SetOps(shown, ids, "conflict")
  BY DEF StopPending
<1> HIDE DEF source, related, ids
<1>7. record \in LocalConflict /\ record.recorded = FALSE /\ record.source = source
  BY <1>1, <1>3, <1>4, <1>5 DEF LocalConflict
<1>8. Known(PullConflictId(change), record)
  BY <1>7 DEF Known
<1> HIDE DEF record
<1>9. StoreType(kept, d)
  BY <1>8, PutConflictLeaves DEF Leaves
<1>10. kept.outbox = s.outbox /\ kept.entity = s.entity /\ Sourced(s, kept, source)
  BY <1>7, PutConflictRows
<1> HIDE DEF kept
<1>11. StoreType(shown, d)
  BY <1>1, <1>9, SetStatusLeaves DEF Leaves
<1>12. /\ shown.outbox = kept.outbox /\ shown.conflicts = kept.conflicts
       /\ OthersAsBefore(kept, shown, e) /\ SameContent(kept, shown, e)
       /\ shown.entity[e].status = "conflict"
  BY <1>1, <1>9, SetStatusRows
<1> HIDE DEF shown
<1>13. /\ Stopped(shown, w, ids, "conflict")
       /\ w.entity = shown.entity /\ w.conflicts = shown.conflicts
  BY <1>6, <1>11, SetOpsRows
<1> HIDE DEF w
<1>14. Stopped(s, w, ids, "conflict")
  BY <1>10, <1>12, <1>13 DEF Stopped
<1>15. Sourced(s, w, source)
  BY <1>10, <1>12, <1>13 DEF Sourced
<1>16. OthersAsBefore(s, w, e) /\ SameContent(s, w, e) /\ w.entity[e].status = "conflict"
  BY <1>10, <1>12, <1>13 DEF OthersAsBefore, SameContent
<1>17. \E x \in ids \cup {None} : Sourced(s, w, x)
  BY <1>5, <1>15
<1> QED
  BY <1>14, <1>16, <1>17 DEF w, ids, related

-----------------------------------------------------------------------------
(* Every transaction leaves the entities tidy.                             *)

Neat(s, o) == \A e \in Entity : Tidy(s, e, o)

\* If anything of an entity is not isolated, nothing of it that stands waits
\* in vain.
LEMMA StandingWaits ==
  ASSUME NEW s, NEW d, NEW e, NEW o, StoreType(s, d), Tidy(s, e, o),
         NEW p \in Related(s, e), s.outbox[p].state # "isolated", Standing(s, e, o) # {}
  PROVE  Waits(s, e, o)
<1>1. CASE p \in Standing(s, e, o)
  BY <1>1 DEF Waits
<1>2. CASE p \notin Standing(s, e, o)
  <2>1. PICK q \in Standing(s, e, o) : TRUE
    OBVIOUS
  <2>2. /\ q \in Related(s, e) /\ s.outbox[q].op.id \notin o /\ s.outbox[p].op.id \in o
        /\ p \in DOMAIN s.outbox /\ q \in DOMAIN s.outbox
    BY <1>2 DEF Standing, Related
  <2>3. p < q \/ q < p
    BY <1>2, <2>2, RowsAreNumbers
  <2>4. ~(q < p)
    BY <2>2 DEF Tidy, Ranked
  <2>5. s.outbox[q].state # "isolated"
    BY <2>2, <2>3, <2>4 DEF Tidy, Ranked
  <2> QED
    BY <2>5 DEF Waits
<1> QED
  BY <1>1, <1>2

\* A success takes the first operation that stands.
LEMMA AcknowledgeTidy ==
  ASSUME NEW s, NEW d, NEW o, NEW op \in Operation, NEW result, StoreType(s, d),
         result.version \in Nat, Neat(s, o),
         NEW p \in DOMAIN s.outbox, s.outbox[p].op = op, s.outbox[p].state = "pending",
         p \in Standing(s, op.entity, o) => \A i \in Standing(s, op.entity, o) : p <= i
  PROVE  Neat(Acknowledge(s, op, result), o)
<1> DEFINE w == Acknowledge(s, op, result)
           left == {w.outbox[i].state : i \in Related(w, op.entity)}
<1>1. /\ w.outbox = DropOps(s, {op.id}).outbox
      /\ OthersAsBefore(s, w, op.entity) /\ SameContent(s, w, op.entity)
      /\ left # {} => \/ w.entity[op.entity].status # "clean"
                      \/ w.entity[op.entity].status = s.entity[op.entity].status
  BY AcknowledgeRows
<1>2. StoreType(w, d) /\ Follows(s, w, {op.id})
  BY AcknowledgeLeaves DEF Leaves
<1> HIDE DEF w
<1>3. \A i \in DOMAIN s.outbox : s.outbox[i].op.id = op.id => i = p
  BY DEF StoreType, QueueType
<1>4. ASSUME NEW e \in Entity
      PROVE  Tidy(w, e, o)
  <2>1. Tidy(s, e, o)
    BY DEF Neat
  <2>2. Agree(s, e, o, o)
    BY DEF Agree
  <2>3. /\ Standing(s, e, o) \subseteq Related(s, e) /\ Related(s, e) \subseteq DOMAIN s.outbox
        /\ Standing(w, e, o) \subseteq Related(w, e)
    BY DEF Standing, Related
  <2>4. \A i \in Related(s, e) : s.outbox[i].state = "blocked" => s.outbox[i].op.id \notin {op.id}
    BY <1>3, <2>3
  <2>5. CASE e # op.entity
    <3>1. \A i \in Related(s, e) : s.outbox[i].op.id # op.id
      BY <1>3, <2>3, <2>5 DEF Related
    <3>2. w.entity[e] = s.entity[e]
      BY <1>1, <2>5 DEF OthersAsBefore
    <3>3. \A i \in Standing(s, e, o) :
            s.outbox[i].op.id \notin {op.id} \/ \A j \in Standing(s, e, o) : i <= j
      BY <2>3, <3>1
    <3> QED
      BY <1>1, <1>2, <2>1, <2>2, <2>4, <3>2, <3>3, TidyThinned
  <2>6. CASE e = op.entity
    <3>1. p \in Related(s, e)
      BY <2>6 DEF Related
    <3>2. \A i \in Standing(s, e, o) :
            s.outbox[i].op.id \notin {op.id} \/ \A j \in Standing(s, e, o) : i <= j
      BY <1>3, <2>3, <2>6
    <3>3. ASSUME Standing(w, e, o) # {}
          PROVE  Waits(s, e, o) /\ left # {}
      <4>1. PICK k \in Standing(w, e, o) : TRUE
        BY <3>3
      <4>2. k \in DOMAIN w.outbox /\ k \in Related(w, e) /\ w.outbox[k].op.entity = e
            /\ w.outbox[k].op.id \notin o
        BY DEF Standing, Related
      <4>3. PICK j \in DOMAIN s.outbox : w.outbox[k].op = s.outbox[j].op
        BY <1>2, <4>2 DEF Follows
      <4>4. j \in Standing(s, e, o)
        BY <4>2, <4>3 DEF Standing, Related
      <4>5. Waits(s, e, o)
        BY <2>1, <3>1, <4>4, StandingWaits
      <4> QED
        BY <2>6, <4>2, <4>5
    <3> HIDE DEF left
    <3>4. SameContent(s, w, e)
      BY <1>1, <2>6
    <3>5. s.entity[e].status # "clean" /\ Standing(w, e, o) # {} => w.entity[e].status # "clean"
      BY <1>1, <2>6, <3>3
    <3> QED
      BY <1>1, <1>2, <2>1, <2>2, <2>4, <3>2, <3>3, <3>4, <3>5, TidyThinned DEF SameContent
  <2> QED
    BY <2>5, <2>6
<1> QED
  BY <1>4 DEF Neat, w

\* What stops in one entity does not disturb the others.
LEMMA OthersTidy ==
  ASSUME NEW s, NEW w, NEW d, NEW o, NEW e, NEW ids, NEW state, NEW x \in Entity, x # e,
         StoreType(s, d), StoreType(w, d), Neat(s, o), Stopped(s, w, ids, state),
         OthersAsBefore(s, w, e),
         \A i \in DOMAIN s.outbox : s.outbox[i].op.id \in ids => i \in Related(s, e)
  PROVE  Tidy(w, x, o)
<1>1. Tidy(s, x, o)
  BY DEF Neat
<1>2. w.entity[x] = s.entity[x]
  BY DEF OthersAsBefore
<1>3. /\ Standing(s, x, o) \subseteq Related(s, x) /\ Related(s, x) \subseteq DOMAIN s.outbox
      /\ Related(w, x) = Related(s, x)
  BY DEF Standing, Related, Stopped
<1>4. \A i \in Related(s, x) : w.outbox[i].state = s.outbox[i].state /\ w.outbox[i].op = s.outbox[i].op
  BY <1>3 DEF Stopped, Related
<1>5. Marks(s, w, x)
  BY <1>3, <1>4 DEF Marks, Stopped
<1>6. \A k \in Standing(s, x, o) : Shows(s, x, k) => Shows(w, x, k)
  BY <1>2, <1>3, <1>4 DEF Shows
<1> QED
  BY <1>1, <1>2, <1>5, <1>6, TidyMarked

LEMMA MeetConflictTidy ==
  ASSUME NEW s, NEW d, NEW o, NEW op \in Operation, NEW result, StoreType(s, d),
         result.conflict \in ShownConflict, Neat(s, o),
         NEW p \in DOMAIN s.outbox, s.outbox[p].op = op, s.outbox[p].state = "pending"
  PROVE  Neat(MeetConflict(s, op, result), o)
<1> DEFINE w == MeetConflict(s, op, result)
           e == op.entity
<1>1. /\ Stopped(s, w, {op.id}, "conflict")
      /\ OthersAsBefore(s, w, e) /\ SameContent(s, w, e) /\ w.entity[e].status = "conflict"
  BY MeetConflictRows
<1>2. StoreType(w, d) /\ e \in Entity
  BY MeetConflictLeaves DEF Leaves, Operation
<1> HIDE DEF w
<1>3. \A i \in DOMAIN s.outbox : s.outbox[i].op.id = op.id => i = p
  BY DEF StoreType, QueueType
<1>4. /\ p \in Related(s, e) /\ Standing(s, e, o) \subseteq Related(s, e)
      /\ Related(s, e) \subseteq DOMAIN s.outbox /\ Related(w, e) = Related(s, e)
  BY <1>1 DEF Related, Standing, Stopped
<1>5. Tidy(s, e, o)
  BY <1>2 DEF Neat
<1>6. \A i \in Related(s, e) : s.outbox[i].state # "pending" => w.outbox[i].state = s.outbox[i].state
  BY <1>1, <1>3, <1>4 DEF Stopped
<1>7. \A i \in Related(s, e) : w.outbox[i].state \in {"conflict", s.outbox[i].state}
  BY <1>1, <1>4 DEF Stopped
<1>8. Marks(s, w, e)
  BY <1>1, <1>4, <1>6, <1>7 DEF Marks, Stopped
<1>9. ASSUME NEW k \in Standing(s, e, o), Shows(s, e, k)
      PROVE  Shows(w, e, k)
  <2>1. w.outbox[k].op = s.outbox[k].op
    BY <1>1, <1>4 DEF Stopped
  <2>2. s.outbox[k].state # "pending" => w.outbox[k].state # "pending"
    BY <1>4, <1>6
  <2>3. (\E j \in Related(s, e) : s.outbox[j].state = "blocked") =>
          \E j \in Related(w, e) : w.outbox[j].state = "blocked"
    BY <1>4, <1>6
  <2> QED
    BY <1>1, <1>9, <2>1, <2>2, <2>3 DEF Shows, SameContent
<1>10. Standing(s, e, o) # {} => Waits(s, e, o)
  BY <1>4, <1>5, StandingWaits
<1>11. Tidy(w, e, o)
  BY <1>1, <1>2, <1>5, <1>8, <1>9, <1>10, TidyMarked DEF SameContent
<1>12. \A x \in Entity : x # e => Tidy(w, x, o)
  <2>1. \A i \in DOMAIN s.outbox : s.outbox[i].op.id \in {op.id} => i \in Related(s, e)
    BY <1>3, <1>4
  <2> QED
    BY <1>1, <1>2, <2>1, OthersTidy
<1> QED
  BY <1>11, <1>12 DEF Neat, w

LEMMA RefuseTidy ==
  ASSUME NEW s, NEW d, NEW o, NEW op \in Operation, StoreType(s, d), Neat(s, o),
         NEW p \in DOMAIN s.outbox, s.outbox[p].op = op, s.outbox[p].state = "pending"
  PROVE  Neat(Refuse(s, op), o)
<1> DEFINE w == Refuse(s, op)
           e == op.entity
<1>1. /\ Stopped(s, w, {op.id}, "blocked") /\ OthersAsBefore(s, w, e)
      /\ w.entity[e].present = s.entity[e].present
      /\ w.entity[e].payload = s.entity[e].payload
      /\ \/ ~w.entity[e].deleted /\ w.entity[e].status = "pending"
         \/ w.entity[e] = s.entity[e]
  BY RefuseRows
<1>2. StoreType(w, d) /\ e \in Entity
  BY RefuseLeaves DEF Leaves, Operation
<1> HIDE DEF w
<1>3. \A i \in DOMAIN s.outbox : s.outbox[i].op.id = op.id => i = p
  BY DEF StoreType, QueueType
<1>4. /\ p \in Related(s, e) /\ Standing(s, e, o) \subseteq Related(s, e)
      /\ Related(s, e) \subseteq DOMAIN s.outbox /\ Related(w, e) = Related(s, e)
  BY <1>1 DEF Related, Standing, Stopped
<1>5. Tidy(s, e, o)
  BY <1>2 DEF Neat
<1>6. w.outbox[p].state = "blocked"
  BY <1>1 DEF Stopped
<1>7. Marks(s, w, e)
  <2>1. \A i \in Related(s, e) : i # p => w.outbox[i].state = s.outbox[i].state
    BY <1>1, <1>3, <1>4 DEF Stopped
  <2> QED
    BY <1>1, <1>4, <1>6, <2>1 DEF Marks, Stopped
<1>8. ASSUME NEW k \in Standing(s, e, o), Shows(s, e, k)
      PROVE  Shows(w, e, k)
  <2>1. w.outbox[k].op = s.outbox[k].op
    BY <1>1, <1>4 DEF Stopped
  <2> QED
    BY <1>1, <1>4, <1>6, <1>8, <2>1 DEF Shows
<1>9. Standing(s, e, o) # {} => Waits(s, e, o)
  BY <1>4, <1>5, StandingWaits
<1>10. Tidy(w, e, o)
  BY <1>1, <1>2, <1>5, <1>7, <1>8, <1>9, TidyMarked
<1>11. \A x \in Entity : x # e => Tidy(w, x, o)
  <2>1. \A i \in DOMAIN s.outbox : s.outbox[i].op.id \in {op.id} => i \in Related(s, e)
    BY <1>3, <1>4
  <2> QED
    BY <1>1, <1>2, <2>1, OthersTidy
<1> QED
  BY <1>10, <1>11 DEF Neat, w

\* Everything of an entity that was not clean stops.
LEMMA StopPendingTidy ==
  ASSUME NEW s, NEW d, NEW o, NEW change \in ToldChange, StoreType(s, d), Neat(s, o),
         s.entity[change.entity].status # "clean"
  PROVE  Neat(StopPending(s, change), o)
<1> DEFINE w == StopPending(s, change)
           e == change.entity
           ids == {s.outbox[i].op.id : i \in Related(s, e)}
<1>1. /\ Stopped(s, w, ids, "conflict")
      /\ OthersAsBefore(s, w, e) /\ SameContent(s, w, e)
      /\ w.entity[e].status = "conflict"
  BY StopPendingRows
<1>2. StoreType(w, d) /\ e \in Entity
  BY StopPendingLeaves DEF Leaves, ToldChange
<1> HIDE DEF w
<1>3. /\ Standing(s, e, o) \subseteq Related(s, e) /\ Related(s, e) \subseteq DOMAIN s.outbox
      /\ Related(w, e) = Related(s, e)
  BY <1>1 DEF Related, Standing, Stopped
<1>4. Tidy(s, e, o)
  BY <1>2 DEF Neat
<1>5. \A i \in Related(s, e) : w.outbox[i].op = s.outbox[i].op /\ w.outbox[i].state = "conflict"
  BY <1>1, <1>3 DEF Stopped
<1>6. \A i \in DOMAIN s.outbox : s.outbox[i].op.id \in ids => i \in Related(s, e)
  <2> SUFFICES ASSUME NEW i \in DOMAIN s.outbox, s.outbox[i].op.id \in ids
               PROVE  i \in Related(s, e)
    OBVIOUS
  <2>1. PICK j \in Related(s, e) : s.outbox[i].op.id = s.outbox[j].op.id
    OBVIOUS
  <2>2. i = j
    BY <1>3, <2>1 DEF StoreType, QueueType
  <2> QED
    BY <2>2
<1> HIDE DEF ids
<1>7. Standing(w, e, o) = Standing(s, e, o)
  BY <1>3, <1>5 DEF Standing
<1>8. Ranked(w, e, o)
  BY <1>3, <1>4, <1>5 DEF Tidy, Ranked
<1>9. Chained(w, e, o)
  <2>1. \A i \in Standing(s, e, o) : w.outbox[i].op = s.outbox[i].op
    BY <1>3, <1>5
  <2> QED
    BY <1>4, <1>7, <2>1 DEF Tidy, Chained
<1>10. Standing(s, e, o) # {} => Waits(s, e, o) /\ Waits(w, e, o)
  BY <1>3, <1>4, <1>5, <1>7 DEF Tidy, InView, Waits
<1>11. ASSUME NEW k \in Standing(s, e, o), Shows(s, e, k)
       PROVE  Shows(w, e, k)
  <2>1. w.outbox[k].op = s.outbox[k].op /\ w.outbox[k].state = "conflict"
    BY <1>3, <1>5
  <2> QED
    BY <1>1, <1>11, <2>1 DEF Shows, SameContent
<1>12. Waits(s, e, o) =>
         /\ s.entity[e].present
         /\ \A i \in Standing(s, e, o) :
              (\A j \in Standing(s, e, o) : j <= i) => Shows(s, e, i)
  BY <1>4 DEF Tidy, InView
<1>13. Waits(w, e, o) => Standing(s, e, o) # {}
  BY <1>7 DEF Waits
<1>14. Tidy(w, e, o)
  BY <1>1, <1>7, <1>8, <1>9, <1>10, <1>11, <1>12, <1>13 DEF Tidy, InView, SameContent
<1>15. \A x \in Entity : x # e => Tidy(w, x, o)
  BY <1>1, <1>2, <1>6, OthersTidy
<1> QED
  BY <1>14, <1>15 DEF Neat, w

\* A clean row can be replaced by another.
LEMMA CleanTidy ==
  ASSUME NEW s, NEW w, NEW d, NEW e, NEW o, StoreType(s, d), StoreType(w, d),
         Tidy(s, e, o), w.outbox = s.outbox,
         s.entity[e].status = "clean", w.entity[e].status = "clean"
  PROVE  Tidy(w, e, o)
<1>1. Marks(s, w, e)
  BY DEF Marks
<1> QED
  BY <1>1, TidyMarked

LEMMA ApplyChangeTidy ==
  ASSUME NEW s, NEW d, NEW o, NEW change \in ToldChange, StoreType(s, d), Neat(s, o)
  PROVE  Neat(ApplyChange(s, change), o)
<1> DEFINE e == change.entity
           row == [present |-> TRUE, version |-> change.version,
                   deleted |-> change.tombstone, payload |-> change.payload,
                   status |-> "clean"]
           w == [s EXCEPT !.entity[e] = row]
<1>1. e \in Entity
  BY DEF ToldChange
<1>2. s.entity[e] \in VisibleRow
  BY <1>1 DEF StoreType
<1>3. CASE s.entity[e].status = "conflict"
  <2>1. /\ ApplyChange(s, change) = FollowRemote(s, change)
        /\ FollowRemote(s, change).outbox = s.outbox
        /\ FollowRemote(s, change).entity = s.entity
    BY <1>3, FollowRemoteRows DEF ApplyChange
  <2> QED
    BY <2>1, TidyRests DEF Neat
<1>4. CASE s.entity[e].status = "pending"
  <2>1. ApplyChange(s, change) = StopPending(s, change)
    BY <1>4 DEF ApplyChange
  <2> QED
    BY <1>4, <2>1, StopPendingTidy
<1>5. CASE s.entity[e].status = "clean"
  <2>1. ApplyChange(s, change) = w
    BY <1>5 DEF ApplyChange
  <2>2. StoreType(w, d)
    BY <2>1, ApplyChangeLeaves DEF Leaves
  <2>3. row.status = "clean"
    OBVIOUS
  <2> HIDE DEF row
  <2>4. w.outbox = s.outbox /\ w.entity = [s.entity EXCEPT ![e] = row]
    BY DEF StoreType
  <2> HIDE DEF w
  <2>5. w.entity[e] = row /\ \A x \in Entity : x # e => w.entity[x] = s.entity[x]
    BY <1>1, <2>4 DEF StoreType
  <2>6. ASSUME NEW x \in Entity
        PROVE  Tidy(w, x, o)
    <3>1. Tidy(s, x, o)
      BY DEF Neat
    <3>2. CASE x = e
      BY <1>5, <2>2, <2>3, <2>4, <2>5, <3>1, <3>2, CleanTidy
    <3>3. CASE x # e
      BY <2>4, <2>5, <3>1, <3>3, TidyRests
    <3> QED
      BY <3>2, <3>3
  <2> QED
    BY <2>1, <2>6 DEF Neat
<1> QED
  BY <1>2, <1>3, <1>4, <1>5 DEF VisibleRow

\* A bootstrap keeps what is not clean, or isolates everything.
LEMMA ActivateTidy ==
  ASSUME NEW s, NEW d, NEW o, NEW snapshot, StoreType(s, d), ToldSnapshot(snapshot), Neat(s, o)
  PROVE  Neat(Activate(s, snapshot), o)
<1>1. CASE s.manifest = snapshot
  BY <1>1 DEF Activate
<1>2. CASE s.manifest # snapshot
  <2> DEFINE changed == s.epoch # None /\ s.epoch # snapshot.epoch
             kept == IF changed THEN {} ELSE {e \in Entity : s.entity[e].status # "clean"}
             stopped == SetOps(s, Queued(s), "isolated")
             isolated == IF changed THEN stopped ELSE s
             rows == [e \in Entity |->
                        IF e \in kept THEN s.entity[e]
                        ELSE IF e \in DOMAIN snapshot.records
                          THEN LocalEntity(snapshot.records[e])
                        ELSE Absent]
             w == Activate(s, snapshot)
  <2>1. w = [isolated EXCEPT !.entity = rows, !.epoch = snapshot.epoch,
                             !.cursor = snapshot.cursor, !.state = "ready",
                             !.manifest = snapshot]
    BY <1>2 DEF Activate, ActivateNew
  <2>2. \A e \in Entity : IF e \in kept THEN rows[e] = s.entity[e] ELSE rows[e].status = "clean"
    BY DEF LocalEntity, Absent
  <2>3. StoreType(w, d)
    BY ActivateKeeps
  <2>4. "isolated" \in OutboxState \ {"pending"}
    BY DEF OutboxState
  <2>5. StoreType(stopped, d)
    BY <2>4, SetOpsLeaves DEF Leaves
  <2>6. Stopped(s, stopped, Queued(s), "isolated")
    BY SetOpsRows
  <2> HIDE DEF rows, stopped
  <2>7. w.outbox = isolated.outbox /\ w.entity = rows
    BY <2>1, <2>5 DEF StoreType
  <2> HIDE DEF w
  <2>8. CASE changed
    <3>1. /\ DOMAIN w.outbox = DOMAIN s.outbox
          /\ \A i \in DOMAIN s.outbox : /\ w.outbox[i].op = s.outbox[i].op
                                        /\ w.outbox[i].state = "isolated"
      BY <2>6, <2>7, <2>8 DEF Stopped, Queued
    <3>2. \A e \in Entity : w.entity[e].status = "clean"
      BY <2>2, <2>7, <2>8
    <3>3. \A e \in Entity : Tidy(w, e, o)
      BY <3>1, <3>2, TidyIsolated DEF Neat
    <3> QED
      BY <3>3 DEF Neat, w
  <2>9. CASE ~changed
    <3>1. w.outbox = s.outbox
      BY <2>7, <2>9
    <3>2. ASSUME NEW e \in Entity
          PROVE  Tidy(w, e, o)
      <4>1. Tidy(s, e, o)
        BY DEF Neat
      <4>2. CASE e \in kept
        BY <2>2, <2>7, <3>1, <4>1, <4>2, TidyRests
      <4>3. CASE e \notin kept
        <5>1. s.entity[e].status = "clean" /\ w.entity[e].status = "clean"
          BY <2>2, <2>7, <2>9, <4>3
        <5> QED
          BY <2>3, <3>1, <4>1, <5>1, CleanTidy
      <4> QED
        BY <4>2, <4>3
    <3> QED
      BY <3>2 DEF Neat, w
  <2> QED
    BY <2>8, <2>9
<1> QED
  BY <1>1, <1>2

\* The last of what stands is that which is queued last.
LEMMA LastStands ==
  ASSUME NEW s, NEW d, NEW e, NEW o, StoreType(s, d), Ranked(s, e, o),
         NEW i \in Standing(s, e, o), \A j \in Standing(s, e, o) : j <= i
  PROVE  \A j \in Related(s, e) : j <= i
<1> SUFFICES ASSUME NEW j \in Related(s, e), ~(j <= i) PROVE FALSE
  OBVIOUS
<1>1. i \in Related(s, e) /\ s.outbox[i].op.id \notin o /\ i \in DOMAIN s.outbox /\ j \in DOMAIN s.outbox
  BY DEF Standing, Related
<1>2. i < j
  BY <1>1, RowsAreNumbers
<1>3. s.outbox[j].op.id \notin o
  BY <1>1, <1>2 DEF Ranked
<1> QED
  BY <1>3 DEF Standing

LEMMA CommitRows ==
  ASSUME NEW s, NEW d, NEW op \in Operation, StoreType(s, d)
  PROVE  LET w == Commit(s, op)
         IN /\ w.outbox = Append(s.outbox, [op |-> op, state |-> "pending"])
            /\ w.conflicts = s.conflicts
            /\ OthersAsBefore(s, w, op.entity)
            /\ w.entity[op.entity].present /\ w.entity[op.entity].status = "pending"
            /\ w.entity[op.entity].deleted = (op.type = "delete")
            /\ op.type # "delete" => w.entity[op.entity].payload = op.payload
<1> DEFINE e == op.entity
           row == [present |-> TRUE, version |-> op.base, deleted |-> op.type = "delete",
                   payload |-> IF op.type = "delete" THEN s.entity[e].payload ELSE op.payload,
                   status |-> "pending"]
           w == Commit(s, op)
<1>1. e \in Entity
  BY DEF Operation
<1>2. /\ row.present /\ row.status = "pending" /\ row.deleted = (op.type = "delete")
      /\ op.type # "delete" => row.payload = op.payload
  OBVIOUS
<1>3. /\ w.outbox = Append(s.outbox, [op |-> op, state |-> "pending"])
      /\ w.conflicts = s.conflicts
      /\ w.entity = [s.entity EXCEPT ![e] = row]
  BY DEF Commit, StoreType
<1> HIDE DEF w, row
<1>4. w.entity[e] = row /\ \A x \in Entity : x # e => w.entity[x] = s.entity[x]
  BY <1>1, <1>3 DEF StoreType
<1> QED
  BY <1>2, <1>3, <1>4 DEF OthersAsBefore, w

\* A new operation of another entity changes nothing for e.
LEMMA AppendedElsewhere ==
  ASSUME NEW s, NEW w, NEW d, NEW e, NEW o, NEW op \in Operation, StoreType(s, d),
         StoreType(w, d), Tidy(s, e, o),
         w.outbox = Append(s.outbox, [op |-> op, state |-> "pending"]),
         op.entity # e, w.entity[e] = s.entity[e]
  PROVE  Tidy(w, e, o)
<1> DEFINE n == Len(s.outbox)
           entry == [op |-> op, state |-> "pending"]
           at == [i \in DOMAIN s.outbox |-> i]
<1>1. /\ s.outbox \in Seq(Entry) /\ n \in Nat /\ DOMAIN s.outbox = 1..n
      /\ entry \in Entry /\ entry.op = op
  BY RowsAreNumbers DEF StoreType, QueueType, Entry, OutboxState
<1> HIDE DEF entry
<1>2. /\ DOMAIN w.outbox = 1..(n + 1)
      /\ \A i \in 1..n : w.outbox[i] = s.outbox[i]
      /\ w.outbox[n + 1].op = op
  <2>1. w.outbox = Append(s.outbox, entry)
    BY DEF entry
  <2> QED
    BY <1>1, <2>1
<1> HIDE DEF n
<1>3. \A i \in 1..(n + 1) : i \in 1..n \/ i = n + 1
  BY <1>1
<1>4. \A i \in 1..n : i \in 1..(n + 1)
  BY <1>1
<1>5. Related(w, e) = Related(s, e) /\ Related(s, e) \subseteq 1..n
  BY <1>1, <1>2, <1>3, <1>4 DEF Related
<1>6. \A i \in Related(s, e) : w.outbox[i] = s.outbox[i] /\ at[i] = i
  BY <1>1, <1>2, <1>5
<1> HIDE DEF at
<1>7. Carries(s, w, e, at)
  BY <1>5, <1>6 DEF Carries
<1>8. /\ Standing(w, e, o) = Standing(s, e, o)
      /\ \A k \in Standing(s, e, o) : k \in Related(s, e) /\ at[k] = k
  BY <1>5, <1>6 DEF Standing
<1>9. \A k \in Standing(s, e, o) : Shows(s, e, at[k]) => Shows(w, e, k)
  <2>1. \A k \in Standing(s, e, o) : Shows(s, e, k) => Shows(w, e, k)
    BY <1>5, <1>6, <1>8 DEF Shows
  <2> QED
    BY <1>8, <2>1
<1>10. Agree(s, e, o, o)
  BY DEF Agree
<1> QED
  BY <1>5, <1>7, <1>8, <1>9, <1>10, TidyOn

\* An edit is made on top of the last operation of its entity.
LEMMA CommitTidy ==
  ASSUME NEW s, NEW d \in Device, NEW o, NEW id \in OpId, NEW type \in Edits,
         NEW e \in Entity, StoreType(s, d), Neat(s, o), id \notin o, id \notin Queued(s)
  PROVE  Neat(Commit(s, Mutation(s, d, id, type, e)), o)
<1> DEFINE op == Mutation(s, d, id, type, e)
           w == Commit(s, op)
           last == CHOOSE i \in Related(s, e) : \A j \in Related(s, e) : j <= i
<1>1. /\ op \in Operation /\ op.entity = e /\ op.id = id /\ op.device = d
      /\ Related(s, e) # {} => op.deps = {s.outbox[last].op.id}
  BY MutationTyped DEF Mutation
<1>2. \A i \in Standing(s, e, o) : (\A j \in Standing(s, e, o) : j <= i) =>
        s.outbox[i].op.id \in op.deps
  <2> SUFFICES ASSUME NEW i \in Standing(s, e, o), \A j \in Standing(s, e, o) : j <= i
               PROVE  s.outbox[i].op.id \in op.deps
    OBVIOUS
  <2>1. i \in Related(s, e) /\ \A j \in Related(s, e) : j <= i
    BY LastStands DEF Neat, Tidy, Standing
  <2>2. last \in Related(s, e) /\ \A j \in Related(s, e) : j <= last
    BY <2>1
  <2>3. Related(s, e) \subseteq Nat
    BY RowsAreNumbers DEF Related
  <2> HIDE DEF last
  <2>4. last = i
    BY <2>1, <2>2, <2>3
  <2> QED
    BY <1>1, <2>1, <2>4
<1> HIDE DEF op
<1>3. /\ w.outbox = Append(s.outbox, [op |-> op, state |-> "pending"])
      /\ OthersAsBefore(s, w, e)
      /\ w.entity[e].present /\ w.entity[e].status = "pending"
      /\ w.entity[e].deleted = (op.type = "delete")
      /\ op.type # "delete" => w.entity[e].payload = op.payload
  BY <1>1, CommitRows
<1>4. StoreType(w, d)
  BY <1>1, CommitQueues DEF Queues
<1> HIDE DEF w
<1>5. ASSUME NEW x \in Entity
      PROVE  Tidy(w, x, o)
  <2>1. Tidy(s, x, o)
    BY DEF Neat
  <2>2. CASE x = e
    <3>1. Ranked(s, e, o) /\ Chained(s, e, o)
      BY <2>1, <2>2 DEF Tidy
    <3> QED
      BY <1>1, <1>2, <1>3, <2>2, <3>1, TidyAppended
  <2>3. CASE x # e
    BY <1>1, <1>3, <1>4, <2>1, <2>3, AppendedElsewhere DEF OthersAsBefore
  <2> QED
    BY <2>2, <2>3
<1> QED
  BY <1>5 DEF Neat, w, op

LEMMA ResolutionRows ==
  ASSUME NEW s, NEW d, NEW id, NEW c, NEW conflict, NEW choice,
         StoreType(s, d), Known(c, conflict)
  PROVE  LET w == QueueResolution(s, d, id, c, conflict, choice)
             cleared == DropOps(s, Replaced(s, conflict))
             op == ResolutionOp(d, id, c, conflict, choice)
             e == conflict.entity
         IN /\ TakesRemoteLocally(conflict, choice) => w.outbox = cleared.outbox
            /\ ~TakesRemoteLocally(conflict, choice) =>
                 w.outbox = Append(cleared.outbox, [op |-> op, state |-> "pending"])
            /\ OthersAsBefore(s, w, e)
            /\ s.entity[e].present =>
                 /\ w.entity[e].present
                 /\ ~TakesRemoteLocally(conflict, choice) => w.entity[e].status # "clean"
                 /\ w.entity[e].deleted = (choice = "keep_remote" /\ conflict.remoteDeleted)
                 /\ w.entity[e].payload = Chosen(conflict, choice, id)
            /\ Sourced(s, w, None)
<1> DEFINE local == TakesRemoteLocally(conflict, choice)
           cleared == DropOps(s, Replaced(s, conflict))
           op == ResolutionOp(d, id, c, conflict, choice)
           e == conflict.entity
           shown == [present |-> TRUE, version |-> conflict.remoteVersion,
                     deleted |-> choice = "keep_remote" /\ conflict.remoteDeleted,
                     payload |-> Chosen(conflict, choice, id),
                     status |-> IF local THEN "clean" ELSE "pending"]
           row == IF cleared.entity[e].present THEN shown ELSE cleared.entity[e]
           record == Decided(cleared.conflicts[c], local, choice, id)
           w == QueueResolution(s, d, id, c, conflict, choice)
<1>1. e \in Entity
  BY DEF Known, LocalConflict
<1>2. StoreType(cleared, d) /\ cleared.entity = s.entity /\ cleared.conflicts = s.conflicts
  BY DropOpsLeaves DEF Leaves
<1>3. /\ shown.present
      /\ ~local => shown.status # "clean"
      /\ shown.deleted = (choice = "keep_remote" /\ conflict.remoteDeleted)
      /\ shown.payload = Chosen(conflict, choice, id)
  <2> HIDE DEF local
  <2> QED
    OBVIOUS
<1>4. /\ w.outbox = IF local THEN cleared.outbox
                    ELSE Append(cleared.outbox, [op |-> op, state |-> "pending"])
      /\ w.conflicts = [cleared.conflicts EXCEPT ![c] = record]
      /\ w.entity = [cleared.entity EXCEPT ![e] = row]
  <2> HIDE DEF cleared, local, op, shown
  <2>1. w = [cleared EXCEPT
               !.entity[e] = IF @.present THEN shown ELSE @,
               !.outbox = IF local THEN @ ELSE Append(@, [op |-> op, state |-> "pending"]),
               !.conflicts[c] = record]
    BY DEF QueueResolution, cleared, local, op, shown
  <2> HIDE DEF record, w
  <2> QED
    BY <1>1, <1>2, <2>1 DEF StoreType
<1>5. s.entity[e].present => row = shown
  BY <1>2
<1>6. c \in DOMAIN cleared.conflicts => record.source = cleared.conflicts[c].source
  <2> SUFFICES ASSUME c \in DOMAIN cleared.conflicts
               PROVE  record.source = cleared.conflicts[c].source
    OBVIOUS
  <2>1. cleared.conflicts[c] \in LocalConflict
    BY <1>2 DEF StoreType, Known
  <2> HIDE DEF local
  <2> QED
    BY <2>1 DEF Decided, LocalConflict
<1> HIDE DEF cleared, shown, row, record, local, w, op
<1>7. /\ s.entity[e].present => w.entity[e] = shown
      /\ \A x \in Entity : x # e => w.entity[x] = s.entity[x]
  BY <1>1, <1>2, <1>4, <1>5 DEF StoreType
<1>8. Sourced(s, w, None)
  BY <1>2, <1>4, <1>6 DEF Sourced
<1>9. /\ local => w.outbox = cleared.outbox
      /\ ~local => w.outbox = Append(cleared.outbox, [op |-> op, state |-> "pending"])
      /\ OthersAsBefore(s, w, e)
      /\ s.entity[e].present =>
           /\ w.entity[e].present
           /\ ~local => w.entity[e].status # "clean"
           /\ w.entity[e].deleted = (choice = "keep_remote" /\ conflict.remoteDeleted)
           /\ w.entity[e].payload = Chosen(conflict, choice, id)
  <2>1. /\ local => w.outbox = cleared.outbox
        /\ ~local => w.outbox = Append(cleared.outbox, [op |-> op, state |-> "pending"])
    BY <1>4
  <2>2. OthersAsBefore(s, w, e)
    BY <1>7 DEF OthersAsBefore
  <2>3. s.entity[e].present => w.entity[e] = shown
    BY <1>7
  <2>4. s.entity[e].present => /\ w.entity[e].present
                               /\ w.entity[e].payload = Chosen(conflict, choice, id)
                               /\ ~local => w.entity[e].status # "clean"
    BY <1>3, <2>3
  <2>5. s.entity[e].present =>
          w.entity[e].deleted = (choice = "keep_remote" /\ conflict.remoteDeleted)
    BY <1>3, <2>3
  <2> QED
    BY <2>1, <2>2, <2>4, <2>5
<1> QED
  BY <1>8, <1>9 DEF cleared, local, w, op

\* A resolution overtakes what it leaves of its entity in the outbox, so that
\* only the resolution itself stands, if the entity is there to show it.
LEMMA ResolutionTidy ==
  ASSUME NEW s, NEW d \in Device, NEW o, NEW id, NEW c, NEW conflict,
         NEW choice \in ResolutionChoices, NEW u,
         u = o \cup Overtaken(s, conflict) \cup Unseen(s, conflict, choice, id),
         StoreType(s, d), Known(c, conflict), Neat(s, o),
         id \in OpId \/ TakesRemoteLocally(conflict, choice),
         \/ TakesRemoteLocally(conflict, choice)
         \/ id \notin o \cup Overtaken(s, conflict) /\ id \notin Queued(s)
  PROVE  Neat(QueueResolution(s, d, id, c, conflict, choice), u)
<1> DEFINE w == QueueResolution(s, d, id, c, conflict, choice)
           local == TakesRemoteLocally(conflict, choice)
           gone == Replaced(s, conflict)
           cleared == DropOps(s, gone)
           op == ResolutionOp(d, id, c, conflict, choice)
           e == conflict.entity
<1>1. e \in Entity /\ conflict.remoteDeleted \in BOOLEAN
  BY DEF Known, LocalConflict
<1>2. StoreType(w, d)
  BY QueueResolutionQueues DEF Leaves, Queues
<1>3. /\ local => w.outbox = cleared.outbox
      /\ ~local => w.outbox = Append(cleared.outbox, [op |-> op, state |-> "pending"])
      /\ OthersAsBefore(s, w, e)
      /\ s.entity[e].present =>
           /\ w.entity[e].present
           /\ ~local => w.entity[e].status # "clean"
           /\ w.entity[e].deleted = (choice = "keep_remote" /\ conflict.remoteDeleted)
           /\ w.entity[e].payload = Chosen(conflict, choice, id)
  BY ResolutionRows
<1>4. ~local => op \in Operation
  BY ResolutionTyped
<1>5. /\ op.entity = e /\ op.id = id
      /\ s.entity[e].present =>
           IF op.type = "delete" THEN w.entity[e].deleted
           ELSE ~w.entity[e].deleted /\ w.entity[e].payload = op.payload
  BY <1>3 DEF ResolutionOp
<1>17. /\ local \/ s.entity[e].present => Unseen(s, conflict, choice, id) = {}
       /\ ~local /\ ~s.entity[e].present => Unseen(s, conflict, choice, id) = {id}
  BY DEF Unseen
<1>18. local \/ (id \notin o \cup Overtaken(s, conflict) /\ id \notin Queued(s))
  OBVIOUS
<1> HIDE DEF op, w, local
<1>6. StoreType(cleared, d) /\ cleared.entity = s.entity
  BY DropOpsLeaves DEF Leaves
<1>7. PICK at : Thins(s, cleared, at, gone)
  BY DropOpsThins
<1>8. /\ \A i \in DOMAIN s.outbox : s.outbox[i].op.id \in gone => i \in Related(s, e)
      /\ \A i \in DOMAIN s.outbox : s.outbox[i].op.id \in Overtaken(s, conflict) => i \in Related(s, e)
  <2>1. ASSUME NEW i \in DOMAIN s.outbox, NEW j \in Related(s, e),
               s.outbox[i].op.id = s.outbox[j].op.id
        PROVE  i \in Related(s, e)
    <3>1. j \in DOMAIN s.outbox
      BY DEF Related
    <3>2. i = j
      BY <2>1, <3>1 DEF StoreType, QueueType
    <3> QED
      BY <3>2
  <2>2. /\ \A x \in gone : \E j \in Related(s, e) : x = s.outbox[j].op.id
        /\ \A x \in Overtaken(s, conflict) : \E j \in Related(s, e) : x = s.outbox[j].op.id
    BY DEF Replaced, Overtaken
  <2> HIDE DEF gone
  <2> QED
    BY <2>1, <2>2
<1>9. \A i \in Related(s, e) : s.outbox[i].op.id \notin gone => s.outbox[i].op.id \in u
  BY DEF Overtaken
<1> HIDE DEF gone, cleared
<1>10. /\ \A k \in DOMAIN cleared.outbox : at[k] \in DOMAIN s.outbox
            /\ cleared.outbox[k] = s.outbox[at[k]] /\ cleared.outbox[k].op.id \notin gone
       /\ \A k, m \in DOMAIN cleared.outbox : k < m <=> at[k] < at[m]
  BY <1>7 DEF Thins
<1>11. \A k \in Related(cleared, e) : /\ k \in DOMAIN cleared.outbox /\ at[k] \in Related(s, e)
                                      /\ cleared.outbox[k].op.id \in u
  BY <1>9, <1>10 DEF Related
<1>12. Standing(cleared, e, u) = {}
  BY <1>11 DEF Standing
<1>13. Ranked(cleared, e, u)
  <2>1. ASSUME NEW i \in Related(cleared, e), NEW j \in Related(cleared, e), i < j,
               cleared.outbox[j].state = "isolated"
        PROVE  cleared.outbox[i].state = "isolated"
    <3>1. at[i] < at[j] /\ s.outbox[at[j]].state = "isolated"
      BY <1>10, <1>11, <2>1
    <3>2. Ranked(s, e, o)
      BY <1>1 DEF Neat, Tidy
    <3>3. s.outbox[at[i]].state = "isolated"
      BY <1>11, <3>1, <3>2 DEF Ranked
    <3> QED
      BY <1>10, <1>11, <3>3
  <2> QED
    BY <1>11, <2>1 DEF Ranked
<1>14. ASSUME NEW x \in Entity, x # e
       PROVE  Tidy(cleared, x, u)
  <2>1. Tidy(s, x, o)
    BY DEF Neat
  <2>2. \A i \in Related(s, x) : /\ i \in DOMAIN s.outbox /\ s.outbox[i].op.id \notin gone
                                 /\ s.outbox[i].op.id \notin Overtaken(s, conflict)
    BY <1>8, <1>14 DEF Related
  <2>6. \A i \in DOMAIN s.outbox : s.outbox[i].op.id \notin Unseen(s, conflict, choice, id)
    BY <1>17, <1>18 DEF Queued
  <2>3. Agree(s, x, o, u)
    BY <2>2, <2>6 DEF Agree
  <2>4. \A i \in Standing(s, x, o) : i \in Related(s, x)
    BY DEF Standing
  <2>5. cleared.outbox = DropOps(s, gone).outbox
    BY DEF cleared
  <2> QED
    BY <1>6, <2>1, <2>2, <2>3, <2>4, <2>5, TidyThinned
<1>15. CASE local
  <2>1. w.outbox = cleared.outbox
    BY <1>3, <1>15
  <2>2. Related(w, e) = Related(cleared, e) /\ Standing(w, e, u) = {}
    BY <1>12, <2>1 DEF Related, Standing
  <2>3. Ranked(w, e, u)
    BY <1>13, <2>1, <2>2 DEF Ranked
  <2>4. Tidy(w, e, u)
    BY <2>2, <2>3 DEF Tidy, Chained, InView, Waits
  <2>5. \A x \in Entity : x # e => Tidy(w, x, u)
    BY <1>3, <1>6, <1>14, <2>1, TidyRests DEF OthersAsBefore
  <2> QED
    BY <2>4, <2>5 DEF Neat, w
<1>16. CASE ~local
  <2>1. op \in Operation /\ w.outbox = Append(cleared.outbox, [op |-> op, state |-> "pending"])
    BY <1>3, <1>4, <1>16
  <2>2. ASSUME s.entity[e].present PROVE Tidy(w, e, u)
    <3>1. Chained(cleared, e, u)
      BY <1>12 DEF Chained
    <3>2. op.id \notin u
      BY <1>5, <1>16, <1>17, <1>18, <2>2
    <3> QED
      BY <1>3, <1>5, <1>6, <1>12, <1>13, <1>16, <2>1, <2>2, <3>1, <3>2, TidyAppended
  <2>3. ASSUME ~s.entity[e].present PROVE Tidy(w, e, u)
    <3>1. op.id \in u
      BY <1>5, <1>16, <1>17, <2>3
    <3>2. cleared.outbox \in Seq(Entry)
      BY <1>6 DEF StoreType, QueueType
    <3> HIDE DEF e
    <3>3. ASSUME NEW i \in Related(w, e)
          PROVE  /\ i \in Nat /\ i <= Len(cleared.outbox) + 1
                 /\ IF i = Len(cleared.outbox) + 1
                      THEN w.outbox[i].state = "pending" /\ w.outbox[i].op.id \in u
                      ELSE i \in Related(cleared, e) /\ w.outbox[i] = cleared.outbox[i]
      BY <2>1, <3>1, <3>2 DEF Related
    <3>4. \A i \in Related(w, e) : w.outbox[i].op.id \in u
      BY <1>11, <3>3
    <3>5. Standing(w, e, u) = {}
      BY <3>4 DEF Standing
    <3>6. Ranked(w, e, u)
      <4>1. ASSUME NEW i \in Related(w, e), NEW j \in Related(w, e), i < j,
                   w.outbox[j].state = "isolated"
            PROVE  w.outbox[i].state = "isolated"
        <5>1. j \in Related(cleared, e) /\ w.outbox[j] = cleared.outbox[j]
          BY <3>3, <4>1
        <5>2. i # Len(cleared.outbox) + 1
          BY <3>2, <3>3, <4>1
        <5>3. i \in Related(cleared, e) /\ w.outbox[i] = cleared.outbox[i]
          BY <3>3, <5>2
        <5> QED
          BY <1>13, <4>1, <5>1, <5>3 DEF Ranked
      <4> QED
        BY <3>4, <4>1 DEF Ranked
    <3> QED
      BY <3>5, <3>6 DEF Tidy, Chained, InView, Waits
  <2>4. Tidy(w, e, u)
    BY <2>2, <2>3
  <2>5. ASSUME NEW x \in Entity, x # e
        PROVE  Tidy(w, x, u)
    <3>1. w.entity[x] = cleared.entity[x]
      BY <1>3, <1>6, <2>5 DEF OthersAsBefore
    <3> QED
      BY <1>2, <1>5, <1>6, <1>14, <2>1, <2>5, <3>1, AppendedElsewhere
  <2> QED
    BY <2>4, <2>5 DEF Neat, w
<1> QED
  BY <1>15, <1>16

-----------------------------------------------------------------------------
(* Where conflicts come from: the operation that met a conflict waits no   *)
(* longer, so that the resolution takes nothing away that is on its way.   *)

\* Operation x was made before, and is not waiting to be sent; N are the
\* operations made so far.
Rests(s, x, N) ==
  x # None =>
    /\ x \in N
    /\ \A i \in DOMAIN s.outbox : s.outbox[i].op.id = x => s.outbox[i].state # "pending"

Rested(s, N) == \A c \in DOMAIN s.conflicts : Rests(s, s.conflicts[c].source, N)

LEMMA RestsOn ==
  ASSUME NEW s, NEW w, NEW gone, NEW x, NEW N, Follows(s, w, gone), Rests(s, x, N)
  PROVE  Rests(w, x, N)
<1> SUFFICES ASSUME x # None, NEW i \in DOMAIN w.outbox, w.outbox[i].op.id = x
             PROVE  w.outbox[i].state # "pending"
  BY DEF Rests
<1>1. PICK j \in DOMAIN s.outbox :
        /\ w.outbox[i].op = s.outbox[j].op
        /\ w.outbox[i].state = "pending" => s.outbox[j].state = "pending"
  BY DEF Follows
<1> QED
  BY <1>1 DEF Rests

LEMMA RestedOn ==
  ASSUME NEW s, NEW w, NEW gone, NEW x, NEW N, Follows(s, w, gone), Rested(s, N),
         Sourced(s, w, x), Rests(w, x, N)
  PROVE  Rested(w, N)
<1>1. ASSUME NEW c \in DOMAIN w.conflicts PROVE Rests(w, w.conflicts[c].source, N)
  <2>1. CASE w.conflicts[c].source \in {x, None}
    BY <2>1 DEF Rests
  <2>2. CASE c \in DOMAIN s.conflicts /\ w.conflicts[c].source = s.conflicts[c].source
    BY <2>2, RestsOn DEF Rested
  <2> QED
    BY <2>1, <2>2 DEF Sourced
<1> QED
  BY <1>1 DEF Rested

\* The same as a new operation is queued.
LEMMA RestsBehind ==
  ASSUME NEW s, NEW w, NEW d, NEW gone, NEW op, NEW x, NEW N, NEW M,
         Queues(s, w, d, gone, op), Rests(s, x, N), op.id \notin N, N \subseteq M
  PROVE  Rests(w, x, M)
<1> SUFFICES ASSUME x # None, NEW i \in DOMAIN w.outbox, w.outbox[i].op.id = x
             PROVE  w.outbox[i].state # "pending"
  BY DEF Rests
<1>1. w.outbox[i].op # op
  BY DEF Rests
<1>2. PICK j \in DOMAIN s.outbox :
        /\ w.outbox[i].op = s.outbox[j].op
        /\ w.outbox[i].state = "pending" => s.outbox[j].state = "pending"
  BY <1>1 DEF Queues
<1> QED
  BY <1>2 DEF Rests

LEMMA RestedBehind ==
  ASSUME NEW s, NEW w, NEW d, NEW gone, NEW op, NEW N, NEW M,
         Queues(s, w, d, gone, op), Rested(s, N), op.id \notin N, N \subseteq M,
         Sourced(s, w, None)
  PROVE  Rested(w, M)
<1>1. ASSUME NEW c \in DOMAIN w.conflicts PROVE Rests(w, w.conflicts[c].source, M)
  <2>1. CASE w.conflicts[c].source = None
    BY <2>1 DEF Rests
  <2>2. CASE c \in DOMAIN s.conflicts /\ w.conflicts[c].source = s.conflicts[c].source
    BY <2>2, RestsBehind DEF Rested
  <2> QED
    BY <2>1, <2>2 DEF Sourced
<1> QED
  BY <1>1 DEF Rested

\* What has stopped rests.
LEMMA StoppedRests ==
  ASSUME NEW s, NEW w, NEW ids, NEW state, NEW N, Stopped(s, w, ids, state),
         state # "pending", NEW x \in ids \cup {None}, ids \subseteq N
  PROVE  Rests(w, x, N)
BY DEF Stopped, Rests

-----------------------------------------------------------------------------
(* The answers to a batch.                                                 *)

\* Operation op waits to be sent.
Waiting(s, op) ==
  \E i \in DOMAIN s.outbox : s.outbox[i].op = op /\ s.outbox[i].state = "pending"

\* The operations of a batch are different and wait to be sent, and what they
\* depend on is in the batch as long as it is queued.
Fits(s, ops) ==
  /\ \A k, m \in DOMAIN ops : ops[k].id = ops[m].id => k = m
  /\ \A k \in DOMAIN ops :
       /\ Waiting(s, ops[k])
       /\ \A dep \in ops[k].deps : dep \in Queued(s) => \E m \in DOMAIN ops : ops[m].id = dep

\* A success depends on earlier successes, as far as the batch goes.
Told(ops, results, n) ==
  \A k \in 1..n : Succeeded(results[k]) =>
    \A dep \in ops[k].deps, j \in DOMAIN ops :
      ops[j].id = dep => j < k /\ Succeeded(results[j])

\* Where a store stands after the first k answers.
Taken(s, r, d, ops, results, o, N, k) ==
  /\ StoreType(r, d) /\ Neat(r, o) /\ Rested(r, N)
  /\ Queued(r) \subseteq Queued(s)
  /\ \A j \in DOMAIN ops : j > k => Waiting(r, ops[j])
  /\ \A j \in 1..k : Succeeded(results[j]) => ops[j].id \notin Queued(r)

\* An operation that succeeded is the first of those that stand.
LEMMA SuccessIsFirst ==
  ASSUME NEW s, NEW r, NEW d, NEW ops \in Seq(Operation), NEW results, NEW o, NEW N,
         NEW m \in Nat, m + 1 \in DOMAIN ops, Fits(s, ops), Told(ops, results, Len(ops)),
         Taken(s, r, d, ops, results, o, N, m), Succeeded(results[m + 1]),
         NEW p \in Standing(r, ops[m + 1].entity, o), r.outbox[p].op = ops[m + 1]
  PROVE  \A i \in Standing(r, ops[m + 1].entity, o) : p <= i
<1> DEFINE op == ops[m + 1]
           e == op.entity
<1>1. StoreType(r, d) /\ Neat(r, o) /\ Queued(r) \subseteq Queued(s)
      /\ \A j \in 1..m : Succeeded(results[j]) => ops[j].id \notin Queued(r)
  BY DEF Taken
<1>2. op \in Operation /\ e \in Entity
  <2>1. op \in Operation
    OBVIOUS
  <2> QED
    BY <2>1 DEF Operation
<1>3. Standing(r, e, o) \subseteq DOMAIN r.outbox /\ DOMAIN r.outbox \subseteq Nat
  BY <1>1, RowsAreNumbers DEF Standing, Related
<1> SUFFICES ASSUME NEW i \in Standing(r, e, o), i < p PROVE FALSE
  BY <1>3
<1>4. Chained(r, e, o)
  BY <1>1, <1>2 DEF Neat, Tidy
<1>5. PICK k \in Standing(r, e, o) : r.outbox[k].op.id \in r.outbox[p].op.deps
  BY <1>4 DEF Chained
<1>6. PICK dep : dep = r.outbox[k].op.id
  OBVIOUS
<1>7. dep \in op.deps /\ dep \in Queued(r)
  BY <1>3, <1>5, <1>6 DEF Queued
<1>8. PICK j \in DOMAIN ops : ops[j].id = dep
  BY <1>1, <1>7 DEF Fits
<1>9. m + 1 \in 1..Len(ops) /\ j \in Nat
  OBVIOUS
<1>10. j < m + 1 /\ Succeeded(results[j])
  BY <1>7, <1>8, <1>9 DEF Told
<1>11. j \in 1..m
  BY <1>8, <1>9, <1>10
<1> QED
  BY <1>1, <1>7, <1>8, <1>10, <1>11

\* What stops one operation leaves the others waiting.
LEMMA StoppedWaiting ==
  ASSUME NEW s, NEW w, NEW id, NEW state, Stopped(s, w, {id}, state)
  PROVE  /\ Queued(w) = Queued(s)
         /\ \A op : op.id # id /\ Waiting(s, op) => Waiting(w, op)
<1>1. Queued(w) = Queued(s)
  BY DEF Stopped, Queued
<1>2. ASSUME NEW op, op.id # id, Waiting(s, op)
      PROVE  Waiting(w, op)
  <2>1. PICK i \in DOMAIN s.outbox : s.outbox[i].op = op /\ s.outbox[i].state = "pending"
    BY <1>2 DEF Waiting
  <2>2. i \in DOMAIN w.outbox /\ w.outbox[i].op = op /\ w.outbox[i].state = "pending"
    BY <1>2, <2>1 DEF Stopped
  <2> QED
    BY <2>2 DEF Waiting
<1> QED
  BY <1>1, <1>2

\* An acknowledged operation leaves, and the others stay.
LEMMA AcknowledgeWaiting ==
  ASSUME NEW s, NEW d, NEW op \in Operation, NEW result,
         StoreType(s, d), result.version \in Nat
  PROVE  LET w == Acknowledge(s, op, result)
         IN /\ op.id \notin Queued(w) /\ Queued(w) \subseteq Queued(s)
            /\ \A x : x.id # op.id /\ Waiting(s, x) => Waiting(w, x)
<1> DEFINE w == Acknowledge(s, op, result)
           rest == DropOps(s, {op.id})
<1>1. w.outbox = rest.outbox
  BY AcknowledgeRows
<1>2. PICK at : Thins(s, rest, at, {op.id})
  BY DropOpsThins
<1> HIDE DEF w, rest
<1>3. op.id \notin Queued(w) /\ Queued(w) \subseteq Queued(s)
  BY <1>1, <1>2 DEF Thins, Queued
<1>4. ASSUME NEW x, x.id # op.id, Waiting(s, x)
      PROVE  Waiting(w, x)
  <2>1. PICK i \in DOMAIN s.outbox : s.outbox[i].op = x /\ s.outbox[i].state = "pending"
    BY <1>4 DEF Waiting
  <2>2. PICK k \in DOMAIN rest.outbox : at[k] = i
    BY <1>2, <1>4, <2>1 DEF Thins
  <2>3. rest.outbox[k] = s.outbox[i]
    BY <1>2, <2>2 DEF Thins
  <2> QED
    BY <1>1, <2>1, <2>2, <2>3 DEF Waiting
<1> QED
  BY <1>3, <1>4 DEF w

\* One more answer.
LEMMA TakesAnswer ==
  ASSUME NEW s, NEW r, NEW d, NEW ops \in Seq(Operation), NEW results, NEW o, NEW N,
         NEW m \in Nat, m + 1 \in DOMAIN ops, AnswersTo(results, ops),
         Fits(s, ops), Told(ops, results, Len(ops)), Queued(s) \subseteq N,
         Taken(s, r, d, ops, results, o, N, m)
  PROVE  Taken(s, ApplyResult(r, ops[m + 1], results[m + 1]), d, ops, results, o, N, m + 1)
<1>1. PICK k : k = m + 1
  OBVIOUS
<1>2. PICK op : op = ops[k]
  OBVIOUS
<1>3. PICK result : result = results[k]
  OBVIOUS
<1>4. PICK w : w = ApplyResult(r, op, result)
  OBVIOUS
<1>5. /\ k \in Nat /\ m < k /\ k \in DOMAIN ops /\ DOMAIN ops \subseteq Nat
      /\ op \in Operation /\ op.entity \in Entity
  <2>1. op \in Operation
    BY <1>1, <1>2
  <2>2. op.entity \in Entity
    BY <2>1 DEF Operation
  <2> QED
    BY <1>1, <2>1, <2>2
<1>6. /\ result \in AnswerType /\ result.version \in Nat
      /\ result.status = "conflict" => result.conflict \in ShownConflict
  <2>1. k \in DOMAIN results
    BY <1>1 DEF AnswersTo
  <2>2. result \in AnswerType
    BY <1>3, <2>1 DEF AnswersTo
  <2>3. result.status = "conflict" => result.conflict \in ShownConflict
    BY <1>3, <1>5 DEF AnswersTo
  <2> QED
    BY <2>2, <2>3 DEF AnswerType
<1>7. /\ StoreType(r, d) /\ Neat(r, o) /\ Rested(r, N) /\ Queued(r) \subseteq Queued(s)
      /\ \A j \in DOMAIN ops : j > m => Waiting(r, ops[j])
      /\ \A j \in 1..m : Succeeded(results[j]) => ops[j].id \notin Queued(r)
  BY DEF Taken
<1>8. PICK p \in DOMAIN r.outbox : r.outbox[p].op = op /\ r.outbox[p].state = "pending"
  BY <1>2, <1>5, <1>7 DEF Waiting
<1>9. op.id \in N
  BY <1>7, <1>8 DEF Queued
<1>10. \A j \in DOMAIN ops : j # k => ops[j].id # op.id
  BY <1>2, <1>5 DEF Fits
<1>11. PICK gone : Leaves(r, w, d, gone)
  BY <1>4, <1>5, <1>6, <1>7, ApplyResultLeaves
<1>12. StoreType(w, d) /\ Follows(r, w, gone)
  BY <1>11 DEF Leaves
<1>13. /\ Neat(w, o) /\ Rested(w, N) /\ Queued(w) \subseteq Queued(r)
       /\ Succeeded(result) => op.id \notin Queued(w)
       /\ \A x : x.id # op.id /\ Waiting(r, x) => Waiting(w, x)
  <2>1. CASE Succeeded(result)
    <3>1. w = Acknowledge(r, op, result)
      BY <1>4, <2>1 DEF ApplyResult
    <3>2. p \in Standing(r, op.entity, o) => \A i \in Standing(r, op.entity, o) : p <= i
      BY <1>1, <1>2, <1>3, <1>5, <1>8, <2>1, SuccessIsFirst
    <3>3. Neat(w, o)
      BY <1>5, <1>6, <1>7, <1>8, <3>1, <3>2, AcknowledgeTidy
    <3>4. Sourced(r, w, None) /\ Rests(w, None, N)
      BY <1>5, <1>6, <1>7, <3>1, AcknowledgeRows DEF Rests
    <3>5. Rested(w, N)
      BY <1>7, <1>12, <3>4, RestedOn
    <3> QED
      BY <1>5, <1>6, <1>7, <3>1, <3>3, <3>5, AcknowledgeWaiting
  <2>2. CASE ~Succeeded(result) /\ result.status = "conflict"
    <3>1. w = MeetConflict(r, op, result)
      BY <1>4, <2>2 DEF ApplyResult
    <3>2. Neat(w, o)
      BY <1>5, <1>6, <1>7, <1>8, <2>2, <3>1, MeetConflictTidy
    <3>3. Stopped(r, w, {op.id}, "conflict") /\ Sourced(r, w, op.id)
      BY <1>5, <1>6, <1>7, <2>2, <3>1, MeetConflictRows
    <3>4. Rests(w, op.id, N)
      BY <1>9, <3>3, StoppedRests
    <3>5. Rested(w, N)
      BY <1>7, <1>12, <3>3, <3>4, RestedOn
    <3> QED
      BY <2>2, <3>2, <3>3, <3>5, StoppedWaiting
  <2>3. CASE ~Succeeded(result) /\ result.status # "conflict"
    <3>1. w = Refuse(r, op)
      BY <1>4, <2>3 DEF ApplyResult
    <3>2. Neat(w, o)
      BY <1>5, <1>7, <1>8, <3>1, RefuseTidy
    <3>3. Stopped(r, w, {op.id}, "blocked") /\ w.conflicts = r.conflicts
      BY <1>5, <1>7, <3>1, RefuseRows
    <3>4. Sourced(r, w, None) /\ Rests(w, None, N)
      BY <3>3 DEF Sourced, Rests
    <3>5. Rested(w, N)
      BY <1>7, <1>12, <3>4, RestedOn
    <3> QED
      BY <2>3, <3>2, <3>3, <3>5, StoppedWaiting
  <2> QED
    BY <2>1, <2>2, <2>3
<1>14. ASSUME NEW j \in DOMAIN ops, j > k
       PROVE  Waiting(w, ops[j])
  <2>1. j > m /\ j # k
    BY <1>1, <1>5, <1>14
  <2> QED
    BY <1>7, <1>10, <1>13, <2>1
<1>15. ASSUME NEW j \in 1..k, Succeeded(results[j])
       PROVE  ops[j].id \notin Queued(w)
  <2>1. CASE j = k
    BY <1>2, <1>3, <1>13, <1>15, <2>1
  <2>2. CASE j # k
    <3>1. j \in 1..m
      BY <1>1, <2>2
    <3> QED
      BY <1>7, <1>13, <1>15, <3>1
  <2> QED
    BY <2>1, <2>2
<1>16. Taken(s, w, d, ops, results, o, N, k)
  BY <1>7, <1>12, <1>13, <1>14, <1>15 DEF Taken
<1> QED
  BY <1>1, <1>2, <1>3, <1>4, <1>16

\* A store that only changes its cursor or its state stays tidy and at rest.
LEMMA RowsRest ==
  ASSUME NEW s, NEW w, NEW o, NEW N, Neat(s, o), Rested(s, N),
         w.outbox = s.outbox, w.entity = s.entity, w.conflicts = s.conflicts
  PROVE  Neat(w, o) /\ Rested(w, N)
<1>1. ASSUME NEW e \in Entity PROVE Tidy(w, e, o)
  <2>1. Tidy(s, e, o)
    BY DEF Neat
  <2> QED
    BY <2>1, TidyRests
<1>2. Rested(w, N)
  BY DEF Rested, Rests
<1> QED
  BY <1>1, <1>2 DEF Neat

\* The transaction that takes the answers to a batch.
LEMMA ApplyPushTidy ==
  ASSUME NEW s, NEW d, NEW ops \in Seq(Operation), NEW results, NEW o, NEW N,
         StoreType(s, d), Neat(s, o), Rested(s, N), Queued(s) \subseteq N,
         AnswersTo(results, ops), Fits(s, ops), Told(ops, results, Len(ops))
  PROVE  Neat(ApplyPush(s, ops, results), o) /\ Rested(ApplyPush(s, ops, results), N)
<1> DEFINE n == Len(ops)
<1>1. n \in Nat /\ DOMAIN ops = 1..n
  OBVIOUS
<1>2. PICK after : /\ after[0] = s
                   /\ \A k \in 1..n : after[k] = ApplyResult(after[k - 1], ops[k], results[k])
                   /\ ApplyPush(s, ops, results) = [after[n] EXCEPT !.state = "ready"]
  BY <1>1, ApplyPushSteps
<1> DEFINE Q == {k \in 0..n : Taken(s, after[k], d, ops, results, o, N, k)}
<1> HIDE DEF n
<1>3. 0 \in Q
  <2>1. after[0] = s /\ 0 \in 0..n /\ 1..0 = {}
    BY <1>1, <1>2
  <2>2. Taken(s, s, d, ops, results, o, N, 0)
    BY <2>1 DEF Taken, Fits
  <2> QED
    BY <2>1, <2>2
<1>4. ASSUME NEW m \in 0..n, m # n, m \in Q
      PROVE  m + 1 \in Q
  <2>1. m \in Nat /\ m + 1 \in 1..n /\ (m + 1) - 1 = m /\ m + 1 \in 0..n
    <3> HIDE DEF Q
    <3> QED
      BY <1>1, <1>4
  <2>2. Taken(s, after[m], d, ops, results, o, N, m)
    BY <1>4
  <2>3. after[m + 1] = ApplyResult(after[m], ops[m + 1], results[m + 1])
    BY <1>2, <2>1
  <2>4. Taken(s, after[m + 1], d, ops, results, o, N, m + 1)
    BY <1>1, <2>1, <2>2, <2>3, TakesAnswer
  <2> QED
    BY <2>1, <2>4
<1>5. n \in Q
  <2> HIDE DEF Q
  <2>1. \A m \in 0..n : m \in Q
    BY <1>1, <1>3, <1>4, CountingUp
  <2> QED
    BY <1>1, <2>1
<1> DEFINE w == after[n]
           ready == [w EXCEPT !.state = "ready"]
<1>6. StoreType(w, d) /\ Neat(w, o) /\ Rested(w, N)
  BY <1>5 DEF Taken
<1> HIDE DEF w
<1>7. ready.outbox = w.outbox /\ ready.entity = w.entity /\ ready.conflicts = w.conflicts
  BY <1>6 DEF StoreType
<1> HIDE DEF ready
<1>8. Neat(ready, o) /\ Rested(ready, N)
  BY <1>6, <1>7, RowsRest
<1> QED
  BY <1>2, <1>8 DEF ready, w

-----------------------------------------------------------------------------
(* A pulled page, a bootstrap.                                             *)

\* One change.
LEMMA ApplyChangeRested ==
  ASSUME NEW s, NEW d, NEW change \in ToldChange, NEW N, StoreType(s, d), Rested(s, N),
         Queued(s) \subseteq N
  PROVE  Rested(ApplyChange(s, change), N)
<1>1. PICK w : w = ApplyChange(s, change)
  OBVIOUS
<1>2. PICK e : e = change.entity
  OBVIOUS
<1>3. Follows(s, w, {})
  BY <1>1, ApplyChangeLeaves DEF Leaves
<1>4. CASE s.entity[e].status = "conflict"
  <2>1. w = FollowRemote(s, change)
    BY <1>1, <1>2, <1>4 DEF ApplyChange
  <2>2. Sourced(s, w, None) /\ Rests(w, None, N)
    BY <2>1, FollowRemoteRows DEF Rests
  <2> QED
    BY <1>1, <1>3, <2>2, RestedOn
<1>5. CASE s.entity[e].status = "pending"
  <2>1. w = StopPending(s, change)
    BY <1>1, <1>2, <1>5 DEF ApplyChange
  <2>2. PICK ids : ids = {s.outbox[i].op.id : i \in Related(s, e)}
    OBVIOUS
  <2>3. Stopped(s, w, ids, "conflict") /\ \E x \in ids \cup {None} : Sourced(s, w, x)
    BY <1>2, <2>1, <2>2, StopPendingRows
  <2>4. PICK x \in ids \cup {None} : Sourced(s, w, x)
    BY <2>3
  <2>5. ids \subseteq N
    BY <2>2 DEF Related, Queued
  <2>6. Rests(w, x, N)
    BY <2>3, <2>5, StoppedRests
  <2> QED
    BY <1>1, <1>3, <2>4, <2>6, RestedOn
<1>6. CASE s.entity[e].status \notin {"conflict", "pending"}
  <2>1. w.conflicts = s.conflicts
    BY <1>1, <1>2, <1>6 DEF ApplyChange, StoreType
  <2>2. Sourced(s, w, None) /\ Rests(w, None, N)
    BY <2>1 DEF Sourced, Rests
  <2> QED
    BY <1>1, <1>3, <2>2, RestedOn
<1> QED
  BY <1>4, <1>5, <1>6

\* The transaction that takes a page.
LEMMA ApplyPullTidy ==
  ASSUME NEW s, NEW d, NEW page, NEW o, NEW N, page.changes \in Seq(ToldChange),
         StoreType(s, d), Neat(s, o), Rested(s, N), Queued(s) \subseteq N
  PROVE  Neat(ApplyPull(s, page), o) /\ Rested(ApplyPull(s, page), N)
<1> DEFINE n == Len(page.changes)
<1>1. n \in Nat /\ \A k \in 1..n : page.changes[k] \in ToldChange
  OBVIOUS
<1>2. PICK after : /\ after[0] = s
                   /\ \A k \in 1..n : after[k] = ApplyChange(after[k - 1], page.changes[k])
                   /\ ApplyPull(s, page) = Advanced(after[n], page)
  BY <1>1, ApplyPullSteps
<1> DEFINE Fine(r) == /\ StoreType(r, d) /\ Neat(r, o) /\ Rested(r, N)
                      /\ Queued(r) \subseteq N
           Q == {k \in 0..n : Fine(after[k])}
<1> HIDE DEF n
<1>3. 0 \in Q
  BY <1>1, <1>2
<1>4. ASSUME NEW m \in 0..n, m # n, m \in Q
      PROVE  m + 1 \in Q
  <2>1. m \in Nat /\ m + 1 \in 1..n /\ (m + 1) - 1 = m /\ m + 1 \in 0..n
    <3> HIDE DEF Q
    <3> QED
      BY <1>1, <1>4
  <2>2. PICK r : r = after[m]
    OBVIOUS
  <2>3. PICK change \in ToldChange : change = page.changes[m + 1]
    BY <1>1, <2>1
  <2>4. PICK w : w = ApplyChange(r, change)
    OBVIOUS
  <2>5. after[m + 1] = w
    BY <1>2, <2>1, <2>2, <2>3, <2>4
  <2>6. Fine(r)
    BY <1>4, <2>2
  <2>7. StoreType(w, d) /\ Follows(r, w, {})
    BY <2>4, <2>6, ApplyChangeLeaves DEF Leaves
  <2>8. Neat(w, o) /\ Rested(w, N)
    BY <2>4, <2>6, ApplyChangeTidy, ApplyChangeRested
  <2>9. Queued(w) \subseteq N
    BY <2>6, <2>7 DEF Follows, Queued
  <2> QED
    BY <2>1, <2>5, <2>7, <2>8, <2>9
<1>5. n \in Q
  <2> HIDE DEF Q
  <2>1. \A m \in 0..n : m \in Q
    BY <1>1, <1>3, <1>4, CountingUp
  <2> QED
    BY <1>1, <2>1
<1> DEFINE w == after[n]
           ready == Advanced(w, page)
<1>6. StoreType(w, d) /\ Neat(w, o) /\ Rested(w, N)
  BY <1>5
<1> HIDE DEF w
<1>7. ready.outbox = w.outbox /\ ready.entity = w.entity /\ ready.conflicts = w.conflicts
  BY <1>6 DEF StoreType, Advanced
<1> HIDE DEF ready
<1>8. Neat(ready, o) /\ Rested(ready, N)
  BY <1>6, <1>7, RowsRest
<1> QED
  BY <1>2, <1>8 DEF ready, w

-----------------------------------------------------------------------------
(* The batch and what the server says to it.                               *)

\* A batch fits the store it is taken from.
LEMMA ReadyFits ==
  ASSUME NEW s, NEW d, StoreType(s, d), Lined(s)
  PROVE  Fits(s, Ready(s))
<1> DEFINE pending == {i \in DOMAIN s.outbox : s.outbox[i].state = "pending"}
           complete(I) == \A i \in I : \A j \in 1..(i - 1) :
                            s.outbox[j].op.id \in s.outbox[i].op.deps => j \in I
           I == FirstOf(UNION {J \in SUBSET pending : complete(J)}, PushLimit)
           ready == Those(Ops(s), I)
<1>1. s.outbox \in Seq(Entry)
  BY DEF StoreType, QueueType
<1>2. /\ Ops(s) \in Seq(Operation) /\ DOMAIN Ops(s) = DOMAIN s.outbox
      /\ \A i \in DOMAIN s.outbox : Ops(s)[i] = s.outbox[i].op
  <2>1. \A i \in DOMAIN s.outbox : s.outbox[i] \in Entry
    BY <1>1
  <2>2. \A i \in DOMAIN s.outbox : s.outbox[i].op \in Operation
    BY <2>1 DEF Entry
  <2>3. Ops(s) \in [1..Len(s.outbox) -> Operation] /\ Len(s.outbox) \in Nat
    BY <1>1, <2>2 DEF Ops
  <2> QED
    BY <1>1, <2>3 DEF Ops
<1>3. I \in SUBSET (DOMAIN Ops(s))
  BY <1>2 DEF FirstOf
<1>4. Ready(s) = ready
  BY DEF Ready
<1> HIDE DEF I, ready
<1>5. PICK at : Lists(ready, Ops(s), I, at)
  BY <1>2, <1>3, ThoseListed DEF ready
<1>6. /\ \A k \in DOMAIN ready : at[k] \in DOMAIN s.outbox /\ ready[k] = s.outbox[at[k]].op
      /\ \A k, m \in DOMAIN ready : k < m => at[k] < at[m]
  BY <1>2, <1>3, <1>5 DEF Lists
<1>7. Ready(s) \in Seq(Operation)
      /\ \A k \in DOMAIN Ready(s) : \E i \in DOMAIN s.outbox :
           Ready(s)[k] = s.outbox[i].op /\ s.outbox[i].state = "pending"
  BY ReadyIsQueued
<1>8. DOMAIN ready \subseteq Nat /\ DOMAIN s.outbox \subseteq Nat
  BY <1>1, <1>4, <1>7
<1>9. ASSUME NEW k \in DOMAIN ready, NEW m \in DOMAIN ready, ready[k].id = ready[m].id
      PROVE  k = m
  <2>1. at[k] = at[m]
    BY <1>6, <1>9 DEF StoreType, QueueType
  <2>2. at[k] \in Nat /\ at[m] \in Nat /\ k \in Nat /\ m \in Nat
    BY <1>6, <1>8
  <2> QED
    BY <1>6, <2>1, <2>2
<1>10. ASSUME NEW k \in DOMAIN Ready(s)
       PROVE  /\ Waiting(s, Ready(s)[k])
              /\ \A dep \in Ready(s)[k].deps :
                   dep \in Queued(s) => \E m \in DOMAIN Ready(s) : Ready(s)[m].id = dep
  BY <1>7, ReadyIsClosed DEF Waiting
<1> QED
  BY <1>4, <1>9, <1>10 DEF Fits

\* The answers of a push so far, each for its operation.
Tells(ops, results, k) ==
  /\ results \in Seq(AnswerType) /\ Len(results) = k
  /\ \A j \in 1..k : results[j].op = ops[j].id
  /\ Told(ops, results, k)

\* The server answers an operation with success only behind those of the batch
\* it depends on.
LEMMA PushOpTells ==
  ASSUME NEW ops \in Seq(Operation), NEW m \in Nat, m + 1 \in 1..Len(ops), NEW done,
         DbInv(done.db), Tells(ops, done.results, m),
         \A k, j \in DOMAIN ops : ops[k].id = ops[j].id => k = j
  PROVE  Tells(ops, PushOp(done, ops, m + 1).results, m + 1)
<1> DEFINE k == m + 1
           op == ops[k]
           known == {ops[i].id : i \in DOMAIN ops}
           applied == {done.results[j].op : j \in {i \in DOMAIN done.results :
                                                      Succeeded(done.results[i])}}
           blocked == [db |-> done.db,
                       result |-> Result(op, "blocked_dependency", 0, 0, None)]
           free == (op.deps \cap known) \subseteq applied
           reply == IF free THEN ApplyOne(done.db, op) ELSE blocked
           old == done.results
           new == reply.result
           next == PushOp(done, ops, k).results
<1>1. op \in Operation /\ k \in Nat /\ DOMAIN ops = 1..Len(ops) /\ k \in DOMAIN ops
  OBVIOUS
<1>2. next = Append(old, new)
  BY DEF PushOp
<1>3. old \in Seq(AnswerType) /\ Len(old) = m /\ \A j \in 1..m : old[j].op = ops[j].id
      /\ Told(ops, old, m)
  BY DEF Tells
<1>4. /\ new.op = op.id /\ new \in AnswerType
      /\ Succeeded(new) => free
  <2>1. Keeps(done.db, op.id, ApplyOne(done.db, op))
    BY <1>1, ApplyOneKeeps
  <2>2. /\ blocked.result.op = op.id /\ blocked.result.status = "blocked_dependency"
        /\ blocked.result \in AnswerType
    BY <1>1 DEF Result, AnswerType, Operation
  <2>3. ~Succeeded(blocked.result)
    BY <2>2 DEF Succeeded
  <2> HIDE DEF blocked, op
  <2>4. CASE free
    <3>1. reply = ApplyOne(done.db, op)
      BY <2>4
    <3> HIDE DEF reply, free
    <3> QED
      BY <2>1, <2>4, <3>1 DEF Keeps, Answered
  <2>5. CASE ~free
    <3>1. reply = blocked
      BY <2>5
    <3> HIDE DEF reply, free
    <3> QED
      BY <2>2, <2>3, <2>5, <3>1
  <2> QED
    BY <2>4, <2>5
<1>5. ASSUME Succeeded(new), NEW dep \in op.deps, NEW j \in DOMAIN ops, ops[j].id = dep
      PROVE  j \in 1..m /\ Succeeded(old[j])
  <2>1. dep \in applied
    <3>1. dep \in known
      BY <1>5
    <3> QED
      BY <1>4, <1>5, <3>1
  <2>2. PICK i \in DOMAIN old : Succeeded(old[i]) /\ old[i].op = dep
    BY <2>1
  <2>3. i \in 1..m
    BY <1>3, <2>2
  <2>4. i \in DOMAIN ops /\ ops[i].id = dep
    BY <1>1, <1>3, <2>2, <2>3
  <2>5. i = j
    BY <1>5, <2>4
  <2> QED
    BY <2>2, <2>3, <2>5
<1>6. /\ \A i : i \in 1..k <=> i \in 1..m \/ i = k
      /\ ~(k \in 1..m)
  OBVIOUS
<1> HIDE DEF old, new, next, op, free
<1>7. /\ next \in Seq(AnswerType) /\ Len(next) = k
      /\ \A j \in 1..m : next[j] = old[j]
      /\ next[k] = new
  BY <1>2, <1>3, <1>4
<1>8. \A j \in 1..k : next[j].op = ops[j].id
  BY <1>3, <1>4, <1>6, <1>7 DEF op
<1>9. ASSUME NEW i \in 1..k, Succeeded(next[i]), NEW dep \in ops[i].deps, NEW j \in DOMAIN ops,
             ops[j].id = dep
      PROVE  j < i /\ Succeeded(next[j])
  <2>1. CASE i = k
    <3>1. j \in 1..m /\ Succeeded(old[j])
      BY <1>5, <1>7, <1>9, <2>1 DEF op
    <3> QED
      BY <1>7, <2>1, <3>1
  <2>2. CASE i \in 1..m
    <3>1. j < i /\ Succeeded(old[j])
      BY <1>3, <1>7, <1>9, <2>2 DEF Told
    <3>2. j \in 1..m
      BY <1>1, <2>2, <3>1
    <3> QED
      BY <1>7, <3>1, <3>2
  <2> QED
    BY <1>6, <2>1, <2>2
<1>10. Tells(ops, next, k)
  <2> HIDE DEF k
  <2>1. Told(ops, next, k)
    BY <1>9 DEF Told
  <2> QED
    BY <1>7, <1>8, <2>1 DEF Tells
<1> QED
  BY <1>10 DEF next, k

\* So does a push.
LEMMA PushTells ==
  ASSUME NEW d, NEW ops \in Seq(Operation), DbInv(d),
         \A k, j \in DOMAIN ops : ops[k].id = ops[j].id => k = j
  PROVE  Told(ops, Push(d, ops).results, Len(ops))
<1> DEFINE n == Len(ops)
<1>1. n \in Nat
  OBVIOUS
<1>2. PICK done : /\ done[0] = [db |-> d, results |-> <<>>]
                  /\ \A k \in 1..n : done[k] = PushOp(done[k - 1], ops, k)
                  /\ Push(d, ops) = done[n]
  BY <1>1, PushSteps
<1> DEFINE Q == {k \in 0..n : Pushed(d, ops, k, done[k]) /\ Tells(ops, done[k].results, k)}
<1>3. 0 \in Q
  <2> DEFINE start == [db |-> d, results |-> <<>>]
  <2>1. start.db = d /\ start.results = <<>>
    OBVIOUS
  <2>2. Extends(d, d) /\ ToldIn(d.changes, d.changes, d.epoch)
        /\ \A i \in DOMAIN d.changes : ~(i > Len(d.changes))
    BY <1>1, ExtendsReflexive DEF ToldIn, DbInv, DbType
  <2>3. <<>> \in Seq(AnswerType) /\ Len(<<>>) = 0 /\ 1..0 = {}
    OBVIOUS
  <2> HIDE DEF start
  <2>4. Pushed(d, ops, 0, start)
    BY <1>1, <2>1, <2>2, <2>3 DEF Pushed
  <2>5. Tells(ops, start.results, 0)
    BY <2>1, <2>3 DEF Tells, Told
  <2>6. done[0] = start /\ 0 \in 0..n
    BY <1>1, <1>2 DEF start
  <2> QED
    BY <2>4, <2>5, <2>6
<1>4. ASSUME NEW m \in 0..n, m # n, m \in Q
      PROVE  m + 1 \in Q
  <2>1. m \in Nat /\ m + 1 \in 1..n /\ (m + 1) - 1 = m /\ m + 1 \in 0..n
    <3> HIDE DEF Q
    <3> QED
      BY <1>1, <1>4
  <2>2. Pushed(d, ops, m, done[m]) /\ Tells(ops, done[m].results, m)
    BY <1>4
  <2>3. done[m + 1] = PushOp(done[m], ops, m + 1) /\ DbInv(done[m].db)
    BY <1>2, <2>1, <2>2 DEF Pushed
  <2>4. Pushed(d, ops, m + 1, done[m + 1])
    BY <1>1, <2>1, <2>2, <2>3, PushOpKeeps
  <2>5. Tells(ops, done[m + 1].results, m + 1)
    BY <1>1, <2>1, <2>2, <2>3, PushOpTells
  <2> QED
    BY <2>1, <2>4, <2>5
<1>5. n \in Q
  <2> HIDE DEF Q
  <2>1. \A m \in 0..n : m \in Q
    BY <1>1, <1>3, <1>4, CountingUp
  <2> QED
    BY <1>1, <2>1
<1> QED
  BY <1>2, <1>5 DEF Tells

-----------------------------------------------------------------------------
(* A batch on its way while the user goes on.                              *)

\* Between s and w nothing that waits is taken out of the queue, and what is
\* new to the queue is not of N.
Retains(s, w, N) ==
  /\ \A op : Waiting(s, op) => Waiting(w, op)
  /\ \A id \in Queued(w) : id \in Queued(s) \/ id \notin N

LEMMA FitsOn ==
  ASSUME NEW s, NEW w, NEW N, NEW ops, Fits(s, ops), Retains(s, w, N),
         \A k \in DOMAIN ops : ops[k].deps \subseteq N
  PROVE  Fits(w, ops)
<1>1. ASSUME NEW k \in DOMAIN ops
      PROVE  /\ Waiting(w, ops[k])
             /\ \A dep \in ops[k].deps : dep \in Queued(w) => \E m \in DOMAIN ops : ops[m].id = dep
  <2>1. Waiting(w, ops[k])
    BY DEF Fits, Retains
  <2>2. ASSUME NEW dep \in ops[k].deps, dep \in Queued(w)
        PROVE  \E m \in DOMAIN ops : ops[m].id = dep
    <3>1. dep \in Queued(s)
      BY <2>2 DEF Retains
    <3> QED
      BY <3>1 DEF Fits
  <2> QED
    BY <2>1, <2>2
<1> QED
  BY <1>1 DEF Fits

LEMMA RetainsQueue ==
  ASSUME NEW s, NEW w, NEW N, w.outbox = s.outbox
  PROVE  Retains(s, w, N)
BY DEF Retains, Waiting, Queued

LEMMA AppendRetains ==
  ASSUME NEW s, NEW w, NEW op \in Operation, NEW N, s.outbox \in Seq(Entry),
         w.outbox = Append(s.outbox, [op |-> op, state |-> "pending"]), op.id \notin N
  PROVE  Retains(s, w, N)
<1> DEFINE entry == [op |-> op, state |-> "pending"]
<1>1. entry \in Entry /\ entry.op = op
  BY DEF Entry, OutboxState
<1>2. w.outbox = Append(s.outbox, entry)
  OBVIOUS
<1> HIDE DEF entry
<1>3. /\ \A i \in DOMAIN s.outbox : i \in DOMAIN w.outbox /\ w.outbox[i] = s.outbox[i]
      /\ \A i \in DOMAIN w.outbox : i \in DOMAIN s.outbox \/ w.outbox[i] = entry
  BY <1>1, <1>2
<1>4. \A x : Waiting(s, x) => Waiting(w, x)
  BY <1>3 DEF Waiting
<1>5. ASSUME NEW id \in Queued(w) PROVE id \in Queued(s) \/ id \notin N
  <2>1. PICK i \in DOMAIN w.outbox : w.outbox[i].op.id = id
    BY <1>5 DEF Queued
  <2> QED
    BY <1>1, <1>3, <2>1 DEF Queued
<1> QED
  BY <1>4, <1>5 DEF Retains

LEMMA RetainsOn ==
  ASSUME NEW r, NEW s, NEW w, NEW N, Retains(r, s, N), Retains(s, w, N)
  PROVE  Retains(r, w, N)
BY DEF Retains

\* A resolution takes nothing that waits out of the queue.
LEMMA ResolutionRetains ==
  ASSUME NEW s, NEW d \in Device, NEW id, NEW c, NEW conflict,
         NEW choice \in ResolutionChoices, NEW N, StoreType(s, d), Known(c, conflict),
         Rests(s, conflict.source, N), conflict.source # None,
         id \in OpId \/ TakesRemoteLocally(conflict, choice),
         TakesRemoteLocally(conflict, choice) \/ id \notin N
  PROVE  Retains(s, QueueResolution(s, d, id, c, conflict, choice), N)
<1> DEFINE w == QueueResolution(s, d, id, c, conflict, choice)
           cleared == DropOps(s, Replaced(s, conflict))
           local == TakesRemoteLocally(conflict, choice)
           op == ResolutionOp(d, id, c, conflict, choice)
<1>1. /\ local => w.outbox = cleared.outbox
      /\ ~local => w.outbox = Append(cleared.outbox, [op |-> op, state |-> "pending"])
  BY ResolutionRows
<1>2. PICK at : Thins(s, cleared, at, Replaced(s, conflict))
  BY DropOpsThins
<1>3. StoreType(cleared, d)
  BY DropOpsLeaves DEF Leaves
<1> HIDE DEF w, cleared
<1>5. ASSUME NEW i \in DOMAIN s.outbox, s.outbox[i].state = "pending"
      PROVE  s.outbox[i].op.id \notin Replaced(s, conflict)
  <2> SUFFICES ASSUME s.outbox[i].op.id \in Replaced(s, conflict) PROVE FALSE
    OBVIOUS
  <2>1. PICK j \in Related(s, conflict.entity) :
          /\ s.outbox[j].op.id = conflict.source \/ s.outbox[j].state = "conflict"
          /\ s.outbox[j].op.id = s.outbox[i].op.id
    BY DEF Replaced
  <2>2. j = i
    BY <2>1 DEF StoreType, QueueType, Related
  <2>3. s.outbox[i].op.id = conflict.source
    BY <1>5, <2>1, <2>2
  <2> QED
    BY <1>5, <2>3 DEF Rests
<1>6. Retains(s, cleared, N)
  <2>1. ASSUME NEW x, Waiting(s, x) PROVE Waiting(cleared, x)
    <3>1. PICK i \in DOMAIN s.outbox : s.outbox[i].op = x /\ s.outbox[i].state = "pending"
      BY <2>1 DEF Waiting
    <3>2. PICK k \in DOMAIN cleared.outbox : at[k] = i
      BY <1>2, <1>5, <3>1 DEF Thins
    <3>3. cleared.outbox[k] = s.outbox[i]
      BY <1>2, <3>2 DEF Thins
    <3> QED
      BY <3>1, <3>3 DEF Waiting
  <2>2. Queued(cleared) \subseteq Queued(s)
    BY <1>2 DEF Thins, Queued
  <2> QED
    BY <2>1, <2>2 DEF Retains
<1>7. CASE local
  <2>1. Retains(cleared, w, N)
    BY <1>1, <1>7, RetainsQueue
  <2> QED
    BY <1>6, <2>1, RetainsOn DEF w
<1>8. CASE ~local
  <2>1. op \in Operation /\ op.id = id
    <3>1. op \in Operation
      BY <1>8, ResolutionTyped
    <3> QED
      BY <3>1 DEF ResolutionOp
  <2>2. cleared.outbox \in Seq(Entry)
    BY <1>3 DEF StoreType, QueueType
  <2> HIDE DEF op
  <2>3. Retains(cleared, w, N)
    BY <1>1, <1>8, <2>1, <2>2, AppendRetains DEF local
  <2> QED
    BY <1>6, <2>3, RetainsOn DEF w
<1> QED
  BY <1>7, <1>8

-----------------------------------------------------------------------------
(* The invariant.                                                          *)

\* A resolution that is being prepared is that of a conflict whose operation
\* rests.
Resting(d) ==
  choosing[d] # None =>
    /\ choosing[d].conflict.source # None
    /\ Rests(store[d], choosing[d].conflict.source, DOMAIN issued)

Seen(d) ==
  Neat(store[d], overtaken) /\ Rested(store[d], DOMAIN issued) /\ Resting(d)

Fitting(t) ==
  cycle[t].at \in {"push", "results"} =>
    /\ Fits(store[DeviceOf[t]], cycle[t].ops)
    /\ cycle[t].at = "results" => Told(cycle[t].ops, cycle[t].results, Len(cycle[t].ops))

ShownInv ==
  /\ overtaken \subseteq DOMAIN issued
  /\ \A d \in Device : Seen(d)
  /\ \A t \in Tab : Fitting(t)

LEMMA RestsWider ==
  ASSUME NEW s, NEW x, NEW N, NEW M, Rests(s, x, N), N \subseteq M
  PROVE  Rests(s, x, M)
BY DEF Rests

LEMMA RestedWider ==
  ASSUME NEW s, NEW N, NEW M, Rested(s, N), N \subseteq M
  PROVE  Rested(s, M)
BY RestsWider DEF Rested

LEMMA NeatRests ==
  ASSUME NEW s, NEW w, NEW o, Neat(s, o), w.outbox = s.outbox, w.entity = s.entity
  PROVE  Neat(w, o)
<1>1. ASSUME NEW e \in Entity PROVE Tidy(w, e, o)
  <2>1. Tidy(s, e, o)
    BY DEF Neat
  <2> QED
    BY <2>1, TidyRests
<1> QED
  BY <1>1 DEF Neat

\* What is queued has been made, on top of operations that have.
LEMMA QueuedIsMade ==
  ASSUME SyncInv, OrderInv, NEW d \in Device
  PROVE  /\ Queued(store[d]) \subseteq DOMAIN issued
         /\ \A op : Waiting(store[d], op) => op.id \in DOMAIN issued /\ op.deps \subseteq DOMAIN issued
<1>1. StoreOk(d) /\ Lined(store[d]) /\ Linked
  BY DEF SyncInv, Kept, OrderInv
<1>2. Queued(store[d]) \subseteq DOMAIN issued
  BY <1>1 DEF StoreOk, Queued
<1>3. ASSUME NEW op, Waiting(store[d], op)
      PROVE  op.id \in DOMAIN issued /\ op.deps \subseteq DOMAIN issued
  <2>1. PICK i \in DOMAIN store[d].outbox : store[d].outbox[i].op = op
    BY <1>3 DEF Waiting
  <2>2. op.id \in DOMAIN issued /\ issued[op.id].op = op
    BY <1>1, <2>1 DEF StoreOk, Lined
  <2> QED
    BY <1>1, <2>2 DEF Linked
<1> QED
  BY <1>2, <1>3

\* Batches go on fitting.
LEMMA BatchesFit ==
  ASSUME SyncInv, OrderInv, ShownInv,
         \A u \in Tab :
           \/ cycle'[u].at \notin {"push", "results"}
           \/ /\ cycle'[u] = cycle[u]
              /\ Retains(store[DeviceOf[u]], store'[DeviceOf[u]], DOMAIN issued)
           \/ Fitting(u)'
  PROVE  \A u \in Tab : Fitting(u)'
<1> SUFFICES ASSUME NEW u \in Tab PROVE Fitting(u)'
  OBVIOUS
<1>1. CASE cycle'[u].at \notin {"push", "results"}
  BY <1>1 DEF Fitting
<1>2. CASE /\ cycle'[u] = cycle[u]
           /\ Retains(store[DeviceOf[u]], store'[DeviceOf[u]], DOMAIN issued)
  <2>1. PICK x : x = cycle[u]
    OBVIOUS
  <2>2. PICK s : s = store[DeviceOf[u]]
    OBVIOUS
  <2>3. PICK w : w = store'[DeviceOf[u]]
    OBVIOUS
  <2>4. DeviceOf[u] \in Device
    BY SyncAssumption
  <2>5. ASSUME x.at \in {"push", "results"}
        PROVE  /\ Fits(w, x.ops)
               /\ x.at = "results" => Told(x.ops, x.results, Len(x.ops))
    <3>1. Fitting(u)
      BY DEF ShownInv
    <3>2. Fits(s, x.ops) /\ (x.at = "results" => Told(x.ops, x.results, Len(x.ops)))
      BY <2>1, <2>2, <2>5, <3>1 DEF Fitting
    <3>3. \A k \in DOMAIN x.ops : x.ops[k].deps \subseteq DOMAIN issued
      BY <2>2, <2>4, <3>2, QueuedIsMade DEF Fits
    <3>4. Fits(w, x.ops)
      BY <1>2, <2>2, <2>3, <3>2, <3>3, FitsOn
    <3> QED
      BY <3>2, <3>4
  <2>6. cycle'[u] = x /\ store'[DeviceOf[u]] = w
    BY <1>2, <2>1, <2>3
  <2> QED
    BY <2>5, <2>6 DEF Fitting
<1> QED
  BY <1>1, <1>2

\* The stores rest.
LEMMA StoresShown ==
  ASSUME SyncInv, OrderInv, ShownInv, UNCHANGED <<store, issued, overtaken>>,
         \A d \in Device : Resting(d)',
         \A u \in Tab :
           cycle'[u].at \notin {"push", "results"} \/ cycle'[u] = cycle[u] \/ Fitting(u)'
  PROVE  ShownInv'
<1>1. \A u \in Tab : Retains(store[DeviceOf[u]], store'[DeviceOf[u]], DOMAIN issued)
  BY RetainsQueue
<1>2. \A u \in Tab : Fitting(u)'
  BY <1>1, BatchesFit
<1>3. ASSUME NEW d \in Device PROVE Seen(d)'
  <2>1. Seen(d)
    BY DEF ShownInv
  <2>2. Neat(store[d], overtaken)' /\ Rested(store[d], DOMAIN issued)'
    BY <2>1 DEF Seen
  <2> QED
    BY <2>2 DEF Seen
<1> QED
  BY <1>2, <1>3 DEF ShownInv

\* One store moves, whatever becomes of the rest.
LEMMA StoreShown ==
  ASSUME SyncInv, ShownInv, NEW d \in Device, NEW w, store' = [store EXCEPT ![d] = w],
         UNCHANGED choosing, UNCHANGED overtaken, DOMAIN issued \subseteq DOMAIN issued',
         Neat(w, overtaken), Rested(w, DOMAIN issued'),
         choosing[d] # None => Rests(w, choosing[d].conflict.source, DOMAIN issued')
  PROVE  overtaken' \subseteq DOMAIN issued' /\ \A c \in Device : Seen(c)'
<1>1. DOMAIN store = Device
  BY DEF SyncInv, Kept
<1>2. ASSUME NEW c \in Device PROVE Seen(c)'
  <2>1. Seen(c)
    BY DEF ShownInv
  <2>2. CASE c = d
    <3>1. store'[c] = w
      BY <1>1, <2>2
    <3>2. Resting(c)'
      BY <2>1, <2>2, <3>1 DEF Seen, Resting
    <3>3. Neat(store'[c], overtaken') /\ Rested(store'[c], DOMAIN issued')
      BY <3>1
    <3> QED
      BY <3>2, <3>3 DEF Seen
  <2>3. CASE c # d
    <3>1. store'[c] = store[c]
      BY <1>1, <2>3
    <3>2. Neat(store'[c], overtaken') /\ Rested(store'[c], DOMAIN issued')
      BY <2>1, <3>1, RestedWider DEF Seen
    <3>3. Resting(c)'
      BY <2>1, <3>1, RestsWider DEF Seen, Resting
    <3> QED
      BY <3>2, <3>3 DEF Seen
  <2> QED
    BY <2>2, <2>3
<1>3. overtaken' \subseteq DOMAIN issued'
  BY DEF ShownInv
<1> QED
  BY <1>2, <1>3

\* The store of a tab takes what its cycle has in its hands; the other tabs
\* have other stores.
LEMMA TabShown ==
  ASSUME OneTab, SyncInv, OrderInv, ShownInv, NEW t \in Tab, NEW w, NEW y, NEW gone,
         store' = [store EXCEPT ![DeviceOf[t]] = w], cycle' = [cycle EXCEPT ![t] = y],
         y.at \notin {"push", "results"}, UNCHANGED <<choosing, issued, overtaken>>,
         Neat(w, overtaken), Rested(w, DOMAIN issued), Follows(store[DeviceOf[t]], w, gone)
  PROVE  ShownInv'
<1>1. DOMAIN store = Device /\ DOMAIN cycle = Tab /\ DeviceOf \in [Tab -> Device]
  BY SyncAssumption DEF SyncInv, Kept, Hands
<1>2. PICK d \in Device : d = DeviceOf[t]
  BY <1>1
<1>3. ASSUME NEW u \in Tab
      PROVE  \/ cycle'[u].at \notin {"push", "results"}
             \/ /\ cycle'[u] = cycle[u]
                /\ Retains(store[DeviceOf[u]], store'[DeviceOf[u]], DOMAIN issued)
  <2>1. CASE u = t
    BY <1>1, <2>1
  <2>2. CASE u # t
    <3>1. DeviceOf[u] # DeviceOf[t] /\ DeviceOf[u] \in Device
      BY <1>1, <2>2 DEF OneTab
    <3>2. store'[DeviceOf[u]] = store[DeviceOf[u]] /\ cycle'[u] = cycle[u]
      BY <1>1, <2>2, <3>1
    <3> QED
      BY <3>2, RetainsQueue
  <2> QED
    BY <2>1, <2>2
<1>4. \A u \in Tab : Fitting(u)'
  BY <1>3, BatchesFit
<1>5. choosing[d] # None => Rests(w, choosing[d].conflict.source, DOMAIN issued)
  BY <1>2, RestsOn DEF ShownInv, Seen, Resting
<1>6. overtaken' \subseteq DOMAIN issued' /\ \A c \in Device : Seen(c)'
  <2>1. store' = [store EXCEPT ![d] = w] /\ DOMAIN issued' = DOMAIN issued
    BY <1>2
  <2> QED
    BY <1>5, <2>1, StoreShown
<1> QED
  BY <1>4, <1>6 DEF ShownInv

-----------------------------------------------------------------------------
(* The actions.                                                            *)

LEMMA EditShown ==
  ASSUME SyncInv, OrderInv, ShownInv, NEW d \in Device, NEW e \in Entity, NEW type \in Edits,
         Edit(d, e, type)
  PROVE  ShownInv'
<1>1. PICK s : s = store[d]
  OBVIOUS
<1>2. PICK id : id = CHOOSE x \in Fresh(d) : TRUE
  OBVIOUS
<1>3. id \in Fresh(d)
  BY <1>2 DEF Edit
<1>4. PICK op : op = Mutation(s, d, id, type, e)
  OBVIOUS
<1>5. PICK w : w = Commit(s, op)
  OBVIOUS
<1>6. /\ store' = [store EXCEPT ![d] = w] /\ Issue(d, op)
      /\ UNCHANGED choosing /\ UNCHANGED overtaken /\ UNCHANGED cycle
  BY <1>1, <1>2, <1>4, <1>5 DEF Edit
<1>7. StoreType(s, d) /\ Queued(s) \subseteq DOMAIN issued
  BY <1>1, QueuedIsMade DEF SyncInv, Kept, StoreOk
<1>8. id \in OpId /\ id \notin DOMAIN issued /\ id \notin overtaken /\ id \notin Queued(s)
  BY <1>3, <1>7, SyncAssumption DEF Fresh, ShownInv
<1>9. op \in Operation /\ op.id = id /\ op.device = d
  <2>1. op \in Operation
    BY <1>4, <1>7, <1>8, MutationTyped
  <2> QED
    BY <1>4, <2>1 DEF Mutation
<1>10. PICK M : M = DOMAIN issued'
  OBVIOUS
<1>11. DOMAIN issued \subseteq M
  BY <1>6, <1>10 DEF Issue, Put
<1>12. Neat(s, overtaken) /\ Rested(s, DOMAIN issued)
       /\ (choosing[d] # None => Rests(s, choosing[d].conflict.source, DOMAIN issued))
  BY <1>1 DEF ShownInv, Seen, Resting
<1>13. Neat(w, overtaken)
  BY <1>4, <1>5, <1>7, <1>8, <1>12, CommitTidy
<1>14. PICK gone : gone = {}
  OBVIOUS
<1>15. Queues(s, w, d, gone, op)
  BY <1>5, <1>7, <1>8, <1>9, <1>14, CommitQueues
<1>16. /\ w.outbox = Append(s.outbox, [op |-> op, state |-> "pending"])
       /\ w.conflicts = s.conflicts
  BY <1>5, <1>7, <1>9, CommitRows
<1>17. Rested(w, M)
  <2>1. Sourced(s, w, None)
    BY <1>16 DEF Sourced
  <2> QED
    BY <1>8, <1>9, <1>11, <1>12, <1>15, <2>1, RestedBehind
<1>18. choosing[d] # None => Rests(w, choosing[d].conflict.source, M)
  BY <1>8, <1>9, <1>11, <1>12, <1>15, RestsBehind
<1>19. Retains(s, w, DOMAIN issued)
  <2>1. s.outbox \in Seq(Entry)
    BY <1>7 DEF StoreType, QueueType
  <2> QED
    BY <1>8, <1>9, <1>16, <2>1, AppendRetains
<1>20. \A u \in Tab : Fitting(u)'
  <2>1. DOMAIN store = Device /\ \A u \in Tab : DeviceOf[u] \in Device
    BY SyncAssumption DEF SyncInv, Kept
  <2>2. \A u \in Tab : Retains(store[DeviceOf[u]], store'[DeviceOf[u]], DOMAIN issued)
    BY <1>1, <1>6, <1>19, <2>1, RetainsQueue
  <2> QED
    BY <1>6, <2>2, BatchesFit
<1> QED
  BY <1>6, <1>10, <1>11, <1>13, <1>17, <1>18, <1>20, StoreShown DEF ShownInv

LEMMA ChooseResolutionShown ==
  ASSUME SyncInv, OrderInv, ShownInv, NEW d \in Device, NEW c, NEW choice,
         ChooseResolution(d, c, choice)
  PROVE  ShownInv'
<1>1. DOMAIN choosing = Device
  BY DEF SyncInv, Kept
<1>2. PICK x : x = [id |-> c, choice |-> choice, conflict |-> store[d].conflicts[c]]
  OBVIOUS
<1>3. /\ c \in DOMAIN store[d].conflicts /\ store[d].conflicts[c].source # None
      /\ choosing' = [choosing EXCEPT ![d] = x]
      /\ UNCHANGED <<store, issued, overtaken>> /\ UNCHANGED cycle
  BY <1>2 DEF ChooseResolution, MayResolve, history
<1>4. ASSUME NEW b \in Device PROVE Resting(b)'
  <2>1. Seen(b)
    BY DEF ShownInv
  <2>2. CASE b = d
    <3>1. choosing'[b].conflict = store[d].conflicts[c]
      BY <1>1, <1>2, <1>3, <2>2
    <3>2. Rests(store[d], store[d].conflicts[c].source, DOMAIN issued)
      BY <1>3, <2>1, <2>2 DEF Seen, Rested
    <3> QED
      BY <1>3, <2>2, <3>1, <3>2 DEF Resting
  <2>3. CASE b # d
    <3>1. choosing'[b] = choosing[b]
      BY <1>1, <1>3, <2>3
    <3> QED
      BY <1>3, <2>1, <3>1 DEF Seen, Resting
  <2> QED
    BY <2>2, <2>3
<1> QED
  BY <1>3, <1>4, StoresShown

LEMMA DismissConflictShown ==
  ASSUME SyncInv, OrderInv, ShownInv, NEW d \in Device, NEW c, DismissConflict(d, c)
  PROVE  ShownInv'
<1>1. PICK s : s = store[d]
  OBVIOUS
<1>2. PICK w : w = Dismiss(s, c)
  OBVIOUS
<1>3. /\ store' = [store EXCEPT ![d] = w] /\ UNCHANGED choosing /\ UNCHANGED overtaken
      /\ DOMAIN issued \subseteq DOMAIN issued' /\ DOMAIN issued' = DOMAIN issued
      /\ UNCHANGED cycle
  BY <1>1, <1>2 DEF DismissConflict, history
<1>4. StoreType(s, d)
  BY <1>1 DEF SyncInv, Kept, StoreOk
<1>5. w.outbox = s.outbox /\ w.entity = s.entity /\ Sourced(s, w, None)
  BY <1>2, <1>4, SetConflictRows DEF Dismiss
<1>6. Follows(s, w, {})
  BY <1>2, <1>4, SetConflictLeaves DEF Dismiss, Leaves, ConflictStatus
<1>7. Neat(s, overtaken) /\ Rested(s, DOMAIN issued)
      /\ (choosing[d] # None => Rests(s, choosing[d].conflict.source, DOMAIN issued))
  BY <1>1 DEF ShownInv, Seen, Resting
<1>8. Neat(w, overtaken)
  BY <1>5, <1>7, NeatRests
<1>9. Rested(w, DOMAIN issued)
  <2>1. Rests(w, None, DOMAIN issued)
    BY DEF Rests
  <2> QED
    BY <1>5, <1>6, <1>7, <2>1, RestedOn
<1>10. choosing[d] # None => Rests(w, choosing[d].conflict.source, DOMAIN issued)
  BY <1>6, <1>7, RestsOn
<1>11. \A u \in Tab : Fitting(u)'
  <2>1. DOMAIN store = Device /\ \A u \in Tab : DeviceOf[u] \in Device
    BY SyncAssumption DEF SyncInv, Kept
  <2>2. \A u \in Tab : store'[DeviceOf[u]].outbox = store[DeviceOf[u]].outbox
    BY <1>1, <1>3, <1>5, <2>1
  <2>3. \A u \in Tab : Retains(store[DeviceOf[u]], store'[DeviceOf[u]], DOMAIN issued)
    BY <2>2, RetainsQueue
  <2> QED
    BY <1>3, <2>3, BatchesFit
<1>12. overtaken' \subseteq DOMAIN issued' /\ \A b \in Device : Seen(b)'
  BY <1>3, <1>8, <1>9, <1>10, StoreShown
<1> QED
  BY <1>11, <1>12 DEF ShownInv

\* What is overtaken on one device does not matter to another.
LEMMA NeatElsewhere ==
  ASSUME NEW s, NEW o, NEW u, Neat(s, o), \A id \in Queued(s) : id \in o <=> id \in u
  PROVE  Neat(s, u)
<1>1. ASSUME NEW e \in Entity PROVE Tidy(s, e, u)
  <2>1. Tidy(s, e, o)
    BY DEF Neat
  <2>2. \A i \in Related(s, e) : s.outbox[i].op.id \in o <=> s.outbox[i].op.id \in u
    BY DEF Related, Queued
  <2>3. Standing(s, e, u) = Standing(s, e, o)
    BY <2>2 DEF Standing
  <2>4. Ranked(s, e, u)
    BY <2>1, <2>2 DEF Tidy, Ranked
  <2>5. Chained(s, e, u)
    BY <2>1, <2>3 DEF Tidy, Chained
  <2>6. InView(s, e, u)
    BY <2>1, <2>3 DEF Tidy, InView, Waits
  <2> QED
    BY <2>4, <2>5, <2>6 DEF Tidy
<1> QED
  BY <1>1 DEF Neat

LEMMA CommitResolutionShown ==
  ASSUME SyncInv, OrderInv, ShownInv, NEW d \in Device, CommitResolution(d)
  PROVE  ShownInv'
<1>1. PICK s : s = store[d]
  OBVIOUS
<1>2. PICK c : c = choosing[d].id
  OBVIOUS
<1>3. PICK choice : choice = choosing[d].choice
  OBVIOUS
<1>4. PICK conflict : conflict = choosing[d].conflict
  OBVIOUS
<1>5. PICK id : id = CHOOSE x \in Fresh(d) : TRUE
  OBVIOUS
<1>6. PICK w : w = QueueResolution(s, d, id, c, conflict, choice)
  OBVIOUS
<1>7. PICK op : op = ResolutionOp(d, id, c, conflict, choice)
  OBVIOUS
<1>8. PICK u : u = overtaken \cup Overtaken(s, conflict) \cup Unseen(s, conflict, choice, id)
  OBVIOUS
<1>9. PICK N : N = DOMAIN issued
  OBVIOUS
<1>10. PICK M : M = DOMAIN issued'
  OBVIOUS
<1> DEFINE local == TakesRemoteLocally(conflict, choice)
<1>11. /\ Fresh(d) # {} \/ local
       /\ store' = [store EXCEPT ![d] = w] /\ overtaken' = u
       /\ IF local THEN UNCHANGED issued ELSE Issue(d, op)
       /\ choosing' = [choosing EXCEPT ![d] = None] /\ choosing[d] # None
       /\ UNCHANGED cycle
  BY <1>1, <1>2, <1>3, <1>4, <1>5, <1>6, <1>7, <1>8 DEF CommitResolution
<1> HIDE DEF local
<1>12. /\ StoreType(s, d) /\ choice \in ResolutionChoices /\ Known(c, conflict)
  BY <1>1, <1>2, <1>3, <1>4, <1>11 DEF SyncInv, Kept, StoreOk, ChoosingOk
<1>13. Queued(s) \subseteq N /\ overtaken \subseteq N
  BY <1>1, <1>9, QueuedIsMade DEF ShownInv
<1>14. Neat(s, overtaken) /\ Rested(s, N) /\ conflict.source # None /\ Rests(s, conflict.source, N)
  BY <1>1, <1>4, <1>9, <1>11 DEF ShownInv, Seen, Resting
<1>15. Overtaken(s, conflict) \subseteq Queued(s)
  BY DEF Overtaken, Related, Queued
<1>16. local \/ (id \in OpId /\ id \notin N)
  BY <1>5, <1>9, <1>11, SyncAssumption DEF Fresh
<1>17. id \in OpId \/ local
  BY <1>16
<1>18. local \/ (id \notin overtaken \cup Overtaken(s, conflict) /\ id \notin Queued(s))
  BY <1>13, <1>15, <1>16
<1>19. Neat(w, u)
  BY <1>6, <1>8, <1>12, <1>14, <1>17, <1>18, ResolutionTidy DEF local
<1>20. Sourced(s, w, None)
  BY <1>6, <1>12, ResolutionRows
<1>21. N \subseteq M /\ (~local => op.id \in M)
  BY <1>9, <1>10, <1>11 DEF Issue, Put
<1>28. Unseen(s, conflict, choice, id) \subseteq {op.id}
  BY <1>7 DEF Unseen, ResolutionOp
<1>29. Unseen(s, conflict, choice, id) \subseteq M \ N
  <2>1. CASE local
    BY <2>1 DEF Unseen, local
  <2>2. CASE ~local
    <3>1. op.id = id
      BY <1>7 DEF ResolutionOp
    <3> QED
      BY <1>16, <1>21, <1>28, <2>2, <3>1
  <2> QED
    BY <2>1, <2>2
<1>22. Rested(w, M)
  <2>1. CASE local
    <3>1. Leaves(s, w, d, Replaced(s, conflict))
      BY <1>6, <1>12, <2>1, QueueResolutionQueues DEF local
    <3>2. Follows(s, w, Replaced(s, conflict)) /\ Rests(w, None, N)
      BY <3>1 DEF Leaves, Rests
    <3>3. Rested(w, N)
      BY <1>14, <1>20, <3>2, RestedOn
    <3> QED
      BY <1>21, <3>3, RestedWider
  <2>2. CASE ~local
    <3>1. Queues(s, w, d, Replaced(s, conflict), op)
      BY <1>6, <1>7, <1>12, <1>17, <1>18, <2>2, QueueResolutionQueues DEF local
    <3>2. op.id \notin N
      BY <1>7, <1>16, <2>2 DEF ResolutionOp
    <3> QED
      BY <1>14, <1>20, <1>21, <3>1, <3>2, RestedBehind
  <2> QED
    BY <2>1, <2>2
<1>23. Retains(s, w, N)
  BY <1>6, <1>12, <1>14, <1>16, <1>17, ResolutionRetains DEF local
<1>24. DOMAIN store = Device /\ DOMAIN choosing = Device /\ \A t \in Tab : DeviceOf[t] \in Device
  BY SyncAssumption DEF SyncInv, Kept
<1>25. \A t \in Tab : Fitting(t)'
  <2>1. \A t \in Tab : Retains(store[DeviceOf[t]], store'[DeviceOf[t]], DOMAIN issued)
    BY <1>1, <1>9, <1>11, <1>23, <1>24, RetainsQueue
  <2> QED
    BY <1>11, <2>1, BatchesFit
<1>26. ASSUME NEW b \in Device PROVE Seen(b)'
  <2>1. Seen(b)
    BY DEF ShownInv
  <2>2. CASE b = d
    <3>1. store'[b] = w /\ choosing'[b] = None
      BY <1>11, <1>24, <2>2
    <3>2. Neat(store'[b], overtaken') /\ Rested(store'[b], DOMAIN issued')
      BY <1>10, <1>11, <1>19, <1>22, <3>1
    <3>3. Resting(b)'
      BY <3>1 DEF Resting
    <3> QED
      BY <3>2, <3>3 DEF Seen
  <2>3. CASE b # d
    <3>1. store'[b] = store[b] /\ choosing'[b] = choosing[b]
      BY <1>11, <1>24, <2>3
    <3>2. ASSUME NEW x \in Queued(store[b]) PROVE x \notin Queued(s)
      <4>1. \A a \in Device : Lined(store[a])
        BY DEF OrderInv
      <4>2. Owner(x) = b
        BY <4>1, QueuedIsOwn
      <4>3. \A y \in Queued(s) : Owner(y) = d
        BY <1>1, <4>1, QueuedIsOwn
      <4> QED
        BY <2>3, <4>2, <4>3
    <3>8. Queued(store[b]) \subseteq N
      BY <1>9, QueuedIsMade
    <3>3. \A x \in Queued(store[b]) : x \in overtaken <=> x \in u
      BY <1>8, <1>15, <1>29, <3>2, <3>8
    <3>4. Neat(store[b], u)
      BY <2>1, <3>3, NeatElsewhere DEF Seen
    <3>5. Rested(store[b], M)
      BY <1>9, <1>21, <2>1, RestedWider DEF Seen
    <3>6. Neat(store'[b], overtaken') /\ Rested(store'[b], DOMAIN issued')
      BY <1>10, <1>11, <3>1, <3>4, <3>5
    <3>7. Resting(b)'
      BY <1>9, <1>10, <1>21, <2>1, <3>1, RestsWider DEF Seen, Resting
    <3> QED
      BY <3>6, <3>7 DEF Seen
  <2> QED
    BY <2>2, <2>3
<1>27. overtaken' \subseteq DOMAIN issued'
  BY <1>8, <1>10, <1>11, <1>13, <1>15, <1>21, <1>29
<1> QED
  BY <1>25, <1>26, <1>27 DEF ShownInv

LEMMA ActivateSnapshotShown ==
  ASSUME OneTab, SyncInv, OrderInv, ShownInv, NEW t \in Tab, ActivateSnapshot(t)
  PROVE  ShownInv'
<1>1. PICK d \in Device : d = DeviceOf[t]
  BY SyncAssumption
<1>2. PICK s : s = store[d]
  OBVIOUS
<1>3. PICK snapshot : snapshot = cycle[t].snapshot
  OBVIOUS
<1>4. PICK w : w = Activate(s, snapshot)
  OBVIOUS
<1>5. PICK y : y = Idle
  OBVIOUS
<1>6. /\ cycle[t].at = "activate"
      /\ store' = [store EXCEPT ![DeviceOf[t]] = w] /\ cycle' = [cycle EXCEPT ![t] = y]
      /\ UNCHANGED <<choosing, issued, overtaken>>
  BY <1>1, <1>2, <1>3, <1>4, <1>5 DEF ActivateSnapshot, Stores, Moves, Here, history
<1>7. y.at \notin {"push", "results"}
  BY <1>5 DEF Idle
<1>8. StoreType(s, d) /\ ToldSnapshot(snapshot)
  BY <1>2, <1>3, <1>6 DEF SyncInv, Kept, StoreOk, Hands, Hand
<1>9. Neat(s, overtaken) /\ Rested(s, DOMAIN issued)
  BY <1>2 DEF ShownInv, Seen
<1>10. Neat(w, overtaken)
  BY <1>4, <1>8, <1>9, ActivateTidy
<1>11. Follows(s, w, {}) /\ w.conflicts = s.conflicts
  BY <1>4, <1>8, ActivateKeeps
<1>12. Rested(w, DOMAIN issued)
  <2>1. Sourced(s, w, None) /\ Rests(w, None, DOMAIN issued)
    BY <1>11 DEF Sourced, Rests
  <2> QED
    BY <1>9, <1>11, <2>1, RestedOn
<1>13. Follows(store[DeviceOf[t]], w, {})
  BY <1>1, <1>2, <1>11
<1> QED
  BY <1>6, <1>7, <1>10, <1>12, <1>13, TabShown

LEMMA ReceiveResultsShown ==
  ASSUME OneTab, SyncInv, OrderInv, ShownInv, NEW t \in Tab, ReceiveResults(t)
  PROVE  ShownInv'
<1>1. PICK d \in Device : d = DeviceOf[t]
  BY SyncAssumption
<1>2. PICK s : s = store[d]
  OBVIOUS
<1>3. PICK ops : ops = cycle[t].ops
  OBVIOUS
<1>4. PICK results : results = cycle[t].results
  OBVIOUS
<1>5. PICK w : w = ApplyPush(s, ops, results)
  OBVIOUS
<1>6. /\ cycle[t].at = "results" /\ UNCHANGED <<choosing, issued, overtaken>>
      /\ \/ /\ store' = [store EXCEPT ![DeviceOf[t]] = w]
            /\ cycle' = [cycle EXCEPT ![t] = [at |-> "pull"]]
         \/ cycle' = [cycle EXCEPT ![t] = Idle] /\ UNCHANGED store
  BY <1>1, <1>2, <1>3, <1>4, <1>5 DEF ReceiveResults, Stores, Moves, Here
<1>7. CASE cycle' = [cycle EXCEPT ![t] = Idle] /\ UNCHANGED store
  <2>1. DOMAIN cycle = Tab
    BY DEF SyncInv, Hands
  <2>2. \A u \in Tab : cycle'[u].at \notin {"push", "results"} \/ cycle'[u] = cycle[u]
    BY <1>7, <2>1 DEF Idle
  <2>3. ASSUME NEW b \in Device PROVE Resting(b)'
    BY <1>6, <1>7 DEF ShownInv, Seen, Resting
  <2> QED
    BY <1>6, <1>7, <2>2, <2>3, StoresShown
<1>8. CASE /\ store' = [store EXCEPT ![DeviceOf[t]] = w]
           /\ cycle' = [cycle EXCEPT ![t] = [at |-> "pull"]]
  <2>1. PICK y : y = [at |-> "pull"]
    OBVIOUS
  <2>2. y.at \notin {"push", "results"}
    BY <2>1
  <2>3. StoreType(s, d) /\ Queued(s) \subseteq DOMAIN issued
    BY <1>2, QueuedIsMade DEF SyncInv, Kept, StoreOk
  <2>4. ops \in Seq(Operation) /\ AnswersTo(results, ops)
    BY <1>3, <1>4, <1>6 DEF SyncInv, Hands, Hand
  <2>5. Neat(s, overtaken) /\ Rested(s, DOMAIN issued)
    BY <1>2 DEF ShownInv, Seen
  <2>6. Fits(s, ops) /\ Told(ops, results, Len(ops))
    BY <1>1, <1>2, <1>3, <1>4, <1>6 DEF ShownInv, Fitting
  <2>7. Neat(w, overtaken) /\ Rested(w, DOMAIN issued)
    BY <1>5, <2>3, <2>4, <2>5, <2>6, ApplyPushTidy
  <2>8. PICK gone : Leaves(s, w, d, gone)
    BY <1>5, <2>3, <2>4, ApplyPushLeaves
  <2>9. Follows(store[DeviceOf[t]], w, gone)
    BY <1>1, <1>2, <2>8 DEF Leaves
  <2> QED
    BY <1>6, <1>8, <2>1, <2>2, <2>7, <2>9, TabShown
<1> QED
  BY <1>6, <1>7, <1>8

LEMMA ReceiveControlShown ==
  ASSUME OneTab, SyncInv, OrderInv, ShownInv, NEW t \in Tab, ReceiveControl(t)
  PROVE  ShownInv'
<1>1. PICK d \in Device : d = DeviceOf[t]
  BY SyncAssumption
<1>2. PICK s : s = store[d]
  OBVIOUS
<1>3. PICK w : w = ApplyControl(s)
  OBVIOUS
<1>4. PICK y : y = Idle
  OBVIOUS
<1>5. /\ store' = [store EXCEPT ![DeviceOf[t]] = w] /\ cycle' = [cycle EXCEPT ![t] = y]
      /\ UNCHANGED <<choosing, issued, overtaken>>
  BY <1>1, <1>2, <1>3, <1>4 DEF ReceiveControl, Stores, Moves, Here, history
<1>6. y.at \notin {"push", "results"}
  BY <1>4 DEF Idle
<1>7. StoreType(s, d)
  BY <1>2 DEF SyncInv, Kept, StoreOk
<1>8. Neat(s, overtaken) /\ Rested(s, DOMAIN issued)
  BY <1>2 DEF ShownInv, Seen
<1>9. w.outbox = s.outbox /\ w.entity = s.entity /\ w.conflicts = s.conflicts
  BY <1>3, <1>7 DEF ApplyControl, StoreType
<1>10. Neat(w, overtaken) /\ Rested(w, DOMAIN issued)
  BY <1>8, <1>9, RowsRest
<1>11. Follows(store[DeviceOf[t]], w, {})
  <2>1. Follows(s, s, {})
    BY <1>7, FollowsItself
  <2>2. Follows(s, w, {})
    BY <1>9, <2>1 DEF Follows, InOrder, Queued
  <2> QED
    BY <1>1, <1>2, <2>2
<1> QED
  BY <1>5, <1>6, <1>10, <1>11, TabShown

LEMMA ReceivePageShown ==
  ASSUME OneTab, SyncInv, OrderInv, ShownInv, NEW t \in Tab, ReceivePage(t)
  PROVE  ShownInv'
<1>1. PICK d \in Device : d = DeviceOf[t]
  BY SyncAssumption
<1>2. PICK s : s = store[d]
  OBVIOUS
<1>3. PICK page : page = cycle[t].page
  OBVIOUS
<1>4. PICK w : w = ApplyPull(s, page)
  OBVIOUS
<1>5. PICK y : y = IF page.more THEN [at |-> "pull"] ELSE Idle
  OBVIOUS
<1>6. /\ cycle[t].at = "page"
      /\ store' = [store EXCEPT ![DeviceOf[t]] = w] /\ cycle' = [cycle EXCEPT ![t] = y]
      /\ UNCHANGED <<choosing, issued, overtaken>>
  BY <1>1, <1>2, <1>3, <1>4, <1>5 DEF ReceivePage, Stores, Moves, Here, history
<1>7. y.at \notin {"push", "results"}
  BY <1>5 DEF Idle
<1>8. StoreType(s, d) /\ Queued(s) \subseteq DOMAIN issued
  BY <1>2, QueuedIsMade DEF SyncInv, Kept, StoreOk
<1>9. page.changes \in Seq(ToldChange) /\ page.to \in Nat
  BY <1>3, <1>6 DEF SyncInv, Hands, Hand
<1>10. Neat(s, overtaken) /\ Rested(s, DOMAIN issued)
  BY <1>2 DEF ShownInv, Seen
<1>11. Neat(w, overtaken) /\ Rested(w, DOMAIN issued)
  BY <1>4, <1>8, <1>9, <1>10, ApplyPullTidy
<1>12. Follows(s, w, {})
  BY <1>4, <1>8, <1>9, ApplyPullLeaves
<1>13. Follows(store[DeviceOf[t]], w, {})
  BY <1>1, <1>2, <1>12
<1> QED
  BY <1>6, <1>7, <1>11, <1>13, TabShown

\* The store takes nothing, and the cycle gets no batch.
LEMMA CycleShown ==
  ASSUME SyncInv, OrderInv, ShownInv, NEW t \in Tab, NEW y,
         y.at \notin {"push", "results"}, cycle' = [cycle EXCEPT ![t] = y],
         UNCHANGED <<store, choosing, issued, overtaken>>
  PROVE  ShownInv'
<1>1. DOMAIN cycle = Tab
  BY DEF SyncInv, Hands
<1>2. \A u \in Tab : cycle'[u].at \notin {"push", "results"} \/ cycle'[u] = cycle[u]
  BY <1>1
<1>3. ASSUME NEW b \in Device PROVE Resting(b)'
  BY DEF ShownInv, Seen, Resting
<1> QED
  BY <1>2, <1>3, StoresShown

LEMMA RequestBootstrapShown ==
  ASSUME SyncInv, OrderInv, ShownInv, NEW t \in Tab, RequestBootstrap(t)
  PROVE  ShownInv'
<1>1. PICK y : y = [at |-> "activate", snapshot |-> Snapshot(db)]
  OBVIOUS
<1>2. y.at = "activate" /\ cycle' = [cycle EXCEPT ![t] = y]
      /\ UNCHANGED <<store, choosing, issued, overtaken>>
  BY <1>1 DEF RequestBootstrap, Moves, history
<1> QED
  BY <1>2, CycleShown

LEMMA RequestPageShown ==
  ASSUME SyncInv, OrderInv, ShownInv, NEW t \in Tab, RequestPage(t)
  PROVE  ShownInv'
<1>1. PICK page : page = Page(db, Here(t).cursor, PageLimit)
  OBVIOUS
<1>2. \E y : y.at \notin {"push", "results"} /\ cycle' = [cycle EXCEPT ![t] = y]
  <2>1. \E y \in {Idle, [at |-> "control"], [at |-> "page", page |-> page]} :
          cycle' = [cycle EXCEPT ![t] = y]
    BY <1>1 DEF RequestPage, Moves
  <2>2. \A y \in {Idle, [at |-> "control"], [at |-> "page", page |-> page]} :
          y.at \notin {"push", "results"}
    BY DEF Idle
  <2> QED
    BY <2>1, <2>2
<1>3. PICK y : y.at \notin {"push", "results"} /\ cycle' = [cycle EXCEPT ![t] = y]
  BY <1>2
<1>4. UNCHANGED <<store, choosing, issued, overtaken>>
  BY DEF RequestPage, history
<1> QED
  BY <1>3, <1>4, CycleShown

LEMMA AbandonShown ==
  ASSUME SyncInv, OrderInv, ShownInv, NEW t \in Tab, Abandon(t)
  PROVE  ShownInv'
<1>1. cycle' = [cycle EXCEPT ![t] = Idle] /\ UNCHANGED <<store, choosing, issued, overtaken>>
  BY DEF Abandon, Moves, history
<1>2. Idle.at \notin {"push", "results"}
  BY DEF Idle
<1> QED
  BY <1>1, <1>2, CycleShown

\* A batch is taken from the store.
LEMMA StartCycleShown ==
  ASSUME SyncInv, OrderInv, ShownInv, NEW t \in Tab, StartCycle(t)
  PROVE  ShownInv'
<1>1. PICK d \in Device : d = DeviceOf[t]
  BY SyncAssumption
<1>2. PICK ops : ops = Ready(store[d])
  OBVIOUS
<1>3. PICK y : y = IF ops = <<>> THEN [at |-> "pull"]
                  ELSE [at |-> "push", ops |-> ops, epoch |-> Here(t).epoch]
  OBVIOUS
<1>4. cycle' = [cycle EXCEPT ![t] = y] /\ UNCHANGED <<store, choosing, issued, overtaken>>
  BY <1>1, <1>2, <1>3 DEF StartCycle, Moves, Here, history
<1>5. CASE ops = <<>>
  <2>1. y.at \notin {"push", "results"}
    BY <1>3, <1>5
  <2> QED
    BY <1>4, <2>1, CycleShown
<1>6. CASE ops # <<>>
  <2>1. y.at = "push" /\ y.ops = ops
    BY <1>3, <1>6
  <2>2. DOMAIN cycle = Tab /\ StoreType(store[d], d) /\ Lined(store[d])
    BY DEF SyncInv, Hands, Kept, StoreOk, OrderInv
  <2>3. Fits(store[d], ops)
    BY <1>2, <2>2, ReadyFits
  <2>4. Fitting(t)'
    <3>1. cycle'[t] = y /\ store'[DeviceOf[t]] = store[d]
      BY <1>1, <1>4, <2>2
    <3> QED
      BY <2>1, <2>3, <3>1 DEF Fitting
  <2>5. \A u \in Tab : cycle'[u] = cycle[u] \/ Fitting(u)'
    <3>1. ASSUME NEW u \in Tab, u # t PROVE cycle'[u] = cycle[u]
      BY <1>4, <2>2, <3>1
    <3> QED
      BY <2>4, <3>1
  <2>6. ASSUME NEW b \in Device PROVE Resting(b)'
    BY <1>4 DEF ShownInv, Seen, Resting
  <2> QED
    BY <1>4, <2>5, <2>6, StoresShown
<1> QED
  BY <1>5, <1>6

\* The server answers it.
LEMMA ServerPushShown ==
  ASSUME SyncInv, OrderInv, ShownInv, NEW t \in Tab, ServerPush(t)
  PROVE  ShownInv'
<1>1. PICK ops : ops = cycle[t].ops
  OBVIOUS
<1>2. PICK d : d = db
  OBVIOUS
<1>3. PICK results : results = Push(d, ops).results
  OBVIOUS
<1>4. PICK y : y = [at |-> "results", ops |-> ops, results |-> results]
  OBVIOUS
<1>5. /\ cycle[t].at = "push" /\ UNCHANGED <<store, choosing, issued, overtaken>>
      /\ \/ cycle' = [cycle EXCEPT ![t] = y]
         \/ cycle' = [cycle EXCEPT ![t] = [at |-> "control"]]
  BY <1>1, <1>2, <1>3, <1>4 DEF ServerPush, Moves, history
<1>6. CASE cycle' = [cycle EXCEPT ![t] = [at |-> "control"]]
  <2>1. PICK z : z = [at |-> "control"]
    OBVIOUS
  <2>2. z.at \notin {"push", "results"} /\ cycle' = [cycle EXCEPT ![t] = z]
    BY <1>6, <2>1
  <2> QED
    BY <1>5, <2>2, CycleShown
<1>7. CASE cycle' = [cycle EXCEPT ![t] = y]
  <2>1. y.at = "results" /\ y.ops = ops /\ y.results = results
    BY <1>4
  <2>2. DOMAIN cycle = Tab /\ DbInv(d)
    BY <1>2 DEF SyncInv, Hands, Kept, Recorded
  <2>3. ops \in Seq(Operation)
    BY <1>1, <1>5 DEF SyncInv, Hands, Hand, Batch
  <2>4. PICK s : s = store[DeviceOf[t]]
    OBVIOUS
  <2>5. Fits(s, ops)
    BY <1>1, <1>5, <2>4 DEF ShownInv, Fitting
  <2>6. Told(ops, results, Len(ops))
    <3>1. \A k, j \in DOMAIN ops : ops[k].id = ops[j].id => k = j
      BY <2>5 DEF Fits
    <3> QED
      BY <1>3, <2>2, <2>3, <3>1, PushTells
  <2>7. Fitting(t)'
    <3>1. cycle'[t] = y /\ store'[DeviceOf[t]] = s
      BY <1>5, <1>7, <2>2, <2>4
    <3> QED
      BY <2>1, <2>5, <2>6, <3>1 DEF Fitting
  <2>8. \A u \in Tab : cycle'[u] = cycle[u] \/ Fitting(u)'
    <3>1. ASSUME NEW u \in Tab, u # t PROVE cycle'[u] = cycle[u]
      BY <1>7, <2>2, <3>1
    <3> QED
      BY <2>7, <3>1
  <2>9. ASSUME NEW b \in Device PROVE Resting(b)'
    BY <1>5 DEF ShownInv, Seen, Resting
  <2> QED
    BY <1>5, <2>8, <2>9, StoresShown
<1> QED
  BY <1>5, <1>6, <1>7

-----------------------------------------------------------------------------
(* The theorem.                                                            *)

LEMMA InitShown == Init => ShownInv
<1> SUFFICES ASSUME Init PROVE ShownInv
  OBVIOUS
<1>1. ASSUME NEW d \in Device PROVE Seen(d)
  <2>1. /\ store[d].outbox = <<>> /\ store[d].conflicts = <<>> /\ choosing[d] = None
        /\ \A e \in Entity : store[d].entity[e] = Absent
    BY DEF Init, EmptyStore
  <2>2. ASSUME NEW e \in Entity PROVE Tidy(store[d], e, overtaken)
    <3>1. Related(store[d], e) = {}
      BY <2>1 DEF Related
    <3>2. Standing(store[d], e, overtaken) = {}
      BY <3>1 DEF Standing
    <3>3. Ranked(store[d], e, overtaken)
      BY <3>1 DEF Ranked
    <3> QED
      BY <3>2, <3>3 DEF Tidy, Chained, InView, Waits
  <2>3. Rested(store[d], DOMAIN issued)
    BY <2>1 DEF Rested
  <2> QED
    BY <2>1, <2>2, <2>3 DEF Seen, Neat, Resting
<1>2. overtaken \subseteq DOMAIN issued
  BY DEF Init
<1>3. \A t \in Tab : Fitting(t)
  BY DEF Init, Fitting, Idle
<1> QED
  BY <1>1, <1>2, <1>3 DEF ShownInv

LEMMA ShownKeeps ==
  ASSUME OneTab, SyncInv, OrderInv, ShownInv, [Next]_vars
  PROVE  ShownInv'
<1>1. CASE User
  <2>1. ASSUME NEW d \in Device, NEW e \in Entity, NEW type \in Edits, Edit(d, e, type)
        PROVE  ShownInv'
    BY <2>1, EditShown
  <2>2. ASSUME NEW d \in Device, NEW c \in DOMAIN store[d].conflicts,
               NEW choice \in ResolutionChoices, ChooseResolution(d, c, choice)
        PROVE  ShownInv'
    <3>1. PICK x : x = c
      OBVIOUS
    <3> QED
      BY <2>2, <3>1, ChooseResolutionShown
  <2>3. ASSUME NEW d \in Device, NEW c \in DOMAIN store[d].conflicts, DismissConflict(d, c)
        PROVE  ShownInv'
    BY <2>3, DismissConflictShown
  <2>4. ASSUME NEW d \in Device, CommitResolution(d)
        PROVE  ShownInv'
    BY <2>4, CommitResolutionShown
  <2> QED
    BY <1>1, <2>1, <2>2, <2>3, <2>4 DEF User
<1>2. ASSUME NEW t \in Tab, Step(t)
      PROVE  ShownInv'
  BY <1>2, RequestBootstrapShown, ActivateSnapshotShown, StartCycleShown, ServerPushShown,
     ReceiveResultsShown, ReceiveControlShown, RequestPageShown, ReceivePageShown DEF Step
<1>3. ASSUME UNCHANGED <<store, choosing, issued, overtaken>>, UNCHANGED cycle
      PROVE  ShownInv'
  <2>1. ASSUME NEW b \in Device PROVE Resting(b)'
    BY <1>3 DEF ShownInv, Seen, Resting
  <2> QED
    BY <1>3, <2>1, StoresShown
<1>4. CASE Fault
  <2>1. ASSUME NEW t \in Tab, Abandon(t) PROVE ShownInv'
    BY <2>1, AbandonShown
  <2>2. ASSUME NEW m \in late, LatePush(m) PROVE ShownInv'
    BY <1>3, <2>2 DEF LatePush, history
  <2> QED
    BY <1>4, <2>1, <2>2 DEF Fault
<1>5. CASE Server \/ UNCHANGED vars
  <2>1. UNCHANGED <<store, choosing, issued, overtaken>> /\ UNCHANGED cycle
    BY <1>5 DEF Server, Lifecycle, TakeBackup, RestoreBackup, history, vars
  <2> QED
    BY <1>3, <2>1
<1> QED
  BY <1>1, <1>2, <1>4, <1>5 DEF Next

\* The last operation that waits is the last of those that stand.
LEMMA NeatIsShown ==
  ASSUME NEW d \in Device, StoreType(store[d], d), Neat(store[d], overtaken), NEW e \in Entity
  PROVE  LET queued(i) == store[d].outbox[i]
             waiting == {i \in Related(store[d], e) :
                           queued(i).state # "isolated" /\ queued(i).op.id \notin overtaken}
             last == queued(CHOOSE i \in waiting : \A j \in waiting : j <= i)
             entity == store[d].entity[e]
         IN waiting # {} =>
              /\ entity.present /\ entity.status # "clean"
              /\ IF last.op.type = "delete"
                   THEN \/ entity.deleted \/ last.state # "pending"
                        \/ \E i \in Related(store[d], e) : queued(i).state = "blocked"
                   ELSE ~entity.deleted /\ entity.payload = last.op.payload
<1> DEFINE s == store[d]
           o == overtaken
           waiting == {i \in Related(s, e) :
                         s.outbox[i].state # "isolated" /\ s.outbox[i].op.id \notin o}
           i == CHOOSE x \in waiting : \A j \in waiting : j <= x
<1> SUFFICES ASSUME waiting # {}
             PROVE  s.entity[e].present /\ s.entity[e].status # "clean" /\ Shows(s, e, i)
  BY DEF Shows
<1>1. /\ DOMAIN s.outbox = 1..Len(s.outbox) /\ Len(s.outbox) \in Nat
      /\ waiting \subseteq Related(s, e) /\ Related(s, e) \subseteq DOMAIN s.outbox
      /\ Standing(s, e, o) \subseteq Related(s, e)
  BY RowsAreNumbers DEF Related, Standing
<1>2. \A j \in waiting : j \in Standing(s, e, o) /\ s.outbox[j].state # "isolated"
  BY DEF Standing
<1>3. \A j \in Standing(s, e, o) : s.outbox[j].state # "isolated" => j \in waiting
  BY DEF Standing
<1>4. Tidy(s, e, o)
  BY DEF Neat
<1> HIDE DEF waiting, s, o
<1>5. \E x \in waiting : \A j \in waiting : j <= x
  <2>1. waiting \in SUBSET (1..Len(s.outbox))
    BY <1>1
  <2> QED
    BY <1>1, <2>1, GreatestNumber
<1>6. i \in waiting /\ \A j \in waiting : j <= i
  BY <1>5
<1> HIDE DEF i
<1>7. ASSUME NEW j \in Standing(s, e, o) PROVE j <= i
  <2>1. j \in Nat /\ i \in Nat
    BY <1>1, <1>6
  <2>2. ASSUME i < j PROVE FALSE
    <3>1. s.outbox[j].state # "isolated"
      BY <1>1, <1>2, <1>4, <1>6, <2>2 DEF Tidy, Ranked
    <3>2. j <= i
      BY <1>3, <1>6, <3>1
    <3> QED
      BY <2>1, <2>2, <3>2
  <2> QED
    BY <2>1, <2>2
<1>8. Waits(s, e, o) /\ i \in Standing(s, e, o)
  BY <1>2, <1>6 DEF Waits
<1> QED
  BY <1>4, <1>7, <1>8 DEF Tidy, InView

\* The inductive invariant: in every store the queue of every entity is tidy,
\* what a conflict or a resolution in preparation comes from rests, and the
\* batch a cycle has in its hands fits the store it is for.
THEOREM ShownInvariance ==
  ASSUME OneTab
  PROVE  Spec => []ShownInv
<1>1. SyncInv /\ OrderInv /\ ShownInv /\ [Next]_vars => ShownInv'
  BY ShownKeeps
<1> QED
  BY <1>1, InitShown, SyncInvariance, OrderInvariance, PTL DEF Spec

\* With one tab per device, while anything of an entity waits to be sent or
\* decided the entity shows the last of it: neither a page, nor an answer to an
\* earlier edit, nor a bootstrap puts the server's content in its place.
THEOREM OneTabShowsWork ==
  ASSUME OneTab
  PROVE  Spec => []QueuedWorkIsShown
<1>1. SyncInv /\ ShownInv => QueuedWorkIsShown
  <2> SUFFICES ASSUME SyncInv, ShownInv, NEW d \in Device, NEW e \in Entity
               PROVE  LET queued(i) == store[d].outbox[i]
                          waiting == {i \in Related(store[d], e) :
                                        queued(i).state # "isolated" /\ queued(i).op.id \notin overtaken}
                          last == queued(CHOOSE i \in waiting : \A j \in waiting : j <= i)
                          entity == store[d].entity[e]
                      IN waiting # {} =>
                           /\ entity.present /\ entity.status # "clean"
                           /\ IF last.op.type = "delete"
                                THEN \/ entity.deleted \/ last.state # "pending"
                                     \/ \E i \in Related(store[d], e) : queued(i).state = "blocked"
                                ELSE ~entity.deleted /\ entity.payload = last.op.payload
    BY DEF QueuedWorkIsShown
  <2>1. StoreType(store[d], d) /\ Neat(store[d], overtaken)
    BY DEF SyncInv, Kept, StoreOk, ShownInv, Seen
  <2> QED
    BY <2>1, NeatIsShown
<1> QED
  BY <1>1, ShownInvariance, SyncInvariance, PTL
=============================================================================
