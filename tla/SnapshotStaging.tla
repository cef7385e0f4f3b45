--------------------------- MODULE SnapshotStaging ---------------------------
(***************************************************************************)
(* A replica's bootstrap in chunks: ensureBootstrap of the web shell asks  *)
(* for them one by one (app-operational-tools.tsx), the server computes    *)
(* the snapshot anew for each (sync/read.py), BootstrapRepository stages   *)
(* and activates it (packages/offline/src/bootstrap.ts).                   *)
(*                                                                         *)
(* A snapshot is its identity: epoch, last_sequence, and a revision that   *)
(* stands for what rows hold beside the ledger.  created_at of a manifest  *)
(* moves with last_sequence only (sync/service.py), so it adds nothing.    *)
(* SyncV1 has what pending entities go through; here an activation is      *)
(* about the clean ones.                                                   *)
(***************************************************************************)
EXTENDS Naturals, FiniteSets

CONSTANTS
  StoreTab,      \* tabs over one IndexedDB
  Devices,       \* bound: devices the account had on this browser, 1 .. Devices
  Chunks,        \* chunks of every snapshot
  MaxMoves,      \* bound: writes, restores and new devices
  MaxClosed      \* bound: tabs closed in the middle

VARIABLES
  origin,     \* the snapshot the server would answer now
  device,     \* the device of the browser's session
  replica,    \* syncState: device, epoch, cursor, bootstrap_state
  manifests,  \* bootstrapManifests with their bootstrapRecords, per snapshot
  held,       \* per chunk: the snapshot its clean entities are from
  outboxOf,   \* outbox: device of each operation, still a create never sent, isolated
  strap,      \* per tab: its step in ensureBootstrap, the answer it holds
  moves,      \* history: bounded moves so far
  closed      \* history: tabs closed in the middle so far
stagingVars == <<origin, device, replica, manifests, held, outboxOf, strap, moves, closed>>
world == <<origin, device, moves, closed>>
local == <<replica, manifests, held, outboxOf>>

ASSUME StagingConstants ==
  Devices \in Nat \ {0} /\ Chunks \in Nat \ {0} /\ MaxMoves \in Nat /\ MaxClosed \in Nat

NoStore == [device |-> 0, epoch |-> 0, cursor |-> 0, state |-> "none"]
NoSnapshot == [epoch |-> 0, head |-> 0, rev |-> 0]
Closed == [step |-> "idle", device |-> 0, snap |-> NoSnapshot, chunk |-> 0, asked |-> NoSnapshot]

StagingInit ==
  /\ origin = [epoch |-> 1, head |-> 0, rev |-> 0]
  /\ device = 1
  /\ replica = NoStore /\ manifests = {}
  /\ held = [c \in 1..Chunks |-> NoSnapshot]
  /\ outboxOf = {}
  /\ strap = [t \in StoreTab |-> Closed]
  /\ moves = 0 /\ closed = 0

-----------------------------------------------------------------------------
(* ensureBootstrap.                                                        *)

ReplicaReady == replica.state = "ready" /\ replica.device = device
Sets(t, value) == strap' = [strap EXCEPT ![t] = value]

BeginBootstrap(t) ==
  /\ strap[t] = Closed /\ ~ReplicaReady
  /\ Sets(t, [Closed EXCEPT !.step = "first", !.device = device])
  /\ UNCHANGED <<world, local>>

\* The first answer names the snapshot; the later requests ask for it, and
\* the server refuses when it would answer another one (SYNC_SNAPSHOT_STALE).
Stale(t) == strap[t].step = "next" /\ strap[t].asked # origin
FetchChunk(t) ==
  /\ strap[t].step \in {"first", "next"}
  /\ IF Stale(t) \/ strap[t].device # device THEN Sets(t, Closed)
     ELSE Sets(t, [strap[t] EXCEPT !.step = IF @ = "first" THEN "prepare" ELSE "stage",
                                   !.snap = origin, !.chunk = @ + 1, !.asked = origin])
  /\ UNCHANGED <<world, local>>

\* prepareDeviceRebootstrap: the store of another device is taken over only
\* when nothing in it was sent, staged or left open by that device.
Adoptable(t) ==
  /\ replica.state = "ready" /\ replica.epoch = strap[t].snap.epoch
  /\ \A op \in outboxOf : op.device = strap[t].device /\ op.fresh
  /\ \A m \in manifests : m.complete

PrepareDevice(t) ==
  /\ strap[t].step = "prepare"
  /\ IF replica.device \in {0, strap[t].device}
     THEN Sets(t, [strap[t] EXCEPT !.step = "stage"]) /\ UNCHANGED local
     ELSE IF Adoptable(t)
     THEN /\ manifests' = {}
          /\ replica' = [replica EXCEPT !.device = strap[t].device, !.cursor = 0,
                                        !.state = "rebootstrap_required"]
          /\ Sets(t, [strap[t] EXCEPT !.step = "stage"])
          /\ UNCHANGED <<held, outboxOf>>
     ELSE Sets(t, Closed) /\ UNCHANGED local
  /\ UNCHANGED world

-----------------------------------------------------------------------------
(* persistVerifiedChunk, one transaction.                                  *)

\* A chunk is refused beside the staging of another snapshot.
Admissible(t) ==
  /\ replica.device \in {0, strap[t].device}
  /\ \A m \in manifests : m.device = strap[t].device /\ (m.snap = strap[t].snap \/ m.complete)

Previous(snap) == {m \in manifests : m.snap = snap}

Received(t) == {strap[t].chunk} \cup UNION {m.got : m \in Previous(strap[t].snap)}
From(t) ==
  [c \in 1..Chunks |->
     IF c = strap[t].chunk THEN strap[t].snap
     ELSE (CHOOSE m \in Previous(strap[t].snap) : TRUE).from[c]]

\* Mutant: the cursor is the one that was there, when there was one.
ActivatedAtCursor(t) ==
  /\ held' = From(t)
  /\ replica' = [device |-> strap[t].device, epoch |-> strap[t].snap.epoch, state |-> "ready",
                 cursor |-> IF replica.cursor > strap[t].snap.head
                            THEN replica.cursor ELSE strap[t].snap.head]
  /\ outboxOf' = IF replica.epoch \in {0, strap[t].snap.epoch} THEN outboxOf
                 ELSE {[op EXCEPT !.isolated = TRUE] : op \in outboxOf}
  /\ manifests' = {[snap |-> strap[t].snap, device |-> strap[t].device, complete |-> TRUE,
                    got |-> 1..Chunks, from |-> From(t)]}
\* Mutant: the replica stays as it was.
ActivatedUnready(t) ==
  /\ held' = From(t)
  /\ manifests' = {[snap |-> strap[t].snap, device |-> strap[t].device, complete |-> TRUE,
                    got |-> 1..Chunks, from |-> From(t)]}
  /\ UNCHANGED <<replica, outboxOf>>
\* The last chunk activates: the clean entities, the cursor and the epoch are
\* replaced together, and work of another epoch is isolated.
Activated(t) ==
  /\ held' = From(t)
  /\ replica' = [device |-> strap[t].device, epoch |-> strap[t].snap.epoch,
                 cursor |-> strap[t].snap.head, state |-> "ready"]
  /\ outboxOf' = IF replica.epoch \in {0, strap[t].snap.epoch} THEN outboxOf
                 ELSE {[op EXCEPT !.isolated = TRUE] : op \in outboxOf}
  /\ manifests' = {[snap |-> strap[t].snap, device |-> strap[t].device, complete |-> TRUE,
                    got |-> 1..Chunks, from |-> From(t)]}

Staged(t) ==
  /\ manifests' = (manifests \ Previous(strap[t].snap)) \cup
       {[snap |-> strap[t].snap, device |-> strap[t].device, complete |-> FALSE,
         got |-> Received(t),
         from |-> [c \in 1..Chunks |-> IF c \in Received(t) THEN From(t)[c] ELSE NoSnapshot]]}
  /\ UNCHANGED <<replica, held, outboxOf>>

Replayed(t) == \E m \in Previous(strap[t].snap) : strap[t].chunk \in m.got
\* An operation of another device fails the transaction.
ForeignWork(t) == \E op \in outboxOf : op.device # strap[t].device

LastChunk(t) == strap[t].chunk = Chunks
StageChunk(t) ==
  LET next == IF LastChunk(t) THEN Closed ELSE [strap[t] EXCEPT !.step = "next"]
  IN /\ strap[t].step = "stage"
     /\ CASE ~Admissible(t) -> Sets(t, Closed) /\ UNCHANGED local
          [] Admissible(t) /\ Replayed(t) -> Sets(t, next) /\ UNCHANGED local
          [] Admissible(t) /\ ~Replayed(t) /\ Received(t) # 1..Chunks ->
               Sets(t, next) /\ Staged(t)
          [] OTHER -> IF ForeignWork(t) THEN Sets(t, Closed) /\ UNCHANGED local
                      ELSE Sets(t, next) /\ Activated(t)
     /\ UNCHANGED world

\* discardStaging has no caller outside the tests.

-----------------------------------------------------------------------------
(* Around it.                                                              *)

CloseStoreTab(t) ==
  /\ strap[t] # Closed /\ closed < MaxClosed /\ closed' = closed + 1
  /\ Sets(t, Closed)
  /\ UNCHANGED <<origin, device, moves, local>>

\* A pull brings the ledger of the epoch up to its head.
Pull ==
  /\ ReplicaReady /\ replica.epoch = origin.epoch /\ replica.cursor < origin.head
  /\ replica' = [replica EXCEPT !.cursor = origin.head]
  /\ held' = [c \in 1..Chunks |-> origin]
  /\ UNCHANGED <<world, manifests, outboxOf, strap>>

\* The server answers that the epoch is another one, or the cursor too old.
MustBootstrap ==
  /\ ReplicaReady /\ (replica.epoch # origin.epoch \/ replica.cursor < origin.head)
  /\ replica' = [replica EXCEPT !.state = "rebootstrap_required"]
  /\ UNCHANGED <<world, manifests, held, outboxOf, strap>>

\* Work is queued by the device of the session, ready or not; a push tries it.
QueueWork ==
  /\ replica.device # 0 /\ \A op \in outboxOf : op.device # device
  /\ outboxOf' = outboxOf \cup {[device |-> device, fresh |-> TRUE, isolated |-> FALSE]}
  /\ UNCHANGED <<world, replica, manifests, held, strap>>
SendWork ==
  /\ ReplicaReady
  /\ \E op \in outboxOf :
       /\ op.fresh /\ ~op.isolated /\ op.device = device
       /\ outboxOf' \in {outboxOf \ {op}, (outboxOf \ {op}) \cup {[op EXCEPT !.fresh = FALSE]}}
  /\ UNCHANGED <<world, replica, manifests, held, strap>>

Move == moves < MaxMoves /\ moves' = moves + 1 /\ UNCHANGED <<closed, local, strap>>
LedgerWrite == Move /\ origin' = [origin EXCEPT !.head = @ + 1] /\ UNCHANGED device
RowWrite == Move /\ origin' = [origin EXCEPT !.rev = @ + 1] /\ UNCHANGED device
RestoreOrigin ==
  /\ Move /\ UNCHANGED device
  /\ \E h \in 0..origin.head : origin' = [origin EXCEPT !.epoch = @ + 1, !.head = h]
SignInAgain == Move /\ device < Devices /\ device' = device + 1 /\ UNCHANGED origin

Bootstrapping(t) == BeginBootstrap(t) \/ FetchChunk(t) \/ PrepareDevice(t) \/ StageChunk(t)
StagingNext ==
  \/ \E t \in StoreTab : Bootstrapping(t) \/ CloseStoreTab(t)
  \/ Pull \/ MustBootstrap \/ QueueWork \/ SendWork
  \/ LedgerWrite \/ RowWrite \/ RestoreOrigin \/ SignInAgain

StagingSpec == StagingInit /\ [][StagingNext]_stagingVars
\* The user keeps asking for a synchronisation.
StagingFairness == \A t \in StoreTab : WF_stagingVars(Bootstrapping(t))

-----------------------------------------------------------------------------
(* Properties.                                                             *)

\* Every variable has its type.
StagingTypeOK ==
  /\ device \in 1..Devices /\ replica.device \in 0..Devices
  /\ replica.state \in {"none", "ready", "rebootstrap_required"}
  /\ \A m \in manifests : m.device \in 1..Devices /\ m.got \subseteq 1..Chunks /\ m.got # {}
  /\ \A t \in StoreTab :
       /\ strap[t].step \in {"idle", "first", "prepare", "stage", "next"}
       /\ strap[t].chunk \in 0..Chunks

\* What a ready replica holds is one snapshot, the one of its cursor and
\* epoch: chunks of two snapshots are never activated together, whatever
\* tabs staged them and however the server moved between two chunks
\* (docs/sync/sync-pull-bootstrap.md: no mixed version is activated).
HeldIsOneSnapshot ==
  replica.state = "ready" =>
    /\ \A c \in 1..Chunks : held[c] = held[1]
    /\ held[1].epoch = replica.epoch /\ held[1].head = replica.cursor

\* Only one snapshot is being staged, and a complete one is remembered for
\* the device and epoch of the store.
OneStaging ==
  /\ Cardinality({m \in manifests : ~m.complete}) <= 1
  /\ \A m \in manifests :
       m.complete => m.device = replica.device /\ m.snap.epoch = replica.epoch

\* The work queued in a store that is taken over by another device was not
\* that of the earlier one, so nothing is ever pushed under another name.
WorkKeepsItsDevice ==
  replica.device # 0 => \A op \in outboxOf : op.device = replica.device \/ replica.device # device

\* A bootstrap in one snapshot, started anew, is accepted by the store:
\* nothing that an interrupted one left is in its way
\* (docs/offline/indexeddb-v2-bootstrap.md: the caller discards the old
\* staging when the server issues another snapshot).
RestartIsAccepted ==
  \A t \in StoreTab :
    strap[t].step = "stage" /\ strap[t].device = device /\ strap[t].snap = origin
      => \A m \in manifests : m.snap = origin \/ m.complete

\* With users that keep synchronising, the replica is ready again and again,
\* unless the staging of an older snapshot, or another device's store, is in
\* the way.
BootstrapEnds ==
  []<>(\/ ReplicaReady
       \/ \E m \in manifests : ~m.complete /\ (m.snap # origin \/ m.device # device)
       \/ replica.device # device /\ replica.device # 0)

\* A replica is one snapshot of one device's server.
ReplicaIsOneSnapshot == HeldIsOneSnapshot /\ OneStaging /\ WorkKeepsItsDevice
=============================================================================
