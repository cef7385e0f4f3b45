------------------------------ MODULE AgentRuns ------------------------------
(***************************************************************************)
(* scripts/agent-state.mjs init: processes that create a coordination Run  *)
(* under one runs root, each step one file-system call, and the recovery   *)
(* of what a process that died left behind.                                *)
(*                                                                         *)
(* A process stands for its transaction too: its directory .transaction-p, *)
(* its .staging-p, its .orphan-p, its pointer temp file.  0 is "none".     *)
(***************************************************************************)
EXTENDS Naturals, FiniteSets

CONSTANTS
  Initializer,   \* processes, each runs init once
  RunOf,         \* the run ID a process was started with
  MaxCrashes     \* bound: processes that die

VARIABLES
  at,        \* per process: its next step
  tx,        \* per process: its transaction directory
  stage,     \* per process: its staging Run
  orphan,    \* per process: a Run claimed for removal
  temp,      \* processes whose pointer temp file exists
  run,       \* per run ID: who published the Run, and what became of it
  pointer,   \* whose Run current-run.json names
  lock,      \* .agent-state-init.lock: its maker, its owner file, its age
  undone,    \* per process: whose transaction it recovers
  committed, \* history: processes whose pointer was published
  cuts       \* history: crashes, and whether recovery may lack its evidence:
             \* a crash or a failed call cut a write or a removal in two
agentHistory == <<committed, cuts>>
agentVars == <<at, tx, stage, orphan, temp, run, pointer, lock, undone, agentHistory>>
disk == <<tx, stage, orphan, temp, run, pointer>>

ASSUME AgentConstants == MaxCrashes \in Nat /\ 0 \notin Initializer

Ended == {"done", "failed", "review", "dead"}
RunIds == {RunOf[p] : p \in Initializer}
NoTx == [exists |-> FALSE, intent |-> "none", manifest |-> "none"]
NewTx == [NoTx EXCEPT !.exists = TRUE]
NoRun == [by |-> 0, state |-> "none"]
NoLock == [maker |-> 0, owner |-> 0, aged |-> FALSE]

AgentInit ==
  /\ at = [p \in Initializer |-> "start"]
  /\ tx = [p \in Initializer |-> NoTx]
  /\ stage = [p \in Initializer |-> "none"] /\ orphan = [p \in Initializer |-> "none"]
  /\ temp = {} /\ run = [r \in RunIds |-> NoRun] /\ pointer = 0
  /\ lock = NoLock
  /\ undone = [p \in Initializer |-> 0]
  /\ committed = {} /\ cuts = [crashes |-> 0, unproven |-> FALSE]

Writes(p, file, value) == tx' = [tx EXCEPT ![p][file] = value]
Goes(p, from, to) == at[p] = from /\ at' = [at EXCEPT ![p] = to]

-----------------------------------------------------------------------------
(* acquireInitializationLock.                                              *)

MakeLock(p) ==
  /\ lock = NoLock
  /\ lock' = [NoLock EXCEPT !.maker = p]
  /\ Goes(p, "start", "own") \/ Goes(p, "retry", "own")
  /\ UNCHANGED <<disk, undone, agentHistory>>

\* owner.json is written with O_EXCL; if the directory is gone or has an
\* owner, the maker removes whatever lock there is.
OwnLock(p) ==
  /\ IF lock.maker # 0 /\ lock.owner = 0
     THEN lock' = [lock EXCEPT !.owner = p] /\ Goes(p, "own", "recover")
     ELSE lock' = NoLock /\ Goes(p, "own", "failed")
  /\ UNCHANGED <<disk, undone, agentHistory>>

\* The owner is alive, or the lock has no owner yet and is younger than 5 s.
LockHeld == IF lock.owner = 0 THEN ~lock.aged ELSE at[lock.owner] \notin Ended
MeetLock(p) ==
  /\ lock # NoLock
  /\ \/ Goes(p, "start", IF LockHeld THEN "failed" ELSE "break")
     \/ Goes(p, "retry", IF LockHeld THEN "failed" ELSE "lastbreak")
  /\ UNCHANGED <<disk, lock, undone, agentHistory>>

\* The dead lock is removed without another look at it; a second one, and
\* init gives up.
BreakLock(p) ==
  /\ lock' = NoLock
  /\ Goes(p, "break", "retry") \/ Goes(p, "lastbreak", "failed")
  /\ UNCHANGED <<disk, undone, agentHistory>>

LockAges ==
  /\ lock # NoLock /\ lock.owner = 0 /\ ~lock.aged
  /\ lock' = [lock EXCEPT !.aged = TRUE]
  /\ UNCHANGED <<at, disk, undone, agentHistory>>

-----------------------------------------------------------------------------
(* Recovery of transaction q: recoverInitializationTransactions, and the   *)
(* catch block of initializeRun for a process' own transaction.            *)

Transactions == {q \in Initializer : tx[q].exists}
Owned(q) ==
  {place \in {"stage", "run", "orphan"} :
     CASE place = "stage" -> stage[q] # "none"
       [] place = "run" -> run[RunOf[q]].by # 0
       [] OTHER -> orphan[q] # "none"}
Matches(q, place) ==
  CASE place = "stage" -> stage[q] = "whole"
    [] place = "run" -> run[RunOf[q]] = [by |-> q, state |-> "whole"]
    [] OTHER -> orphan[q] = "whole"

\* recoverTransaction: the pointer was published, or the one directory the
\* manifest proves to be the transaction's is removed.
Committed(q) == pointer = q
Recoverable(q) ==
  IF Committed(q) THEN Matches(q, "run")
  ELSE /\ pointer = 0 \/ RunOf[pointer] # RunOf[q]
       /\ Cardinality(Owned(q)) <= 1
       /\ \A place \in Owned(q) : Matches(q, place)

\* discardUnmanifestedTransaction.
Discardable(q) == q \notin temp /\ Owned(q) \subseteq {"stage"}

\* Mutant: what was committed is rolled back.
NothingOwned(q) == Owned(q) = {}
NothingToUndo(q) == Committed(q) \/ Owned(q) = {}

Unmanifested(q) ==
  IF ~Discardable(q) THEN "review" ELSE IF stage[q] = "none" THEN "rmtx" ELSE "claim"

\* What the next step about transaction q is.
Judged(q) ==
  IF tx[q].intent = "none" /\ tx[q].manifest = "none"
  THEN IF stage[q] = "none" /\ orphan[q] = "none" THEN "rmtx" ELSE "review"
  ELSE IF tx[q].intent # "whole" \/ tx[q].manifest = "torn" THEN "review"
  ELSE IF tx[q].manifest = "none" THEN Unmanifested(q)
  ELSE IF ~Recoverable(q) THEN "review"
  ELSE IF NothingToUndo(q) THEN "rmtemp"
  ELSE IF "orphan" \in Owned(q) THEN "rmrun" ELSE "claim"

Recover(p) ==
  /\ IF Transactions = {} THEN Goes(p, "recover", "check") /\ UNCHANGED undone
     ELSE IF Cardinality(Transactions) > 1
     THEN Goes(p, "recover", "stuck") /\ UNCHANGED undone
     ELSE \E q \in Transactions :
            LET next == Judged(q)
            IN /\ Goes(p, "recover", IF next = "review" THEN "stuck" ELSE next)
               /\ undone' = [undone EXCEPT ![p] = q]
  /\ UNCHANGED <<disk, lock, agentHistory>>

\* initializeRun does not start over an existing Run or pointer.
Check(p) ==
  /\ Goes(p, "check", IF run[RunOf[p]].by # 0 \/ pointer # 0 THEN "giveup" ELSE "begin")
  /\ UNCHANGED <<disk, lock, undone, agentHistory>>

\* The Run is renamed to its orphan name, then removed in no particular order.
Claim(p) ==
  LET q == undone[p]
  IN /\ at[p] = "claim"
     /\ orphan' = [orphan EXCEPT ![q] = IF stage[q] # "none" THEN stage[q]
                                        ELSE run[RunOf[q]].state]
     /\ stage' = [stage EXCEPT ![q] = "none"]
     /\ run' = IF stage[q] # "none" THEN run ELSE [run EXCEPT ![RunOf[q]] = NoRun]
     /\ Goes(p, "claim", "rmrun")
     /\ UNCHANGED <<tx, temp, pointer, lock, undone, agentHistory>>

RemoveRun(p) ==
  LET q == undone[p]
  IN /\ \/ Goes(p, "rmrun", "rmrun2") /\ orphan' = [orphan EXCEPT ![q] = "partial"]
        \/ Goes(p, "rmrun2", "rmtemp") /\ orphan' = [orphan EXCEPT ![q] = "none"]
     /\ UNCHANGED <<tx, stage, temp, run, pointer, lock, undone, agentHistory>>

\* Mutant: the file stays.
RemoveTempNever(p) ==
  /\ Goes(p, "rmtemp", "rmtx")
  /\ UNCHANGED <<tx, stage, orphan, temp, run, pointer, lock, undone, agentHistory>>
RemoveTemp(p) ==
  /\ temp' = temp \ {undone[p]}
  /\ Goes(p, "rmtemp", "rmtx")
  /\ UNCHANGED <<tx, stage, orphan, run, pointer, lock, undone, agentHistory>>

\* The two files of the directory go in either order, then the directory.
RemoveTx(p) ==
  LET q == undone[p]
  IN /\ at[p] = "rmtx"
     /\ \/ \E file \in {"intent", "manifest"} :
             tx[q][file] # "none" /\ Writes(q, file, "none") /\ UNCHANGED at
        \/ /\ tx[q].intent = "none" /\ tx[q].manifest = "none"
           /\ tx' = [tx EXCEPT ![q] = NoTx]
           /\ Goes(p, "rmtx", IF q # p THEN "check"
                              ELSE IF p \in committed THEN "finish" ELSE "giveup")
     /\ UNCHANGED <<stage, orphan, temp, run, pointer, lock, undone, agentHistory>>

-----------------------------------------------------------------------------
(* initializeRun, from its own transaction directory to the pointer.       *)

RunStays == UNCHANGED <<run, pointer, lock, undone, agentHistory>>

MakeTx(p) ==
  /\ Goes(p, "begin", "intent")
  /\ tx' = [tx EXCEPT ![p] = NewTx]
  /\ UNCHANGED <<stage, orphan, temp>> /\ RunStays

\* A file exists from its creation and is whole when it has been synced.
WriteIntent(p) ==
  /\ tx[p].exists
  /\ \/ Goes(p, "intent", "intent2") /\ Writes(p, "intent", "torn")
     \/ Goes(p, "intent2", "stage") /\ Writes(p, "intent", "whole")
  /\ UNCHANGED <<stage, orphan, temp>> /\ RunStays

FillStage(p) ==
  /\ \/ Goes(p, "stage", "files") /\ stage' = [stage EXCEPT ![p] = "partial"]
     \/ /\ stage[p] = "partial"
        /\ Goes(p, "files", "manifest") /\ stage' = [stage EXCEPT ![p] = "whole"]
  /\ UNCHANGED <<tx, orphan, temp>> /\ RunStays

WriteManifest(p) ==
  /\ tx[p].exists /\ stage[p] = "whole"
  /\ \/ Goes(p, "manifest", "manifest2") /\ Writes(p, "manifest", "torn")
     \/ Goes(p, "manifest2", "publish") /\ Writes(p, "manifest", "whole")
  /\ UNCHANGED <<stage, orphan, temp>> /\ RunStays

PublishRun(p) ==
  /\ stage[p] = "whole" /\ run[RunOf[p]] = NoRun
  /\ Goes(p, "publish", "temp")
  /\ stage' = [stage EXCEPT ![p] = "none"]
  /\ run' = [run EXCEPT ![RunOf[p]] = [by |-> p, state |-> "whole"]]
  /\ UNCHANGED <<tx, orphan, temp, pointer, lock, undone, agentHistory>>

WriteTemp(p) ==
  /\ Goes(p, "temp", "link")
  /\ temp' = temp \cup {p}
  /\ UNCHANGED <<tx, stage, orphan>> /\ RunStays

\* The commit point: an exclusive hard link.
LinkPointer(p) ==
  /\ pointer = 0 /\ p \in temp
  /\ Goes(p, "link", "rmtemp")
  /\ pointer' = p /\ committed' = committed \cup {p}
  /\ undone' = [undone EXCEPT ![p] = p]
  /\ UNCHANGED <<tx, stage, orphan, temp, run, lock, cuts>>

\* A call fails.  The catch block removes the pointer's temp file and recovers
\* the process' own transaction: it reads no intent where there is no manifest,
\* and cannot read a manifest whose write has failed.
Creating == {"begin", "intent", "intent2", "stage", "files", "manifest", "manifest2",
             "publish", "temp", "link"}
CaughtAt(p) ==
  IF ~tx[p].exists THEN "giveup" ELSE IF tx[p].manifest = "none" THEN Unmanifested(p) ELSE Judged(p)
FailStep(p) ==
  /\ at[p] \in Creating
  /\ temp' = temp \ {p}
  /\ undone' = [undone EXCEPT ![p] = p]
  /\ at' = [at EXCEPT ![p] = IF CaughtAt(p) = "review" THEN "stuck" ELSE CaughtAt(p)]
  /\ cuts' = [cuts EXCEPT !.unproven = @ \/ at[p] = "manifest2"]
  /\ UNCHANGED <<tx, stage, orphan, run, pointer, lock, committed>>

\* A call of a recovery fails, or one that clears up behind the pointer and
\* then again in the catch block.  Init gives up and leaves what it would leave
\* if it died there.
Undoing == {"recover", "claim", "rmrun", "rmrun2", "rmtemp", "rmtx"}
Tears == {"intent2", "manifest2", "rmrun2", "rmtx"}
TornAt(p) == at[p] \in Tears \/ (at[p] = "rmrun" /\ tx[undone[p]].manifest = "none")
FailUndo(p) ==
  /\ at[p] \in Undoing
  /\ at' = [at EXCEPT ![p] = "giveup"]
  /\ cuts' = [cuts EXCEPT !.unproven = @ \/ TornAt(p)]
  /\ UNCHANGED <<disk, lock, undone, committed>>

\* The finally block removes whatever lock there is.
Unlock(p) ==
  /\ \/ Goes(p, "finish", "done") \/ Goes(p, "giveup", "failed") \/ Goes(p, "stuck", "review")
  /\ lock' = NoLock
  /\ UNCHANGED <<disk, undone, agentHistory>>

-----------------------------------------------------------------------------
(* Around it.                                                              *)

\* The process dies.  Inside a write or a removal it leaves what no manifest
\* proves; so does a claimed Run without a manifest.
Die(p) ==
  /\ at[p] \notin Ended \cup {"start"} /\ cuts.crashes < MaxCrashes
  /\ at' = [at EXCEPT ![p] = "dead"]
  /\ cuts' = [crashes |-> cuts.crashes + 1, unproven |-> cuts.unproven \/ TornAt(p)]
  /\ UNCHANGED <<disk, lock, undone, committed>>

\* The coordinator writes to the Run, then closes it and removes the pointer.
Meddles == cuts' = [cuts EXCEPT !.unproven = @ \/ tx[pointer].exists]
Work ==
  /\ pointer # 0 /\ run[RunOf[pointer]].state = "whole"
  /\ run' = [run EXCEPT ![RunOf[pointer]].state = "changed"]
  /\ Meddles
  /\ UNCHANGED <<at, tx, stage, orphan, temp, pointer, lock, undone, committed>>
CloseRun ==
  /\ pointer # 0 /\ pointer' = 0
  /\ Meddles
  /\ UNCHANGED <<at, tx, stage, orphan, temp, run, lock, undone, committed>>

-----------------------------------------------------------------------------
Locking(p) == MakeLock(p) \/ OwnLock(p) \/ MeetLock(p) \/ BreakLock(p) \/ Unlock(p)
Recovering(p) ==
  \/ Recover(p) \/ Check(p) \/ Claim(p) \/ RemoveRun(p) \/ RemoveTemp(p) \/ RemoveTx(p)
  \/ FailUndo(p)
Initializing(p) ==
  \/ MakeTx(p) \/ WriteIntent(p) \/ FillStage(p) \/ WriteManifest(p)
  \/ PublishRun(p) \/ WriteTemp(p) \/ LinkPointer(p) \/ FailStep(p)

AgentNext ==
  \/ \E p \in Initializer : Locking(p) \/ Recovering(p) \/ Initializing(p) \/ Die(p)
  \/ LockAges \/ Work \/ CloseRun

AgentSpec == AgentInit /\ [][AgentNext]_agentVars

\* A lock that is about to be broken is broken before another process moves,
\* and a maker that has not yet written its owner file is not taken for dead.
LockAssumptions ==
  /\ \A p \in Initializer : at[p] \in {"break", "lastbreak"} => \A q \in Initializer \ {p} : at'[q] = at[q]
  /\ lock'.aged => at[lock'.maker] \in Ended
CarefulSpec == AgentInit /\ [][AgentNext /\ LockAssumptions]_agentVars

-----------------------------------------------------------------------------
(* Properties.                                                             *)

Holding == {p \in Initializer : at[p] \notin Ended \cup {"start", "retry", "own", "break", "lastbreak"}}

\* Every step and file has its type, and a pointer temp file its transaction.
AgentTypeOK ==
  /\ \A p \in Initializer :
       /\ tx[p] \in [exists : BOOLEAN, intent : {"none", "torn", "whole"},
                     manifest : {"none", "torn", "whole"}]
       /\ {stage[p], orphan[p]} \subseteq {"none", "partial", "whole", "changed"}
       /\ undone[p] \in Initializer \cup {0}
  /\ temp \subseteq {p \in Initializer : tx[p].exists}
  /\ pointer \in Initializer \cup {0}
  /\ \A r \in RunIds : run[r] \in [by : Initializer \cup {0}, state : {"none", "whole", "changed"}]

\* The lock is exclusive: one process at a time works on the runs root
\* (docs/development/AGENT_STATE_MODEL.md, the exclusive lock of init).
OneHolder == Cardinality(Holding) <= 1

\* The pointer names a Run that was published whole and is still there: the
\* link is the commit point, whatever crashed before it or recovers after it.
PointerNamesRun ==
  pointer # 0 => /\ run[RunOf[pointer]].by = pointer
                 /\ run[RunOf[pointer]].state \in {"whole", "changed"}

\* A process starts its own transaction on a clean root: every Run whose
\* pointer was never published has been rolled back, with all it left.
StartsClean ==
  \A p \in Initializer : at[p] = "begin" =>
    /\ Transactions = {} /\ temp = {}
    /\ \A q \in Initializer : stage[q] = "none" /\ orphan[q] = "none"
    /\ \A r \in RunIds : run[r].by # 0 => run[r].by \in committed

\* Recovery asks for a review only when a crash or a failed call cut a write or
\* a removal in two, or the Run was touched before it: after a crash or a
\* failure between two steps the next init goes through, and an intent that is
\* cut by a failure is discarded by its own process.
ReviewIsExplained == (\E p \in Initializer : at[p] \in {"stuck", "review"}) => cuts.unproven

\* An init is atomic: one process, one published Run or none, nothing left over.
InitIsAtomic == OneHolder /\ PointerNamesRun /\ StartsClean /\ ReviewIsExplained
=============================================================================
