----------------------------- MODULE Attachments -----------------------------
(***************************************************************************)
(* Attachments of one user: the queue in IndexedDB that the tabs upload    *)
(* from (packages/offline/src/resilience.ts), and the rows and files of    *)
(* the server (content/attachment_service.py, attachment_storage.py).      *)
(*                                                                         *)
(* A request that its tab has given up may still be handled.  A process    *)
(* that dies inside a handler has changed files and no row.                *)
(***************************************************************************)
EXTENDS Naturals, FiniteSets

CONSTANTS
  Upload,       \* attachments, each queued once
  SpaceOf,      \* per attachment: its space
  Uploader,     \* tabs
  Quota,        \* attachments the user's quota has room for
  MaxTries,     \* bound: retries of one attachment
  MaxSlips      \* bound: requests given up, answers lost, processes that die

VARIABLES
  queue,     \* attachmentQueue: state of the entry
  uploader,  \* per tab: its step in uploadPending, and on which entry
  calls,     \* requests the server has not finished
  rows,      \* attachments: status and version
  staged,    \* the staging file
  stored,    \* the verified file
  excused,   \* history: attachments whose answer was lost or that two tabs began at once
  tries,     \* history: retries
  slips      \* history: faults so far
clientSide == <<queue, uploader, excused, tries>>
serverSide == <<rows, staged, stored>>
attachVars == <<clientSide, serverSide, calls, slips>>

ASSUME AttachConstants == Quota \in Nat /\ MaxTries \in Nat /\ MaxSlips \in Nat

NoFile == "none"
NoAttachment == [status |-> "none", version |-> 0]
AtRest == [step |-> "idle", entry |-> 0, version |-> 0]

AttachInit ==
  /\ queue = [a \in Upload |-> "none"]
  /\ uploader = [t \in Uploader |-> AtRest]
  /\ calls = {}
  /\ rows = [a \in Upload |-> NoAttachment]
  /\ staged = [a \in Upload |-> NoFile] /\ stored = [a \in Upload |-> NoFile]
  /\ excused = {} /\ tries = [a \in Upload |-> 0] /\ slips = 0

-----------------------------------------------------------------------------
(* AttachmentQueueRepository.                                              *)

Enqueue(a) ==
  /\ queue[a] = "none"
  /\ queue' = [queue EXCEPT ![a] = "pending_upload"]
  /\ UNCHANGED <<uploader, excused, tries, serverSide, calls, slips>>

\* uploadPending reads the entry, and marks it in a transaction of its own.
Uploadable(a) == queue[a] = "pending_upload"
BeginUpload(t, a) ==
  /\ uploader[t] = AtRest /\ Uploadable(a)
  /\ uploader' = [uploader EXCEPT ![t] = [step |-> "mark", entry |-> a, version |-> 0]]
  /\ excused' = IF \E u \in Uploader : uploader[u].step = "mark" /\ uploader[u].entry = a
                THEN excused \cup {a} ELSE excused
  /\ UNCHANGED <<queue, tries, serverSide, calls, slips>>

\* An update of an entry that was removed does nothing.
Mark(a, state) == queue' = [queue EXCEPT ![a] = IF @ = "removed" THEN @ ELSE state]
Call(t, a, phase, version) ==
  [tab |-> t, entry |-> a, phase |-> phase, version |-> version, gone |-> FALSE]

SendInit(t) ==
  /\ uploader[t].step = "mark"
  /\ Mark(uploader[t].entry, "uploading")
  /\ calls' = calls \cup {Call(t, uploader[t].entry, "init", 0)}
  /\ uploader' = [uploader EXCEPT ![t].step = "wait"]
  /\ UNCHANGED <<excused, tries, serverSide, slips>>

\* The next request carries the version that the upload answered.
SendNext(t) ==
  /\ uploader[t].step \in {"put", "complete"}
  /\ calls' = calls \cup {Call(t, uploader[t].entry, uploader[t].step, uploader[t].version)}
  /\ uploader' = [uploader EXCEPT ![t].step = "wait"]
  /\ UNCHANGED <<queue, excused, tries, serverSide, slips>>

SaveResult(t) ==
  /\ uploader[t].step \in {"verified", "failed"}
  /\ Mark(uploader[t].entry, uploader[t].step)
  /\ uploader' = [uploader EXCEPT ![t] = AtRest]
  /\ UNCHANGED <<excused, tries, serverSide, calls, slips>>

RetryUpload(a) ==
  /\ queue[a] = "failed" /\ tries[a] < MaxTries
  /\ queue' = [queue EXCEPT ![a] = "pending_upload"]
  /\ tries' = [tries EXCEPT ![a] = @ + 1]
  /\ UNCHANGED <<uploader, excused, serverSide, calls, slips>>

RemoveFailed(a) ==
  /\ queue[a] = "failed"
  /\ queue' = [queue EXCEPT ![a] = "removed"]
  /\ UNCHANGED <<uploader, excused, tries, serverSide, calls, slips>>

-----------------------------------------------------------------------------
(* Answers.                                                                *)

\* The tab goes on when it gets the answer; if that is lost it sees a failure.
Answer(c, step, version) ==
  /\ calls' = calls \ {c}
  /\ \/ /\ uploader' = IF c.gone THEN uploader
                       ELSE [uploader EXCEPT ![c.tab].step = step, ![c.tab].version = version]
        /\ UNCHANGED <<excused, slips>>
     \/ /\ ~c.gone /\ slips < MaxSlips /\ slips' = slips + 1
        /\ uploader' = [uploader EXCEPT ![c.tab].step = "failed"]
        /\ excused' = excused \cup {c.entry}
  /\ UNCHANGED <<queue, tries>>

\* The process dies in the handler.
Dies(c) ==
  /\ slips < MaxSlips /\ slips' = slips + 1
  /\ calls' = calls \ {c}
  /\ uploader' = IF c.gone THEN uploader ELSE [uploader EXCEPT ![c.tab].step = "failed"]
  /\ UNCHANGED <<queue, excused, tries, rows>>

GiveUpCall(c) ==
  /\ ~c.gone /\ slips < MaxSlips /\ slips' = slips + 1
  /\ calls' = (calls \ {c}) \cup {[c EXCEPT !.gone = TRUE]}
  /\ uploader' = [uploader EXCEPT ![c.tab].step = "failed"]
  /\ excused' = excused \cup {c.entry}
  /\ UNCHANGED <<queue, tries, serverSide>>

\* A tab is closed while it uploads; its request goes on.
CloseTab(t) ==
  /\ uploader[t] # AtRest /\ slips < MaxSlips /\ slips' = slips + 1
  /\ uploader' = [uploader EXCEPT ![t] = AtRest]
  /\ calls' = {IF c.tab = t THEN [c EXCEPT !.gone = TRUE] ELSE c : c \in calls}
  /\ UNCHANGED <<queue, excused, tries, serverSide>>

-----------------------------------------------------------------------------
(* initiate.                                                               *)

\* The row is looked up before the space is locked.
LookUp(c) ==
  /\ c.phase = "init" /\ UNCHANGED serverSide
  /\ IF rows[c.entry] # NoAttachment THEN Answer(c, "put", 0)
     ELSE /\ calls' = (calls \ {c}) \cup {[c EXCEPT !.phase = "lock"]}
          /\ UNCHANGED <<clientSide, slips>>

Reserved == Cardinality({a \in Upload : rows[a] # NoAttachment})
SpaceLocked(a) == \E c \in calls : c.phase = "insert" /\ SpaceOf[c.entry] = SpaceOf[a]

\* The sum is over all the user's spaces, the lock on this one only.
ReadQuota(c) ==
  /\ c.phase = "lock" /\ ~SpaceLocked(c.entry)
  /\ UNCHANGED serverSide
  /\ IF Reserved + 1 > Quota THEN Answer(c, "failed", 0)
     ELSE /\ calls' = (calls \ {c}) \cup {[c EXCEPT !.phase = "insert"]}
          /\ UNCHANGED <<clientSide, slips>>

InsertRow(c) ==
  /\ c.phase = "insert" /\ UNCHANGED <<staged, stored>>
  /\ \/ /\ rows[c.entry] # NoAttachment /\ Answer(c, "failed", 0) /\ UNCHANGED rows
     \/ /\ rows[c.entry] = NoAttachment
        /\ \/ /\ rows' = [rows EXCEPT ![c.entry] = [status |-> "pending_upload", version |-> 1]]
              /\ Answer(c, "put", 0)
           \/ Dies(c)

-----------------------------------------------------------------------------
(* upload and complete: the row is locked until they commit.               *)

Becomes(a, status) == rows' = [rows EXCEPT ![a] = [status |-> status, version |-> @.version + 1]]
Stages(a, content) == staged' = [staged EXCEPT ![a] = content]
Refuse(c) == Answer(c, "failed", 0) /\ UNCHANGED serverSide

Overwritable(a) == rows[a].status # "verified"

\* What arrives has the size it should have, or not, and its bytes or not.
PutContent(c, content) ==
  /\ c.phase = "put"
  /\ IF ~Overwritable(c.entry) THEN Refuse(c)
     ELSE /\ UNCHANGED stored
          /\ \/ /\ content = "cut" /\ Stages(c.entry, NoFile)
                /\ Becomes(c.entry, "failed") /\ Answer(c, "failed", 0)
             \/ /\ content # "cut" /\ Stages(c.entry, content)
                /\ Becomes(c.entry, "uploading")
                /\ Answer(c, "complete", rows[c.entry].version + 1)
             \/ Stages(c.entry, content) /\ Dies(c)

\* Mutant: the declared hash is not compared.
ApprovedBySize(content, scan) == content # NoFile /\ scan
\* inspect, the scanner, and the copy that finalize makes and reads again.
Approved(content, scan) == content = "whole" /\ scan

Complete(c, scan) ==
  LET row == rows[c.entry]
  IN /\ c.phase = "complete"
     /\ CASE row.status = "verified" -> Answer(c, "verified", row.version) /\ UNCHANGED serverSide
          [] row.status # "verified" /\ (row.version # c.version \/ row.status # "uploading") ->
               Refuse(c)
          [] row.status = "uploading" /\ row.version = c.version ->
               IF Approved(staged[c.entry], scan)
               THEN /\ stored' = [stored EXCEPT ![c.entry] = staged[c.entry]]
                    /\ \/ /\ Becomes(c.entry, "verified") /\ Stages(c.entry, NoFile)
                          /\ Answer(c, "verified", row.version + 1)
                       \/ Dies(c) /\ UNCHANGED staged
               ELSE /\ Stages(c.entry, NoFile) /\ UNCHANGED stored
                    /\ \/ Becomes(c.entry, "failed") /\ Answer(c, "failed", 0)
                       \/ Dies(c)

-----------------------------------------------------------------------------
AttachNext ==
  \/ \E a \in Upload : Enqueue(a) \/ RetryUpload(a) \/ RemoveFailed(a)
  \/ \E t \in Uploader :
       \/ \E a \in Upload : BeginUpload(t, a)
       \/ SendInit(t) \/ SendNext(t) \/ SaveResult(t) \/ CloseTab(t)
  \/ \E c \in calls :
       \/ GiveUpCall(c) \/ LookUp(c) \/ ReadQuota(c) \/ InsertRow(c)
       \/ \E content \in {"whole", "altered", "cut"} : PutContent(c, content)
       \/ \E scan \in BOOLEAN : Complete(c, scan)

AttachSpec == AttachInit /\ [][AttachNext]_attachVars

-----------------------------------------------------------------------------
(* Properties.                                                             *)

\* Entries, rows and files have their types.
AttachTypeOK ==
  /\ queue \in [Upload -> {"none", "pending_upload", "uploading", "failed", "verified", "removed"}]
  /\ \A a \in Upload :
       /\ rows[a].status \in {"none", "pending_upload", "uploading", "failed", "verified"}
       /\ rows[a].version \in Nat
       /\ staged[a] \in {NoFile, "whole", "altered", "cut"}
       /\ stored[a] \in {NoFile, "whole"}
  /\ excused \subseteq Upload /\ slips \in 0..MaxSlips

\* A verified attachment has its file, with the bytes that were declared,
\* whatever arrived meanwhile and wherever a process died
\* (docs/offline/indexeddb-v3-resilience.md: only verified ones are evidence).
VerifiedIsWhole == \A a \in Upload : rows[a].status = "verified" => stored[a] = "whole"

\* What the queue shows as verified is verified on the server.
ShownVerifiedIsVerified ==
  \A a \in Upload : queue[a] = "verified" => rows[a].status = "verified"

\* A failure the queue shows is a true one, unless an answer was lost or two
\* tabs took up the entry before either had marked it.
FailureIsTrue ==
  \A a \in Upload \ excused : queue[a] = "failed" => rows[a].status # "verified"

\* The attachments of one space stay within the quota, however many tabs
\* reserve room at once (the row lock of initiate is on the space).
SpaceHoldsQuota ==
  \A a \in Upload :
    Cardinality({b \in Upload : SpaceOf[b] = SpaceOf[a] /\ rows[b] # NoAttachment}) <= Quota

\* A step changes neither the row nor the file of a verified attachment.
VerifiedIsFinal ==
  \A a \in Upload :
    rows[a].status = "verified" => rows'[a] = rows[a] /\ stored'[a] = stored[a]

\* What is verified, and what is said to be, is there, within the quota.
VerifiedIsTrue == VerifiedIsWhole /\ ShownVerifiedIsVerified /\ FailureIsTrue /\ SpaceHoldsQuota
=============================================================================
