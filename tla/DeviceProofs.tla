---------------------------- MODULE DeviceProofs -----------------------------
(***************************************************************************)
(* Theorems about what browsers keep and hand over: attachments            *)
(* (Attachments), for any number of files, tabs, spaces, retries and       *)
(* faults; the bootstrap of a replica (SnapshotStaging), for any number of *)
(* tabs, devices, chunks, moves of the server and closed tabs; and the     *)
(* draft of a form (FormDrafts), for any number of tabs, texts, drafts and *)
(* lost requests, while users wait for a draft that is read again.         *)
(***************************************************************************)
EXTENDS Attachments, SnapshotStaging, FormDrafts, FiniteSetTheorems, TLAPS

UploaderT == [step : {"idle", "mark", "wait", "put", "complete", "verified", "failed"},
              entry : Upload \cup {0}, version : Nat]
CallT == [tab : Uploader, entry : Upload, version : Nat, gone : BOOLEAN,
          phase : {"init", "lock", "insert", "put", "complete"}]
AttachmentT == [status : {"none", "pending_upload", "uploading", "failed", "verified"}, version : Nat]
QueueStates == {"none", "pending_upload", "uploading", "failed", "verified", "removed"}
Files == {NoFile, "whole", "altered", "cut"}

AttachTypes ==
  /\ queue \in [Upload -> QueueStates]
  /\ uploader \in [Uploader -> UploaderT]
  /\ \A t \in Uploader : IF uploader[t].step = "idle" THEN uploader[t] = AtRest
                         ELSE uploader[t].entry \in Upload
  /\ calls \subseteq CallT
  /\ rows \in [Upload -> AttachmentT]
  /\ \A a \in Upload : rows[a].status = "none" => rows[a] = NoAttachment
  /\ staged \in [Upload -> Files] /\ stored \in [Upload -> {NoFile, "whole"}]
  /\ excused \subseteq Upload /\ slips \in 0..MaxSlips

\* A tab waits for its request, unless it has given it up; an upload is of a
\* row that is there; what a tab was told to be verified is.
CallsAreAwaited ==
  /\ \A c \in calls :
       /\ ~c.gone => uploader[c.tab].step = "wait" /\ uploader[c.tab].entry = c.entry
       /\ c.phase \in {"put", "complete"} => rows[c.entry] # NoAttachment
       /\ \A d \in calls : ~c.gone /\ ~d.gone /\ d.tab = c.tab => d = c
  /\ \A t \in Uploader :
       /\ uploader[t].step \in {"put", "complete"} => rows[uploader[t].entry] # NoAttachment
       /\ uploader[t].step = "verified" => rows[uploader[t].entry].status = "verified"

\* An entry nobody lost an answer about is in the hands of one tab, which
\* waits for one request; its row is verified by the last of them.
Works(t, a) == uploader[t].step # "idle" /\ uploader[t].entry = a
Undisturbed(a) ==
  /\ \A t, u \in Uploader : Works(t, a) /\ Works(u, a) => t = u
  /\ \A t \in Uploader : Works(t, a) =>
       /\ queue[a] = IF uploader[t].step = "mark" THEN "pending_upload" ELSE "uploading"
       /\ uploader[t].step = "failed" => rows[a].status # "verified"
  /\ \A c \in calls : c.entry = a =>
       /\ queue[a] = "uploading"
       /\ \A d \in calls : d.entry = a => d = c
       /\ \A t \in Uploader : Works(t, a) => uploader[t].step = "wait" /\ c.tab = t /\ ~c.gone
       /\ c.phase \in {"lock", "insert"} => rows[a] = NoAttachment
  /\ rows[a].status = "verified" =>
       /\ queue[a] \in {"uploading", "verified"}
       /\ \A c \in calls : c.entry # a
       /\ \A t \in Uploader : Works(t, a) => uploader[t].step = "verified"

InSpace(a) == {b \in Upload : SpaceOf[b] = SpaceOf[a] /\ rows[b] # NoAttachment}
\* An insertion holds the lock of its space, and the space has room for it.
RoomIsKept ==
  /\ IsFiniteSet({b \in Upload : rows[b] # NoAttachment})
  /\ \A a \in Upload : Cardinality(InSpace(a)) <= Quota
  /\ \A c \in calls : c.phase = "insert" =>
       /\ Cardinality(InSpace(c.entry)) + 1 <= Quota
       /\ \A d \in calls : d.phase = "insert" /\ SpaceOf[d.entry] = SpaceOf[c.entry] => d = c

AttachInv ==
  /\ AttachTypes /\ CallsAreAwaited /\ RoomIsKept
  /\ VerifiedIsWhole /\ ShownVerifiedIsVerified
  /\ \A a \in Upload \ excused : Undisturbed(a)

-----------------------------------------------------------------------------
(* Requests.                                                               *)

\* What the answer of a request does to its tab.
Hears(c, step) ==
  /\ calls' = calls \ {c} /\ queue' = queue
  /\ uploader' \in [Uploader -> UploaderT]
  /\ \A t \in Uploader : t # c.tab \/ c.gone => uploader'[t] = uploader[t]
  /\ ~c.gone => uploader'[c.tab].step = step /\ uploader'[c.tab].entry = uploader[c.tab].entry

Steps == {"put", "complete", "verified", "failed"}
LEMMA TabIsTold ==
  ASSUME AttachTypes, NEW c \in calls, NEW step \in Steps, NEW version \in Nat,
         calls' = calls \ {c}, queue' = queue,
         \/ uploader' = IF c.gone THEN uploader
                        ELSE [uploader EXCEPT ![c.tab].step = step, ![c.tab].version = version]
         \/ uploader' = IF c.gone THEN uploader ELSE [uploader EXCEPT ![c.tab].step = step]
  PROVE  Hears(c, step)
<1> DEFINE t == c.tab
           v == IF uploader' = [uploader EXCEPT ![t].step = step, ![t].version = version]
                THEN version ELSE uploader[t].version
           row == [uploader[t] EXCEPT !.step = step, !.version = v]
<1>1. t \in Uploader /\ uploader \in [Uploader -> UploaderT] /\ uploader[t] \in UploaderT
  BY DEF AttachTypes, CallT
<1>2. CASE c.gone
  BY <1>1, <1>2 DEF Hears
<1>3. CASE ~c.gone
  <2>1. uploader' = [uploader EXCEPT ![t] = row] /\ v \in Nat
    <3>1. CASE uploader' = [uploader EXCEPT ![t].step = step, ![t].version = version]
      BY <1>1, <3>1
    <3>2. CASE uploader' # [uploader EXCEPT ![t].step = step, ![t].version = version]
      <4>1. v = uploader[t].version /\ uploader' = [uploader EXCEPT ![t].step = step]
        BY <1>3, <3>2
      <4>2. row = [uploader[t] EXCEPT !.step = step] /\ v \in Nat
        BY <1>1, <4>1 DEF UploaderT
      <4> QED
        BY <1>1, <4>1, <4>2
    <3> QED
      BY <3>1, <3>2
  <2> HIDE DEF v
  <2>2. row \in UploaderT /\ row.step = step /\ row.entry = uploader[t].entry
    BY <1>1, <2>1 DEF UploaderT, Steps
  <2> HIDE DEF row
  <2>3. /\ uploader' \in [Uploader -> UploaderT] /\ uploader'[t] = row
        /\ \A u \in Uploader : u # t => uploader'[u] = uploader[u]
    BY <1>1, <2>1, <2>2
  <2> QED
    BY <1>3, <2>2, <2>3 DEF Hears
<1> QED
  BY <1>2, <1>3

\* An answer is heard, or lost.
LEMMA AnswerIsHeard ==
  ASSUME AttachTypes, NEW c \in calls, NEW step \in Steps, NEW version \in Nat, Answer(c, step, version)
  PROVE  \/ Hears(c, step) /\ excused' = excused /\ slips' \in 0..MaxSlips
         \/ Hears(c, "failed") /\ excused' = excused \cup {c.entry} /\ slips' \in 0..MaxSlips
<1>1. slips \in 0..MaxSlips /\ MaxSlips \in Nat /\ "failed" \in Steps
  BY AttachConstants DEF AttachTypes, Steps
<1>2. CASE /\ uploader' = IF c.gone THEN uploader
                          ELSE [uploader EXCEPT ![c.tab].step = step, ![c.tab].version = version]
           /\ UNCHANGED <<excused, slips>>
  <2>1. Hears(c, step)
    BY <1>2, TabIsTold DEF Answer
  <2> QED
    BY <1>1, <1>2, <2>1
<1>3. CASE /\ ~c.gone /\ slips < MaxSlips /\ slips' = slips + 1
           /\ uploader' = [uploader EXCEPT ![c.tab].step = "failed"]
           /\ excused' = excused \cup {c.entry}
  <2>1. Hears(c, "failed")
    BY <1>1, <1>3, TabIsTold DEF Answer
  <2>2. slips' \in 0..MaxSlips
    BY <1>1, <1>3
  <2> QED
    BY <1>3, <2>1, <2>2
<1> QED
  BY <1>2, <1>3 DEF Answer

LEMMA DeathIsHeard ==
  ASSUME AttachTypes, NEW c \in calls, Dies(c)
  PROVE  Hears(c, "failed") /\ excused' = excused /\ slips' \in 0..MaxSlips /\ rows' = rows
<1>1. slips \in 0..MaxSlips /\ MaxSlips \in Nat /\ "failed" \in Steps /\ 0 \in Nat
  BY AttachConstants DEF AttachTypes, Steps
<1>2. Hears(c, "failed")
  BY <1>1, TabIsTold DEF Dies
<1> QED
  BY <1>1, <1>2 DEF Dies

\* A handler that answers: what it may do to its row.
RowMoves(c, step) ==
  LET a == c.entry IN
  /\ rows' \in [Upload -> AttachmentT]
  /\ \A b \in Upload : b # a => rows'[b] = rows[b]
  /\ rows'[a].status = "none" => rows'[a] = NoAttachment
  /\ rows[a] # NoAttachment => rows'[a] # NoAttachment
  /\ rows[a].status = "verified" => rows'[a] = rows[a]
  /\ step \in {"put", "complete"} => rows'[a] # NoAttachment
  /\ step = "verified" => rows'[a].status = "verified"
  /\ a \notin excused' /\ step # "verified" => rows'[a].status # "verified"
  /\ rows[a] = NoAttachment /\ rows'[a] # NoAttachment => c.phase = "insert"
FilesFit ==
  /\ staged' \in [Upload -> Files] /\ stored' \in [Upload -> {NoFile, "whole"}]
  /\ VerifiedIsWhole'

\* A row that comes under the lock of its space takes the room that was found.
LEMMA RoomStays ==
  ASSUME AttachInv, NEW c \in calls, calls' = calls \ {c}, rows' \in [Upload -> AttachmentT],
         \A b \in Upload : b # c.entry => rows'[b] = rows[b],
         rows[c.entry] # NoAttachment => rows'[c.entry] # NoAttachment,
         rows[c.entry] = NoAttachment /\ rows'[c.entry] # NoAttachment => c.phase = "insert"
  PROVE  RoomIsKept'
<1>0. c.entry \in Upload /\ RoomIsKept /\ Quota \in Nat /\ \A d \in calls : d.entry \in Upload
  BY AttachConstants DEF AttachInv, AttachTypes, CallT
<1>1. CASE rows[c.entry] = NoAttachment /\ rows'[c.entry] # NoAttachment
  <2> DEFINE a == c.entry
  <2>1. /\ c.phase = "insert" /\ Cardinality(InSpace(a)) + 1 <= Quota
        /\ {b \in Upload : rows'[b] # NoAttachment} = {b \in Upload : rows[b] # NoAttachment} \cup {a}
    BY <1>0, <1>1 DEF RoomIsKept
  <2>2. IsFiniteSet({b \in Upload : rows[b] # NoAttachment} \cup {a})
    BY <1>0, FS_AddElement DEF RoomIsKept
  <2>3. \A b \in Upload : SpaceOf[b] # SpaceOf[a] => InSpace(b)' = InSpace(b)
    BY <1>1 DEF InSpace
  <2>4. \A b \in Upload : SpaceOf[b] = SpaceOf[a] => InSpace(b)' = InSpace(a) \cup {a}
    BY <1>0, <1>1 DEF InSpace
  <2>5. IsFiniteSet(InSpace(a)) /\ a \notin InSpace(a)
    BY <1>0, <1>1, FS_Subset DEF InSpace, RoomIsKept
  <2>6. Cardinality(InSpace(a) \cup {a}) = Cardinality(InSpace(a)) + 1
    BY <2>5, FS_AddElement
  <2>7. \A d \in calls' : d.phase = "insert" => d \in calls /\ d.entry \in Upload /\ SpaceOf[d.entry] # SpaceOf[a]
    BY <1>0, <2>1 DEF RoomIsKept
  <2>8. \A b \in Upload : Cardinality(InSpace(b)') <= Quota
    BY <1>0, <2>1, <2>3, <2>4, <2>6 DEF RoomIsKept
  <2>9. \A d \in calls' : d.phase = "insert" =>
          /\ Cardinality(InSpace(d.entry)') + 1 <= Quota
          /\ \A e \in calls' : e.phase = "insert" /\ SpaceOf[e.entry] = SpaceOf[d.entry] => e = d
    BY <1>0, <2>3, <2>7 DEF RoomIsKept
  <2> QED
    BY <2>1, <2>2, <2>8, <2>9 DEF RoomIsKept
<1>2. CASE ~(rows[c.entry] = NoAttachment /\ rows'[c.entry] # NoAttachment)
  <2>1. \A b \in Upload : rows'[b] # NoAttachment <=> rows[b] # NoAttachment
    BY <1>0, <1>2
  <2>2. \A b : InSpace(b)' = InSpace(b)
    BY <2>1 DEF InSpace
  <2>3. {b \in Upload : rows'[b] # NoAttachment} = {b \in Upload : rows[b] # NoAttachment}
    BY <2>1
  <2> QED
    BY <1>0, <2>2, <2>3 DEF RoomIsKept
<1> QED
  BY <1>1, <1>2

LEMMA AnsweredKeeps ==
  ASSUME AttachInv, NEW c \in calls, NEW step \in Steps, Hears(c, step), RowMoves(c, step), FilesFit,
         excused' = excused \/ excused' = excused \cup {c.entry}, slips' \in 0..MaxSlips
  PROVE  AttachInv'
<1> DEFINE a == c.entry
<1>0. /\ c.tab \in Uploader /\ a \in Upload /\ calls' = calls \ {c} /\ queue' = queue
      /\ uploader' \in [Uploader -> UploaderT] /\ c \in CallT
      /\ \A t \in Uploader : t # c.tab \/ c.gone => uploader'[t] = uploader[t]
      /\ ~c.gone => /\ uploader'[c.tab].step = step /\ uploader[c.tab].step = "wait"
                    /\ uploader'[c.tab].entry = a /\ uploader[c.tab].entry = a
      /\ \A b \in Upload : b # a => rows'[b] = rows[b]
  BY DEF AttachInv, AttachTypes, CallT, Hears, RowMoves, CallsAreAwaited
<1>1. AttachTypes'
  <2>1. \A t \in Uploader : IF uploader'[t].step = "idle" THEN uploader'[t] = AtRest
                            ELSE uploader'[t].entry \in Upload
    BY <1>0 DEF AttachInv, AttachTypes, Steps
  <2>2. \A b \in Upload : rows'[b].status = "none" => rows'[b] = NoAttachment
    BY <1>0 DEF AttachInv, AttachTypes, RowMoves
  <2>3. calls' \subseteq CallT /\ excused' \subseteq Upload /\ rows' \in [Upload -> AttachmentT]
    BY <1>0 DEF AttachInv, AttachTypes, RowMoves
  <2> QED
    BY <1>0, <2>1, <2>2, <2>3 DEF AttachInv, AttachTypes, FilesFit
<1>2. \A b \in Upload : /\ rows[b] # NoAttachment => rows'[b] # NoAttachment
                        /\ rows[b].status = "verified" => rows'[b].status = "verified"
  BY <1>0 DEF RowMoves
<1>3. CallsAreAwaited'
  <2>1. ASSUME NEW d \in calls'
        PROVE  /\ ~d.gone => uploader'[d.tab].step = "wait" /\ uploader'[d.tab].entry = d.entry
               /\ d.phase \in {"put", "complete"} => rows'[d.entry] # NoAttachment
               /\ \A e \in calls' : ~d.gone /\ ~e.gone /\ e.tab = d.tab => e = d
    <3>1. d \in calls /\ d # c /\ d.tab \in Uploader /\ d.entry \in Upload
      BY <1>0 DEF AttachInv, AttachTypes, CallT
    <3>2. ~d.gone => uploader'[d.tab] = uploader[d.tab]
      BY <1>0, <3>1 DEF AttachInv, CallsAreAwaited
    <3> QED
      BY <1>0, <1>2, <3>1, <3>2 DEF AttachInv, CallsAreAwaited
  <2>2. ASSUME NEW t \in Uploader
        PROVE  /\ uploader'[t].step \in {"put", "complete"} => rows'[uploader'[t].entry] # NoAttachment
               /\ uploader'[t].step = "verified" => rows'[uploader'[t].entry].status = "verified"
    <3>1. CASE t = c.tab /\ ~c.gone
      BY <1>0, <3>1 DEF RowMoves
    <3>2. CASE t # c.tab \/ c.gone
      <4>1. uploader'[t] = uploader[t] /\ (uploader[t].step # "idle" => uploader[t].entry \in Upload)
        BY <1>0, <3>2 DEF AttachInv, AttachTypes
      <4> QED
        BY <1>2, <4>1 DEF AttachInv, CallsAreAwaited
    <3> QED
      BY <3>1, <3>2
  <2> QED
    BY <2>1, <2>2 DEF CallsAreAwaited
<1>4. RoomIsKept'
  BY <1>0, RoomStays DEF RowMoves
<1>5. ShownVerifiedIsVerified'
  BY <1>0, <1>2 DEF AttachInv, ShownVerifiedIsVerified
<1>6. ASSUME NEW b \in Upload \ excused' PROVE Undisturbed(b)'
  <2>1. b \in Upload \ excused /\ Undisturbed(b)
    BY <1>6 DEF AttachInv
  <2>2. \A t \in Uploader : Works(t, b)' <=> Works(t, b)
    BY <1>0 DEF Works, Steps
  <2>3. CASE b # a
    <3>1. \A t \in Uploader : Works(t, b) => uploader'[t] = uploader[t]
      BY <1>0, <2>3 DEF Works
    <3> QED
      BY <1>0, <2>1, <2>2, <2>3, <3>1 DEF Undisturbed
  <2>4. CASE b = a
    <3>1. \A d \in calls' : d.entry # a
      BY <1>0, <2>1, <2>4 DEF Undisturbed
    <3>2. queue[a] = "uploading" /\ \A t \in Uploader : Works(t, a) => t = c.tab /\ ~c.gone
      BY <1>0, <2>1, <2>4 DEF Undisturbed
    <3>3. rows'[a].status = "verified" => step = "verified"
      BY <1>6, <2>4 DEF RowMoves
    <3>4. \A t \in Uploader : Works(t, a) => uploader'[t].step = step
      BY <1>0, <3>2
    <3> QED
      BY <1>0, <2>1, <2>2, <2>4, <3>1, <3>2, <3>3, <3>4 DEF Undisturbed, Steps
  <2> QED
    BY <2>3, <2>4
<1> QED
  BY <1>1, <1>3, <1>4, <1>5, <1>6 DEF AttachInv, FilesFit

-----------------------------------------------------------------------------
(* Handlers.                                                               *)

LEMMA CallFacts ==
  ASSUME AttachInv, NEW c \in calls
  PROVE  /\ AttachTypes /\ c \in CallT /\ c.entry \in Upload /\ c.tab \in Uploader
         /\ rows[c.entry] \in AttachmentT
         /\ c.entry \notin excused => rows[c.entry].status # "verified"
         /\ c.phase \in {"put", "complete"} => rows[c.entry] # NoAttachment
         /\ rows[c.entry].status = "verified" => stored[c.entry] = "whole"
<1>1. AttachTypes /\ c \in CallT /\ c.entry \in Upload /\ c.tab \in Uploader /\ rows[c.entry] \in AttachmentT
  BY DEF AttachInv, AttachTypes, CallT
<1> QED
  BY <1>1 DEF AttachInv, Undisturbed, CallsAreAwaited, VerifiedIsWhole

\* A handler that answers and has changed nothing.
LEMMA UnchangedKeeps ==
  ASSUME AttachInv, NEW c \in calls, NEW step \in Steps, NEW version \in Nat, Answer(c, step, version),
         UNCHANGED serverSide,
         step \in {"put", "complete"} => rows[c.entry] # NoAttachment,
         step = "verified" => rows[c.entry].status = "verified"
  PROVE  AttachInv'
<1>1. rows' = rows /\ staged' = staged /\ stored' = stored
  BY DEF serverSide
<1>2. FilesFit
  BY <1>1 DEF FilesFit, AttachInv, AttachTypes, VerifiedIsWhole
<1>3. ASSUME NEW s \in Steps, s \in {step, "failed"}, excused \subseteq excused' PROVE RowMoves(c, s)
  BY <1>1, <1>3, CallFacts DEF RowMoves, AttachInv, AttachTypes
<1>4. "failed" \in Steps
  BY DEF Steps
<1>5. CASE Hears(c, step) /\ excused' = excused /\ slips' \in 0..MaxSlips
  BY <1>2, <1>3, <1>5, AnsweredKeeps
<1>6. CASE Hears(c, "failed") /\ excused' = excused \cup {c.entry} /\ slips' \in 0..MaxSlips
  BY <1>2, <1>3, <1>4, <1>6, AnsweredKeeps
<1> QED
  BY <1>5, <1>6, CallFacts, AnswerIsHeard

\* A handler that writes its row, and answers unless its process dies first.
LEMMA WritesKeeps ==
  ASSUME AttachInv, NEW c \in calls, NEW step \in Steps, NEW version \in Nat,
         NEW row \in AttachmentT, row.status # "none", rows' = [rows EXCEPT ![c.entry] = row],
         rows[c.entry].status # "verified", (row.status = "verified") = (step = "verified"),
         row.status = "verified" => stored'[c.entry] = "whole",
         rows[c.entry] = NoAttachment => c.phase = "insert",
         staged' \in [Upload -> Files], stored' \in [Upload -> {NoFile, "whole"}],
         \A b \in Upload : stored[b] = "whole" => stored'[b] = "whole",
         Answer(c, step, version)
  PROVE  AttachInv'
<1>1. /\ AttachTypes /\ c.entry \in Upload /\ rows \in [Upload -> AttachmentT]
      /\ rows'[c.entry] = row /\ \A b \in Upload : b # c.entry => rows'[b] = rows[b]
      /\ rows' \in [Upload -> AttachmentT]
  BY CallFacts DEF AttachTypes
<1>2. FilesFit
  BY <1>1 DEF FilesFit, AttachInv, VerifiedIsWhole
<1>3. row # NoAttachment
  BY DEF NoAttachment
<1>4. "failed" \in Steps
  BY DEF Steps
<1>5. CASE Hears(c, step) /\ excused' = excused /\ slips' \in 0..MaxSlips
  <2>1. RowMoves(c, step)
    BY <1>1, <1>3, <1>5 DEF RowMoves
  <2> QED
    BY <1>2, <1>5, <2>1, AnsweredKeeps
<1>6. CASE Hears(c, "failed") /\ excused' = excused \cup {c.entry} /\ slips' \in 0..MaxSlips
  <2>1. RowMoves(c, "failed")
    BY <1>1, <1>3, <1>6 DEF RowMoves
  <2> QED
    BY <1>2, <1>4, <1>6, <2>1, AnsweredKeeps
<1> QED
  BY <1>1, <1>5, <1>6, AnswerIsHeard

\* A process that dies has changed files at most.
LEMMA DeathKeeps ==
  ASSUME AttachInv, NEW c \in calls, Dies(c),
         staged' \in [Upload -> Files], stored' \in [Upload -> {NoFile, "whole"}],
         \A b \in Upload : stored[b] = "whole" => stored'[b] = "whole"
  PROVE  AttachInv'
<1>1. Hears(c, "failed") /\ excused' = excused /\ slips' \in 0..MaxSlips /\ rows' = rows
  BY CallFacts, DeathIsHeard
<1>2. FilesFit
  BY <1>1 DEF FilesFit, AttachInv, VerifiedIsWhole
<1>3. RowMoves(c, "failed")
  BY <1>1, CallFacts DEF RowMoves, AttachTypes
<1>4. "failed" \in Steps
  BY DEF Steps
<1> QED
  BY <1>1, <1>2, <1>3, <1>4, AnsweredKeeps

\* A request goes on to its next lock, or on without its tab.
LEMMA CallGoesOn ==
  ASSUME AttachInv, NEW c \in calls, NEW d \in CallT, d.tab = c.tab, d.entry = c.entry, d.gone = c.gone,
         d.phase \in {"lock", "insert"}, c.entry \notin excused => rows[c.entry] = NoAttachment,
         calls' = (calls \ {c}) \cup {d},
         d.phase = "insert" => /\ Cardinality(InSpace(c.entry)) + 1 <= Quota
                               /\ ~SpaceLocked(c.entry),
         UNCHANGED <<clientSide, serverSide, slips>>
  PROVE  AttachInv'
<1>1. /\ queue' = queue /\ uploader' = uploader /\ excused' = excused /\ slips' = slips
      /\ rows' = rows /\ staged' = staged /\ stored' = stored
  BY DEF clientSide, serverSide
<1>2. AttachTypes'
  BY <1>1 DEF AttachInv, AttachTypes
<1>3. CallsAreAwaited'
  BY <1>1 DEF AttachInv, CallsAreAwaited
<1>4. RoomIsKept'
  <2>1. \A b : InSpace(b)' = InSpace(b)
    BY <1>1 DEF InSpace
  <2>2. ASSUME d.phase = "insert"
        PROVE  \A e \in calls : e.phase = "insert" => SpaceOf[e.entry] # SpaceOf[d.entry]
    BY <2>2 DEF SpaceLocked
  <2>3. \A e \in calls' : e.phase = "insert" =>
          /\ Cardinality(InSpace(e.entry)') + 1 <= Quota
          /\ \A f \in calls' : f.phase = "insert" /\ SpaceOf[f.entry] = SpaceOf[e.entry] => f = e
    BY <2>1, <2>2 DEF AttachInv, RoomIsKept
  <2> QED
    BY <1>1, <2>1, <2>3 DEF AttachInv, RoomIsKept
<1>5. ASSUME NEW b \in Upload \ excused' PROVE Undisturbed(b)'
  <2>1. Undisturbed(b) /\ \A t \in Uploader : Works(t, b)' <=> Works(t, b)
    BY <1>1, <1>5 DEF AttachInv, Works
  <2>2. c.entry = b => rows[c.entry].status # "verified"
    BY <1>1, <1>5 DEF NoAttachment
  <2> QED
    BY <1>1, <1>5, <2>1, <2>2 DEF Undisturbed
<1> QED
  BY <1>1, <1>2, <1>3, <1>4, <1>5 DEF AttachInv, VerifiedIsWhole, ShownVerifiedIsVerified

LEMMA InitiateKeeps ==
  ASSUME AttachInv, NEW c \in calls, LookUp(c) \/ ReadQuota(c) \/ InsertRow(c) PROVE AttachInv'
<1>0. /\ c \in CallT /\ c.entry \in Upload /\ 0 \in Nat /\ Steps = {"put", "complete", "verified", "failed"}
      /\ rows[c.entry] \in AttachmentT /\ AttachTypes
  BY CallFacts DEF Steps
<1>1. ASSUME LookUp(c), rows[c.entry] # NoAttachment PROVE AttachInv'
  BY <1>0, <1>1, UnchangedKeeps DEF LookUp
<1>2. ASSUME LookUp(c), rows[c.entry] = NoAttachment PROVE AttachInv'
  <2> DEFINE d == [c EXCEPT !.phase = "lock"]
  <2>1. d \in CallT /\ d.tab = c.tab /\ d.entry = c.entry /\ d.gone = c.gone /\ d.phase = "lock"
    BY <1>0 DEF CallT
  <2>2. calls' = (calls \ {c}) \cup {d} /\ UNCHANGED <<clientSide, serverSide, slips>>
    BY <1>2 DEF LookUp
  <2> HIDE DEF d
  <2> QED
    BY <1>2, <2>1, <2>2, CallGoesOn
<1>3. ASSUME ReadQuota(c), Reserved + 1 > Quota PROVE AttachInv'
  BY <1>0, <1>3, UnchangedKeeps DEF ReadQuota
<1>4. ASSUME ReadQuota(c), ~(Reserved + 1 > Quota) PROVE AttachInv'
  <2> DEFINE d == [c EXCEPT !.phase = "insert"]
  <2>1. d \in CallT /\ d.tab = c.tab /\ d.entry = c.entry /\ d.gone = c.gone /\ d.phase = "insert"
    BY <1>0 DEF CallT
  <2>2. /\ calls' = (calls \ {c}) \cup {d} /\ UNCHANGED <<clientSide, serverSide, slips>>
        /\ ~SpaceLocked(c.entry) /\ c.phase = "lock"
    BY <1>4 DEF ReadQuota
  <2> HIDE DEF d
  <2>3. Cardinality(InSpace(c.entry)) + 1 <= Quota
    <3> DEFINE R == {b \in Upload : rows[b] # NoAttachment}
               S == InSpace(c.entry)
    <3>1. IsFiniteSet(R) /\ S \subseteq R /\ ~(Cardinality(R) + 1 > Quota) /\ Quota \in Nat
      BY <1>4, AttachConstants DEF AttachInv, RoomIsKept, InSpace, Reserved
    <3> HIDE DEF R, S
    <3>2. Cardinality(S) <= Cardinality(R) /\ Cardinality(S) \in Nat /\ Cardinality(R) \in Nat
      BY <3>1, FS_Subset, FS_CardinalityType
    <3>3. Cardinality(S) + 1 <= Quota
      BY <3>1, <3>2
    <3> QED
      BY <3>3 DEF S
  <2>4. c.entry \notin excused => rows[c.entry] = NoAttachment
    BY <1>0, <2>2 DEF AttachInv, Undisturbed
  <2> QED
    BY <2>1, <2>2, <2>3, <2>4, CallGoesOn
<1>5. ASSUME InsertRow(c), rows[c.entry] # NoAttachment PROVE AttachInv'
  BY <1>0, <1>5, UnchangedKeeps DEF InsertRow, serverSide
<1>6. ASSUME InsertRow(c), rows[c.entry] = NoAttachment PROVE AttachInv'
  <2> DEFINE row == [status |-> "pending_upload", version |-> 1]
  <2>1. /\ row \in AttachmentT /\ row.status = "pending_upload" /\ rows[c.entry].status # "verified"
    BY <1>6 DEF AttachmentT, NoAttachment
  <2>2. staged' = staged /\ stored' = stored /\ c.phase = "insert"
    BY <1>6 DEF InsertRow
  <2>3. /\ staged' \in [Upload -> Files] /\ stored' \in [Upload -> {NoFile, "whole"}]
        /\ \A b \in Upload : stored[b] = "whole" => stored'[b] = "whole"
    BY <1>0, <2>2 DEF AttachTypes
  <2>4. \/ rows' = [rows EXCEPT ![c.entry] = row] /\ Answer(c, "put", 0)
        \/ Dies(c)
    BY <1>6 DEF InsertRow
  <2> HIDE DEF row
  <2>5. CASE rows' = [rows EXCEPT ![c.entry] = row] /\ Answer(c, "put", 0)
    BY <1>0, <2>1, <2>2, <2>3, <2>5, WritesKeeps
  <2>6. CASE Dies(c)
    BY <2>3, <2>6, DeathKeeps
  <2> QED
    BY <2>4, <2>5, <2>6
<1> QED
  BY <1>1, <1>2, <1>3, <1>4, <1>5, <1>6

LEMMA PutKeeps ==
  ASSUME AttachInv, NEW c \in calls, NEW content \in {"whole", "altered", "cut"}, PutContent(c, content)
  PROVE  AttachInv'
<1>0. /\ c.entry \in Upload /\ 0 \in Nat /\ Steps = {"put", "complete", "verified", "failed"}
      /\ rows[c.entry] \in AttachmentT /\ AttachTypes /\ c.phase = "put"
      /\ rows[c.entry] # NoAttachment /\ rows[c.entry].version + 1 \in Nat
      /\ content \in Files /\ NoFile \in Files
  BY CallFacts DEF Steps, PutContent, Files, AttachmentT
<1>1. ASSUME rows[c.entry].status = "verified" PROVE AttachInv'
  <2>1. Answer(c, "failed", 0) /\ UNCHANGED serverSide
    BY <1>1 DEF PutContent, Overwritable, Refuse
  <2> QED
    BY <1>0, <2>1, UnchangedKeeps
<1>2. ASSUME rows[c.entry].status # "verified" PROVE AttachInv'
  <2>1. stored' = stored /\ Overwritable(c.entry)
    BY <1>2 DEF PutContent, Overwritable
  <2>2. ASSUME NEW f \in Files, Stages(c.entry, f)
        PROVE  /\ staged' \in [Upload -> Files] /\ stored' \in [Upload -> {NoFile, "whole"}]
               /\ \A b \in Upload : stored[b] = "whole" => stored'[b] = "whole"
    BY <1>0, <2>1, <2>2 DEF AttachTypes, Stages
  <2>3. ASSUME NEW status \in {"failed", "uploading"}, NEW step \in Steps \ {"verified"}, NEW v \in Nat,
               NEW f \in Files, Stages(c.entry, f), Becomes(c.entry, status), Answer(c, step, v)
        PROVE  AttachInv'
    <3> DEFINE row == [status |-> status, version |-> rows[c.entry].version + 1]
    <3>1. row \in AttachmentT /\ row.status \in {"failed", "uploading"}
      BY <1>0 DEF AttachmentT
    <3>2. rows' = [rows EXCEPT ![c.entry] = row]
      BY <2>3 DEF Becomes
    <3> HIDE DEF row
    <3>3. /\ staged' \in [Upload -> Files] /\ stored' \in [Upload -> {NoFile, "whole"}]
          /\ \A b \in Upload : stored[b] = "whole" => stored'[b] = "whole"
      BY <2>2, <2>3
    <3> QED
      BY <1>0, <1>2, <2>3, <3>1, <3>2, <3>3, WritesKeeps
  <2>4. ASSUME NEW f \in Files, Stages(c.entry, f), Dies(c) PROVE AttachInv'
    <3>1. /\ staged' \in [Upload -> Files] /\ stored' \in [Upload -> {NoFile, "whole"}]
          /\ \A b \in Upload : stored[b] = "whole" => stored'[b] = "whole"
      BY <2>2, <2>4
    <3> QED
      BY <2>4, <3>1, DeathKeeps
  <2> QED
    BY <1>0, <2>1, <2>3, <2>4 DEF PutContent
<1> QED
  BY <1>1, <1>2

\* The file that is approved is copied before the row says so.
LEMMA CompleteKeeps ==
  ASSUME AttachInv, NEW c \in calls, NEW scan \in BOOLEAN, Complete(c, scan) PROVE AttachInv'
<1>0. /\ c.entry \in Upload /\ 0 \in Nat /\ Steps = {"put", "complete", "verified", "failed"}
      /\ rows[c.entry] \in AttachmentT /\ AttachTypes /\ c.phase = "complete"
      /\ rows[c.entry] # NoAttachment /\ rows[c.entry].version \in Nat /\ rows[c.entry].version + 1 \in Nat
      /\ NoFile \in Files
  BY CallFacts DEF Steps, Complete, Files, AttachmentT
<1>1. ASSUME rows[c.entry].status = "verified" PROVE AttachInv'
  <2>1. Answer(c, "verified", rows[c.entry].version) /\ UNCHANGED serverSide
    BY <1>1 DEF Complete
  <2> QED
    BY <1>0, <1>1, <2>1, UnchangedKeeps
<1>2. ASSUME rows[c.entry].status # "verified",
             rows[c.entry].version # c.version \/ rows[c.entry].status # "uploading"
      PROVE  AttachInv'
  <2>1. Answer(c, "failed", 0) /\ UNCHANGED serverSide
    BY <1>2 DEF Complete, Refuse
  <2> QED
    BY <1>0, <2>1, UnchangedKeeps
<1>3. ASSUME rows[c.entry].status = "uploading", rows[c.entry].version = c.version PROVE AttachInv'
  <2>1. IF Approved(staged[c.entry], scan)
        THEN /\ stored' = [stored EXCEPT ![c.entry] = staged[c.entry]]
             /\ \/ /\ Becomes(c.entry, "verified") /\ Stages(c.entry, NoFile)
                   /\ Answer(c, "verified", rows[c.entry].version + 1)
                \/ Dies(c) /\ UNCHANGED staged
        ELSE /\ Stages(c.entry, NoFile) /\ UNCHANGED stored
             /\ \/ Becomes(c.entry, "failed") /\ Answer(c, "failed", 0)
                \/ Dies(c)
    BY <1>3 DEF Complete
  <2>2. CASE Approved(staged[c.entry], scan)
    <3>1. /\ stored' \in [Upload -> {NoFile, "whole"}] /\ stored'[c.entry] = "whole"
          /\ \A b \in Upload : stored[b] = "whole" => stored'[b] = "whole"
      BY <1>0, <2>1, <2>2 DEF Approved, AttachTypes
    <3>2. staged' \in [Upload -> Files]
      BY <1>0, <2>1, <2>2 DEF Stages, AttachTypes
    <3>3. CASE Becomes(c.entry, "verified") /\ Answer(c, "verified", rows[c.entry].version + 1)
      <4> DEFINE row == [status |-> "verified", version |-> rows[c.entry].version + 1]
      <4>1. row \in AttachmentT /\ row.status = "verified"
        BY <1>0 DEF AttachmentT
      <4>2. rows' = [rows EXCEPT ![c.entry] = row]
        BY <3>3 DEF Becomes
      <4> HIDE DEF row
      <4> QED
        BY <1>0, <1>3, <3>1, <3>2, <3>3, <4>1, <4>2, WritesKeeps
    <3>4. CASE Dies(c)
      BY <3>1, <3>2, <3>4, DeathKeeps
    <3> QED
      BY <2>1, <2>2, <3>3, <3>4
  <2>3. CASE ~Approved(staged[c.entry], scan)
    <3>1. /\ stored' \in [Upload -> {NoFile, "whole"}] /\ staged' \in [Upload -> Files]
          /\ \A b \in Upload : stored[b] = "whole" => stored'[b] = "whole"
      BY <1>0, <2>1, <2>3 DEF Stages, AttachTypes
    <3>2. CASE Becomes(c.entry, "failed") /\ Answer(c, "failed", 0)
      <4> DEFINE row == [status |-> "failed", version |-> rows[c.entry].version + 1]
      <4>1. row \in AttachmentT /\ row.status = "failed"
        BY <1>0 DEF AttachmentT
      <4>2. rows' = [rows EXCEPT ![c.entry] = row]
        BY <3>2 DEF Becomes
      <4> HIDE DEF row
      <4> QED
        BY <1>0, <1>3, <3>1, <3>2, <4>1, <4>2, WritesKeeps
    <3>3. CASE Dies(c)
      BY <3>1, <3>3, DeathKeeps
    <3> QED
      BY <2>1, <2>3, <3>2, <3>3
  <2> QED
    BY <2>2, <2>3
<1> QED
  BY <1>1, <1>2, <1>3

-----------------------------------------------------------------------------
(* Tabs.                                                                   *)

\* What rows and files say when only the queue and the tabs change.
LEMMA ServerRests ==
  ASSUME AttachInv, UNCHANGED serverSide
  PROVE  /\ rows' = rows /\ staged' = staged /\ stored' = stored
         /\ VerifiedIsWhole' /\ \A b : InSpace(b)' = InSpace(b)
<1>1. rows' = rows /\ staged' = staged /\ stored' = stored
  BY DEF serverSide
<1> QED
  BY <1>1 DEF AttachInv, VerifiedIsWhole, InSpace

\* An entry that no tab holds is queued, tried again or removed.
LEMMA QueueKeeps ==
  ASSUME AttachInv, NEW a \in Upload, Enqueue(a) \/ RetryUpload(a) \/ RemoveFailed(a) PROVE AttachInv'
<1>1. PICK state \in {"pending_upload", "removed"} :
        /\ queue' = [queue EXCEPT ![a] = state] /\ queue[a] \in {"none", "failed"}
        /\ state = "removed" => queue[a] = "failed"
        /\ UNCHANGED <<uploader, excused, serverSide, calls, slips>>
  BY DEF Enqueue, RetryUpload, RemoveFailed
<1>2. /\ queue' \in [Upload -> QueueStates] /\ queue'[a] = state
      /\ \A b \in Upload : b # a => queue'[b] = queue[b]
  BY <1>1 DEF AttachInv, AttachTypes, QueueStates
<1>3. rows' = rows /\ staged' = staged /\ stored' = stored /\ VerifiedIsWhole' /\ \A b : InSpace(b)' = InSpace(b)
  BY <1>1, ServerRests
<1>4. AttachTypes' /\ CallsAreAwaited' /\ RoomIsKept'
  BY <1>1, <1>2, <1>3 DEF AttachInv, AttachTypes, CallsAreAwaited, RoomIsKept
<1>5. ShownVerifiedIsVerified'
  BY <1>1, <1>2, <1>3 DEF AttachInv, ShownVerifiedIsVerified
<1>6. ASSUME NEW b \in Upload \ excused' PROVE Undisturbed(b)'
  <2>1. Undisturbed(b) /\ \A t \in Uploader : Works(t, b)' <=> Works(t, b)
    BY <1>1, <1>6 DEF AttachInv, Works
  <2> QED
    BY <1>1, <1>2, <1>3, <2>1 DEF Undisturbed
<1> QED
  BY <1>3, <1>4, <1>5, <1>6 DEF AttachInv

\* Facts about a tab at work.
LEMMA TabFacts ==
  ASSUME AttachInv, NEW t \in Uploader, uploader[t].step # "idle"
  PROVE  /\ AttachTypes /\ uploader[t] \in UploaderT /\ uploader[t].entry \in Upload
         /\ Works(t, uploader[t].entry)
         /\ \A c \in calls : c.tab = t /\ ~c.gone => uploader[t].step = "wait"
  BY DEF AttachInv, AttachTypes, CallsAreAwaited, Works

\* A tab takes up an entry; when another one is about to mark it, neither is
\* sure of its answers.
LEMMA BeginUploadKeeps ==
  ASSUME AttachInv, NEW t \in Uploader, NEW a \in Upload, BeginUpload(t, a) PROVE AttachInv'
<1> DEFINE row == [step |-> "mark", entry |-> a, version |-> 0]
<1>1. /\ uploader[t] = AtRest /\ queue[a] = "pending_upload" /\ uploader' = [uploader EXCEPT ![t] = row]
      /\ UNCHANGED <<queue, serverSide, calls, slips>> /\ uploader \in [Uploader -> UploaderT]
      /\ excused' = IF \E u \in Uploader : uploader[u].step = "mark" /\ uploader[u].entry = a
                    THEN excused \cup {a} ELSE excused
  BY DEF BeginUpload, Uploadable, AttachInv, AttachTypes
<1>2. row \in UploaderT /\ row.step = "mark" /\ row.entry = a
  BY DEF UploaderT
<1> HIDE DEF row
<1>3. /\ uploader' \in [Uploader -> UploaderT] /\ uploader'[t] = row
      /\ \A u \in Uploader : u # t => uploader'[u] = uploader[u]
  BY <1>1, <1>2
<1>4. rows' = rows /\ staged' = staged /\ stored' = stored /\ VerifiedIsWhole' /\ \A b : InSpace(b)' = InSpace(b)
  BY <1>1, ServerRests
<1>5. \A c \in calls : ~c.gone => c.tab # t
  BY <1>1 DEF AttachInv, CallsAreAwaited, AtRest
<1>6. AttachTypes'
  <2>1. excused' \subseteq Upload
    BY <1>1 DEF AttachInv, AttachTypes
  <2> QED
    BY <1>1, <1>2, <1>3, <1>4, <2>1 DEF AttachInv, AttachTypes
<1>7. CallsAreAwaited'
  BY <1>1, <1>2, <1>3, <1>4, <1>5 DEF AttachInv, CallsAreAwaited, AttachTypes, CallT
<1>8. RoomIsKept' /\ ShownVerifiedIsVerified'
  BY <1>1, <1>4 DEF AttachInv, RoomIsKept, ShownVerifiedIsVerified
<1>9. ASSUME NEW b \in Upload \ excused' PROVE Undisturbed(b)'
  <2>1. b \notin excused /\ Undisturbed(b)
    BY <1>1, <1>9 DEF AttachInv
  <2>2. CASE b = a
    <3>1. \A u \in Uploader : ~Works(u, a)
      <4>1. ~\E u \in Uploader : uploader[u].step = "mark" /\ uploader[u].entry = a
        BY <1>1, <1>9, <2>2
      <4> QED
        BY <1>1, <2>1, <2>2, <4>1 DEF Undisturbed, Works
    <3>2. \A u \in Uploader : Works(u, a)' => u = t
      BY <1>3, <3>1 DEF Works
    <3>3. (\A c \in calls : c.entry # a) /\ rows[a].status # "verified"
      BY <1>1, <2>1, <2>2 DEF Undisturbed
    <3> QED
      BY <1>1, <1>2, <1>3, <1>4, <2>2, <3>2, <3>3 DEF Undisturbed
  <2>3. CASE b # a
    <3>1. \A u \in Uploader : /\ Works(u, b)' <=> Works(u, b)
                              /\ Works(u, b) => uploader'[u] = uploader[u]
      BY <1>1, <1>2, <1>3, <2>3 DEF Works, AtRest
    <3> QED
      BY <1>1, <1>4, <2>1, <3>1 DEF Undisturbed
  <2> QED
    BY <2>2, <2>3
<1> QED
  BY <1>4, <1>6, <1>7, <1>8, <1>9 DEF AttachInv

\* A tab sends its next request and waits.
LEMMA SendKeeps ==
  ASSUME AttachInv, NEW t \in Uploader, SendInit(t) \/ SendNext(t) PROVE AttachInv'
<1> DEFINE a == uploader[t].entry
           row == [uploader[t] EXCEPT !.step = "wait"]
<1>1. PICK d \in CallT :
        /\ calls' = calls \cup {d} /\ d.tab = t /\ d.entry = a /\ ~d.gone
        /\ d.phase \in {"init", "put", "complete"}
        /\ d.phase \in {"put", "complete"} => d.phase = uploader[t].step
        /\ uploader[t].step \in {"mark", "put", "complete"}
        /\ d.phase = "init" <=> uploader[t].step = "mark"
  <2>1. CASE SendInit(t)
    <3> DEFINE d == Call(t, a, "init", 0)
    <3>1. uploader[t].step = "mark"
      BY <2>1 DEF SendInit
    <3>2. d \in CallT /\ d.tab = t /\ d.entry = a /\ ~d.gone /\ d.phase = "init"
      BY <3>1, TabFacts DEF Call, CallT
    <3> QED
      BY <2>1, <3>1, <3>2 DEF SendInit
  <2>2. CASE SendNext(t)
    <3> DEFINE d == Call(t, a, uploader[t].step, uploader[t].version)
    <3>1. uploader[t].step \in {"put", "complete"}
      BY <2>2 DEF SendNext
    <3>2. d \in CallT /\ d.tab = t /\ d.entry = a /\ ~d.gone /\ d.phase = uploader[t].step
      BY <3>1, TabFacts DEF Call, CallT, UploaderT
    <3> QED
      BY <2>2, <3>1, <3>2 DEF SendNext
  <2> QED
    BY <2>1, <2>2
<1>2. /\ AttachTypes /\ a \in Upload /\ Works(t, a) /\ uploader[t] \in UploaderT
      /\ \A c \in calls : c.tab = t => c.gone
  BY <1>1, TabFacts
<1>3. /\ uploader' = [uploader EXCEPT ![t] = row]
      /\ UNCHANGED <<excused, serverSide, slips>> /\ uploader \in [Uploader -> UploaderT]
      /\ \/ uploader[t].step = "mark" /\ Mark(a, "uploading")
         \/ uploader[t].step # "mark" /\ queue' = queue
  BY <1>2 DEF SendInit, SendNext, AttachTypes
<1>4. row \in UploaderT /\ row.step = "wait" /\ row.entry = a
  BY <1>2 DEF UploaderT
<1> HIDE DEF row
<1>5. /\ uploader' \in [Uploader -> UploaderT] /\ uploader'[t] = row
      /\ \A u \in Uploader : u # t => uploader'[u] = uploader[u]
  BY <1>3, <1>4
<1>6. rows' = rows /\ staged' = staged /\ stored' = stored /\ VerifiedIsWhole' /\ \A b : InSpace(b)' = InSpace(b)
  BY <1>3, ServerRests
<1>7. /\ queue' \in [Upload -> QueueStates]
      /\ \A b \in Upload : queue'[b] = "verified" => queue[b] = "verified"
      /\ \A b \in Upload : b # a => queue'[b] = queue[b]
      /\ uploader[t].step = "mark" /\ queue[a] # "removed" => queue'[a] = "uploading"
      /\ uploader[t].step # "mark" => queue' = queue
  BY <1>2, <1>3 DEF Mark, AttachTypes, QueueStates
<1>8. AttachTypes'
  BY <1>1, <1>2, <1>3, <1>4, <1>5, <1>6, <1>7 DEF AttachTypes
<1>9. CallsAreAwaited'
  <2>1. d.phase \in {"put", "complete"} => rows[a] # NoAttachment
    BY <1>1 DEF AttachInv, CallsAreAwaited
  <2>2. ASSUME NEW c \in calls'
        PROVE  /\ ~c.gone => uploader'[c.tab].step = "wait" /\ uploader'[c.tab].entry = c.entry
               /\ c.phase \in {"put", "complete"} => rows'[c.entry] # NoAttachment
               /\ \A e \in calls' : ~c.gone /\ ~e.gone /\ e.tab = c.tab => e = c
    <3>1. CASE c = d
      BY <1>1, <1>2, <1>4, <1>5, <1>6, <2>1, <3>1
    <3>2. CASE c \in calls
      <4>1. c.tab \in Uploader /\ (~c.gone => c.tab # t)
        BY <1>2, <3>2 DEF AttachTypes, CallT
      <4> QED
        BY <1>1, <1>2, <1>5, <1>6, <3>2, <4>1 DEF AttachInv, CallsAreAwaited
    <3> QED
      BY <1>1, <3>1, <3>2
  <2>3. ASSUME NEW u \in Uploader
        PROVE  /\ uploader'[u].step \in {"put", "complete"} => rows'[uploader'[u].entry] # NoAttachment
               /\ uploader'[u].step = "verified" => rows'[uploader'[u].entry].status = "verified"
    BY <1>4, <1>5, <1>6 DEF AttachInv, CallsAreAwaited
  <2> QED
    BY <2>2, <2>3 DEF CallsAreAwaited
<1>10. RoomIsKept'
  BY <1>1, <1>6 DEF AttachInv, RoomIsKept
<1>11. ShownVerifiedIsVerified'
  BY <1>6, <1>7 DEF AttachInv, ShownVerifiedIsVerified
<1>12. ASSUME NEW b \in Upload \ excused' PROVE Undisturbed(b)'
  <2>1. b \notin excused /\ Undisturbed(b)
    BY <1>3, <1>12 DEF AttachInv
  <2>2. \A u \in Uploader : Works(u, b)' <=> Works(u, b)
    BY <1>1, <1>4, <1>5 DEF Works
  <2>3. CASE b = a
    <3>1. \A u \in Uploader : Works(u, a) => u = t
      BY <1>2, <2>1, <2>3 DEF Undisturbed
    <3>2. (\A c \in calls : c.entry # a) /\ rows[a].status # "verified"
      BY <1>1, <1>2, <2>1, <2>3 DEF Undisturbed
    <3>3. queue'[a] = "uploading"
      BY <1>1, <1>2, <1>7, <2>1, <2>3 DEF Undisturbed
    <3> QED
      BY <1>1, <1>4, <1>5, <1>6, <2>2, <2>3, <3>1, <3>2, <3>3 DEF Undisturbed
  <2>4. CASE b # a
    <3>1. \A u \in Uploader : Works(u, b) => uploader'[u] = uploader[u]
      BY <1>5, <2>4 DEF Works
    <3> QED
      BY <1>1, <1>6, <1>7, <2>1, <2>2, <2>4, <3>1 DEF Undisturbed
  <2> QED
    BY <2>3, <2>4
<1> QED
  BY <1>6, <1>8, <1>9, <1>10, <1>11, <1>12 DEF AttachInv

LEMMA RestIsUploader == AtRest \in UploaderT /\ AtRest.step = "idle"
  BY DEF AtRest, UploaderT

\* A tab writes down what it was told and leaves the entry.
LEMMA SaveKeeps == ASSUME AttachInv, NEW t \in Uploader, SaveResult(t) PROVE AttachInv'
<1> DEFINE a == uploader[t].entry
           state == uploader[t].step
<1>1. /\ state \in {"verified", "failed"} /\ Mark(a, state) /\ uploader' = [uploader EXCEPT ![t] = AtRest]
      /\ UNCHANGED <<excused, serverSide, calls, slips>>
  BY DEF SaveResult
<1>2. /\ AttachTypes /\ a \in Upload /\ Works(t, a) /\ \A c \in calls : c.tab = t => c.gone
      /\ state = "verified" => rows[a].status = "verified"
  BY <1>1, TabFacts DEF AttachInv, CallsAreAwaited
<1>3. /\ uploader' \in [Uploader -> UploaderT] /\ uploader'[t] = AtRest
      /\ \A u \in Uploader : u # t => uploader'[u] = uploader[u]
  BY <1>1, <1>2, RestIsUploader DEF AttachTypes
<1>4. rows' = rows /\ staged' = staged /\ stored' = stored /\ VerifiedIsWhole' /\ \A b : InSpace(b)' = InSpace(b)
  BY <1>1, ServerRests
<1>5. /\ queue' \in [Upload -> QueueStates] /\ queue'[a] \in {state, "removed"}
      /\ queue[a] # "removed" => queue'[a] = state
      /\ \A b \in Upload : b # a => queue'[b] = queue[b]
  BY <1>1, <1>2 DEF Mark, AttachTypes, QueueStates
<1>6. AttachTypes'
  BY <1>1, <1>2, <1>3, <1>4, <1>5, RestIsUploader DEF AttachTypes
<1>7. CallsAreAwaited'
  BY <1>1, <1>2, <1>3, <1>4, RestIsUploader DEF AttachInv, CallsAreAwaited, AttachTypes, CallT
<1>8. RoomIsKept'
  BY <1>1, <1>4 DEF AttachInv, RoomIsKept
<1>9. ShownVerifiedIsVerified'
  BY <1>2, <1>4, <1>5 DEF AttachInv, ShownVerifiedIsVerified
<1>10. ASSUME NEW b \in Upload \ excused' PROVE Undisturbed(b)'
  <2>1. b \notin excused /\ Undisturbed(b)
    BY <1>1, <1>10 DEF AttachInv
  <2>2. \A u \in Uploader : Works(u, b)' => u # t /\ Works(u, b) /\ uploader'[u] = uploader[u]
    BY <1>3, RestIsUploader DEF Works
  <2>3. CASE b = a
    <3>1. \A u \in Uploader : Works(u, b) => u = t
      BY <1>2, <2>1, <2>3 DEF Undisturbed
    <3>5. \A u \in Uploader : ~Works(u, b)'
      BY <2>2, <3>1
    <3>2. \A c \in calls : c.entry # a
      BY <1>1, <1>2, <2>1, <2>3 DEF Undisturbed
    <3>3. queue[a] = "uploading" /\ (state = "failed" => rows[a].status # "verified")
      BY <1>1, <1>2, <2>1, <2>3 DEF Undisturbed
    <3>4. queue'[b] = state
      BY <1>5, <2>3, <3>3
    <3>6. (\A c \in calls' : c.entry # b) /\ rows'[b] = rows[b]
      BY <1>1, <1>4, <2>3, <3>2
    <3>7. rows'[b].status = "verified" => queue'[b] \in {"uploading", "verified"}
      BY <1>1, <2>3, <3>3, <3>4, <3>6
    <3> QED
      BY <3>5, <3>6, <3>7 DEF Undisturbed
  <2>4. CASE b # a
    BY <1>1, <1>4, <1>5, <2>1, <2>2, <2>4 DEF Undisturbed
  <2> QED
    BY <2>3, <2>4
<1> QED
  BY <1>4, <1>6, <1>7, <1>8, <1>9, <1>10 DEF AttachInv

\* Requests that go on without their tab.
LEMMA GoneCall ==
  ASSUME NEW c \in CallT, NEW d, d = [c EXCEPT !.gone = TRUE]
  PROVE  d \in CallT /\ d.gone /\ d.tab = c.tab /\ d.entry = c.entry /\ d.phase = c.phase
  BY DEF CallT

\* Requests keep their places when some go on without their tab.
Leaves(t, row) ==
  /\ row \in UploaderT /\ uploader[t].step # "idle" /\ uploader' = [uploader EXCEPT ![t] = row]
  /\ IF row.step = "idle" THEN row = AtRest
     ELSE row.step = "failed" /\ row.entry = uploader[t].entry /\ row.entry \in excused'
  /\ excused \subseteq excused' /\ excused' \subseteq Upload /\ slips' \in 0..MaxSlips
  /\ UNCHANGED <<queue, serverSide>>
GoOn(t, f) ==
  /\ f \in [calls -> CallT] /\ calls' = {f[c] : c \in calls}
  /\ \A c \in calls : /\ f[c].tab = c.tab /\ f[c].entry = c.entry /\ f[c].phase = c.phase
                      /\ c.gone \/ c.tab = t => f[c].gone
                      /\ ~c.gone /\ c.tab # t => f[c] = c
LEMMA AbandonedKeeps ==
  ASSUME AttachInv, NEW t \in Uploader, NEW row, NEW f, Leaves(t, row), GoOn(t, f)
  PROVE  AttachInv'
<1> USE DEF Leaves, GoOn
<1>1. rows' = rows /\ staged' = staged /\ stored' = stored /\ VerifiedIsWhole' /\ \A b : InSpace(b)' = InSpace(b)
  BY ServerRests
<1>2. /\ AttachTypes /\ uploader[t].entry \in Upload
      /\ \A c \in calls : c.tab \in Uploader /\ c.entry \in Upload
  BY TabFacts DEF AttachTypes, CallT
<1>3. /\ uploader' \in [Uploader -> UploaderT] /\ uploader'[t] = row
      /\ \A u \in Uploader : u # t => uploader'[u] = uploader[u]
  BY <1>2 DEF AttachTypes
<1>4. AttachTypes'
  BY <1>1, <1>2, <1>3 DEF AttachTypes
<1>5. CallsAreAwaited'
  <2>1. ASSUME NEW c \in calls
        PROVE  /\ ~f[c].gone => /\ f[c] = c /\ ~c.gone /\ c.tab # t
                                /\ uploader'[c.tab].step = "wait" /\ uploader'[c.tab].entry = c.entry
               /\ f[c].phase \in {"put", "complete"} => rows'[f[c].entry] # NoAttachment
    BY <1>1, <1>2, <1>3 DEF AttachInv, CallsAreAwaited
  <2>2. \A c, d \in calls : ~f[c].gone /\ ~f[d].gone /\ f[c].tab = f[d].tab => f[c] = f[d]
    BY <2>1 DEF AttachInv, CallsAreAwaited
  <2>3. ASSUME NEW u \in Uploader
        PROVE  /\ uploader'[u].step \in {"put", "complete"} => rows'[uploader'[u].entry] # NoAttachment
               /\ uploader'[u].step = "verified" => rows'[uploader'[u].entry].status = "verified"
    BY <1>1, <1>3 DEF AttachInv, CallsAreAwaited
  <2> QED
    BY <2>1, <2>2, <2>3 DEF CallsAreAwaited
<1>6. RoomIsKept'
  <2>1. \A c, d \in calls :
          f[c].phase = "insert" /\ f[d].phase = "insert" /\ SpaceOf[f[c].entry] = SpaceOf[f[d].entry]
          => f[c] = f[d]
    <3>1. ASSUME NEW c \in calls, NEW d \in calls, f[c].phase = "insert", f[d].phase = "insert",
                 SpaceOf[f[c].entry] = SpaceOf[f[d].entry]
          PROVE  f[c] = f[d]
      <4>1. /\ c.phase = "insert" /\ d.phase = "insert" /\ SpaceOf[c.entry] = SpaceOf[d.entry]
        BY <3>1
      <4>2. c = d
        BY <4>1 DEF AttachInv, RoomIsKept
      <4> QED
        BY <4>2
    <3> QED
      BY <3>1
  <2>2. \A c \in calls : f[c].phase = "insert" => Cardinality(InSpace(f[c].entry)) + 1 <= Quota
    BY DEF AttachInv, RoomIsKept
  <2> QED
    BY <1>1, <2>1, <2>2 DEF AttachInv, RoomIsKept
<1>7. ShownVerifiedIsVerified'
  BY <1>1 DEF AttachInv, ShownVerifiedIsVerified
<1>8. ASSUME NEW b \in Upload \ excused' PROVE Undisturbed(b)'
  <2>1. b \notin excused /\ Undisturbed(b)
    BY <1>8 DEF AttachInv
  <2>2. \A u \in Uploader : Works(u, b)' => u # t /\ Works(u, b) /\ uploader'[u] = uploader[u]
    BY <1>3, <1>8 DEF Works
  <2>3. ASSUME NEW c \in calls, f[c].entry = b
        PROVE  /\ queue[b] = "uploading"
               /\ \A d \in calls : f[d].entry = b => f[d] = f[c]
               /\ \A u \in Uploader : Works(u, b)' => uploader'[u].step = "wait" /\ f[c].tab = u /\ ~f[c].gone
               /\ f[c].phase \in {"lock", "insert"} => rows[b] = NoAttachment
    BY <2>1, <2>2, <2>3 DEF Undisturbed
  <2>4. /\ \A u, v \in Uploader : Works(u, b)' /\ Works(v, b)' => u = v
        /\ \A u \in Uploader : Works(u, b)' =>
             /\ queue[b] = IF uploader'[u].step = "mark" THEN "pending_upload" ELSE "uploading"
             /\ uploader'[u].step = "failed" => rows[b].status # "verified"
    BY <2>1, <2>2 DEF Undisturbed
  <2>5. rows[b].status = "verified" =>
          /\ queue[b] \in {"uploading", "verified"} /\ \A c \in calls : f[c].entry # b
          /\ \A u \in Uploader : Works(u, b)' => uploader'[u].step = "verified"
    BY <2>1, <2>2 DEF Undisturbed
  <2> QED
    BY <1>1, <2>3, <2>4, <2>5 DEF Undisturbed
<1> QED
  BY <1>1, <1>4, <1>5, <1>6, <1>7, <1>8 DEF AttachInv

LEMMA CloseKeeps == ASSUME AttachInv, NEW t \in Uploader, CloseTab(t) PROVE AttachInv'
<1> DEFINE g(c) == IF c.tab = t THEN [c EXCEPT !.gone = TRUE] ELSE c
           f == [c \in calls |-> g(c)]
<1>1. /\ uploader[t] # AtRest /\ slips < MaxSlips /\ slips' = slips + 1
      /\ uploader' = [uploader EXCEPT ![t] = AtRest] /\ calls' = {g(c) : c \in calls}
      /\ UNCHANGED <<queue, excused, serverSide>>
  BY DEF CloseTab
<1>2. calls \subseteq CallT /\ slips \in 0..MaxSlips /\ MaxSlips \in Nat /\ excused \subseteq Upload
      /\ uploader[t].step # "idle"
  BY <1>1, AttachConstants DEF AttachInv, AttachTypes
<1>3. slips' \in 0..MaxSlips
  BY <1>1, <1>2
<1>4. \A c \in calls : /\ g(c) \in CallT /\ g(c).tab = c.tab /\ g(c).entry = c.entry /\ g(c).phase = c.phase
                       /\ c.gone \/ c.tab = t => g(c).gone
                       /\ ~c.gone /\ c.tab # t => g(c) = c
  <2>1. ASSUME NEW c \in calls, c.tab = t
        PROVE  /\ g(c) \in CallT /\ g(c).tab = c.tab /\ g(c).entry = c.entry /\ g(c).phase = c.phase
               /\ g(c).gone
    <3>1. c \in CallT /\ g(c) = [c EXCEPT !.gone = TRUE]
      BY <1>2, <2>1
    <3> HIDE DEF g
    <3> QED
      BY <3>1, GoneCall
  <2>2. ASSUME NEW c \in calls, c.tab # t
        PROVE  g(c) = c /\ c \in CallT
    BY <1>2, <2>2
  <2> HIDE DEF g
  <2> QED
    BY <2>1, <2>2
<1> HIDE DEF g
<1>5. f \in [calls -> CallT] /\ calls' = {f[c] : c \in calls} /\ \A c \in calls : f[c] = g(c)
  BY <1>1, <1>4
<1> HIDE DEF f
<1>6. GoOn(t, f)
  BY <1>4, <1>5 DEF GoOn
<1>7. Leaves(t, AtRest)
  BY <1>1, <1>2, <1>3, RestIsUploader DEF Leaves
<1> QED
  BY <1>6, <1>7, AbandonedKeeps

LEMMA GiveUpKeeps == ASSUME AttachInv, NEW c \in calls, GiveUpCall(c) PROVE AttachInv'
<1> DEFINE t == c.tab
           row == [uploader[t] EXCEPT !.step = "failed"]
           g(d) == IF d = c THEN [d EXCEPT !.gone = TRUE] ELSE d
           f == [d \in calls |-> g(d)]
<1>1. /\ ~c.gone /\ slips < MaxSlips /\ slips' = slips + 1
      /\ calls' = (calls \ {c}) \cup {[c EXCEPT !.gone = TRUE]}
      /\ uploader' = [uploader EXCEPT ![c.tab].step = "failed"] /\ excused' = excused \cup {c.entry}
      /\ UNCHANGED <<queue, serverSide>>
  BY DEF GiveUpCall
<1>2. /\ calls \subseteq CallT /\ slips \in 0..MaxSlips /\ MaxSlips \in Nat /\ excused' \subseteq Upload
      /\ t \in Uploader /\ uploader[t].step = "wait" /\ uploader[t].entry = c.entry
      /\ uploader[t] \in UploaderT /\ uploader \in [Uploader -> UploaderT]
      /\ \A d \in calls : d.tab = t /\ ~d.gone => d = c
  BY <1>1, AttachConstants DEF AttachInv, AttachTypes, CallT, CallsAreAwaited
<1>3. slips' \in 0..MaxSlips /\ excused \subseteq excused'
  BY <1>1, <1>2
<1>4. \A d \in calls : /\ g(d) \in CallT /\ g(d).tab = d.tab /\ g(d).entry = d.entry /\ g(d).phase = d.phase
                       /\ d.gone \/ d.tab = t => g(d).gone
                       /\ ~d.gone /\ d.tab # t => g(d) = d
  <2>1. ASSUME NEW d \in calls, d = c
        PROVE  /\ g(d) \in CallT /\ g(d).tab = d.tab /\ g(d).entry = d.entry /\ g(d).phase = d.phase
               /\ g(d).gone
    <3>1. d \in CallT /\ g(d) = [d EXCEPT !.gone = TRUE]
      BY <1>2, <2>1
    <3> HIDE DEF g
    <3> QED
      BY <3>1, GoneCall
  <2>2. ASSUME NEW d \in calls, d # c
        PROVE  g(d) = d /\ d \in CallT /\ (d.tab = t => d.gone)
    BY <1>2, <2>2
  <2>3. c.tab = t
    OBVIOUS
  <2> HIDE DEF g
  <2> QED
    BY <2>1, <2>2, <2>3
<1>5. uploader' = [uploader EXCEPT ![t] = row]
  BY <1>1, <1>2
<1>6. row \in UploaderT /\ row.step = "failed" /\ row.entry = c.entry
  BY <1>2 DEF UploaderT
<1>7. calls' = {g(d) : d \in calls}
  BY <1>1
<1> HIDE DEF g, row
<1>8. f \in [calls -> CallT] /\ calls' = {f[d] : d \in calls} /\ \A d \in calls : f[d] = g(d)
  BY <1>4, <1>7
<1> HIDE DEF f
<1>9. GoOn(t, f)
  BY <1>4, <1>8 DEF GoOn
<1>10. Leaves(t, row)
  BY <1>1, <1>2, <1>3, <1>5, <1>6 DEF Leaves
<1> HIDE DEF t
<1> QED
  BY <1>2, <1>9, <1>10, AbandonedKeeps

-----------------------------------------------------------------------------
(* Theorems.                                                               *)

LEMMA AttachInvInit == ASSUME AttachInit PROVE AttachInv
<1>1. NoAttachment \in AttachmentT /\ NoAttachment.status = "none" /\ NoFile \in Files
  BY DEF NoAttachment, AttachmentT, Files
<1>2. AttachTypes
  BY <1>1, AttachConstants, RestIsUploader DEF AttachInit, AttachTypes, QueueStates
<1>3. RoomIsKept
  <2>1. {b \in Upload : rows[b] # NoAttachment} = {} /\ \A a \in Upload : InSpace(a) = {}
    BY DEF AttachInit, InSpace
  <2> QED
    BY <2>1, FS_EmptySet, AttachConstants DEF AttachInit, RoomIsKept
<1>4. CallsAreAwaited /\ \A a \in Upload : Undisturbed(a)
  BY <1>1, RestIsUploader DEF AttachInit, CallsAreAwaited, Undisturbed, Works
<1> QED
  BY <1>1, <1>2, <1>3, <1>4 DEF AttachInit, AttachInv, VerifiedIsWhole, ShownVerifiedIsVerified

LEMMA AttachInvStep == ASSUME AttachInv, [AttachNext]_attachVars PROVE AttachInv'
<1>1. ASSUME NEW a \in Upload, Enqueue(a) \/ RetryUpload(a) \/ RemoveFailed(a) PROVE AttachInv'
  BY <1>1, QueueKeeps
<1>2. ASSUME NEW t \in Uploader, NEW a \in Upload, BeginUpload(t, a) PROVE AttachInv'
  BY <1>2, BeginUploadKeeps
<1>3. ASSUME NEW t \in Uploader, SendInit(t) \/ SendNext(t) \/ SaveResult(t) \/ CloseTab(t) PROVE AttachInv'
  BY <1>3, SendKeeps, SaveKeeps, CloseKeeps
<1>4. ASSUME NEW c \in calls, GiveUpCall(c) \/ LookUp(c) \/ ReadQuota(c) \/ InsertRow(c) PROVE AttachInv'
  BY <1>4, GiveUpKeeps, InitiateKeeps
<1>5. ASSUME NEW c \in calls, NEW content \in {"whole", "altered", "cut"}, PutContent(c, content)
      PROVE  AttachInv'
  BY <1>5, PutKeeps
<1>6. ASSUME NEW c \in calls, NEW scan \in BOOLEAN, Complete(c, scan) PROVE AttachInv'
  BY <1>6, CompleteKeeps
<1>7. ASSUME UNCHANGED attachVars PROVE AttachInv'
  <2>1. UNCHANGED <<queue, uploader, calls, rows, staged, stored, excused, slips>>
    BY <1>7 DEF attachVars, clientSide, serverSide
  <2> QED
    <3>1. AttachTypes' /\ CallsAreAwaited'
      BY <2>1 DEF AttachInv, AttachTypes, CallsAreAwaited
    <3>2. RoomIsKept'
      BY <2>1 DEF AttachInv, RoomIsKept, InSpace
    <3>3. \A a \in Upload \ excused' : Undisturbed(a)'
      BY <2>1 DEF AttachInv, Undisturbed, Works
    <3> QED
      BY <2>1, <3>1, <3>2, <3>3 DEF AttachInv, VerifiedIsWhole, ShownVerifiedIsVerified
<1> QED
  BY <1>1, <1>2, <1>3, <1>4, <1>5, <1>6, <1>7 DEF AttachNext

\* A verified attachment has the file that was declared, what a queue shows
\* as verified is so, and what it shows as failed is not unless an answer was
\* lost or two tabs began at once, and no space exceeds the quota
\* (attachment_service.py, resilience.ts).
THEOREM VerifiedMeansStored == AttachSpec => []VerifiedIsTrue
<1>1. AttachInit => AttachInv
  BY AttachInvInit
<1>2. AttachInv /\ [AttachNext]_attachVars => AttachInv'
  BY AttachInvStep
<1>3. AttachInv => VerifiedIsTrue
  <2> SUFFICES ASSUME AttachInv PROVE VerifiedIsTrue
    OBVIOUS
  <2>1. FailureIsTrue
    BY DEF AttachInv, Undisturbed, FailureIsTrue
  <2>2. SpaceHoldsQuota
    <3>1. \A a \in Upload : Cardinality(InSpace(a)) <= Quota
      BY DEF AttachInv, RoomIsKept
    <3> QED
      BY <3>1 DEF InSpace, SpaceHoldsQuota
  <2> QED
    BY <2>1, <2>2 DEF AttachInv, VerifiedIsTrue
<1> QED
  BY <1>1, <1>2, <1>3, PTL DEF AttachSpec

\* Neither the row nor the file of a verified attachment ever changes: no
\* late upload, completion or death of a process reaches it.
THEOREM VerifiedStays == AttachSpec => [][VerifiedIsFinal]_attachVars
<1>1. AttachInit => AttachInv
  BY AttachInvInit
<1>2. AttachInv /\ [AttachNext]_attachVars => AttachInv'
  BY AttachInvStep
<1>3. AttachInv /\ [AttachNext]_attachVars => [VerifiedIsFinal]_attachVars
  <2> SUFFICES ASSUME AttachInv, AttachNext, NEW a \in Upload, rows[a].status = "verified"
               PROVE  rows'[a] = rows[a] /\ stored'[a] = stored[a]
    BY DEF VerifiedIsFinal
  <2>1. ASSUME UNCHANGED serverSide PROVE rows'[a] = rows[a] /\ stored'[a] = stored[a]
    BY <2>1 DEF serverSide
  <2>2. ASSUME NEW c \in calls, InsertRow(c) PROVE rows'[a] = rows[a] /\ stored'[a] = stored[a]
    <3>1. CASE c.entry = a
      BY <2>2, <3>1 DEF InsertRow, NoAttachment
    <3>2. CASE c.entry # a
      BY <2>2, <3>2 DEF InsertRow, Dies, AttachInv, AttachTypes
    <3> QED
      BY <3>1, <3>2
  <2>3. ASSUME NEW c \in calls, NEW content \in {"whole", "altered", "cut"}, PutContent(c, content)
        PROVE  rows'[a] = rows[a] /\ stored'[a] = stored[a]
    <3>1. CASE c.entry = a
      BY <2>1, <2>3, <3>1 DEF PutContent, Overwritable, Refuse
    <3>2. CASE c.entry # a
      BY <2>3, <3>2 DEF PutContent, Refuse, Becomes, Dies, serverSide, AttachInv, AttachTypes
    <3> QED
      BY <3>1, <3>2
  <2>4. ASSUME NEW c \in calls, NEW scan \in BOOLEAN, Complete(c, scan)
        PROVE  rows'[a] = rows[a] /\ stored'[a] = stored[a]
    <3>1. CASE rows[c.entry].status = "verified"
      BY <2>1, <2>4, <3>1 DEF Complete
    <3>2. CASE rows[c.entry].status # "verified" /\ (rows[c.entry].version # c.version \/ rows[c.entry].status # "uploading")
      BY <2>1, <2>4, <3>2 DEF Complete, Refuse
    <3>3. CASE rows[c.entry].status = "uploading" /\ rows[c.entry].version = c.version
      <4>1. c.entry # a
        BY <3>3
      <4>2. rows \in [Upload -> AttachmentT] /\ stored \in [Upload -> {NoFile, "whole"}]
        BY DEF AttachInv, AttachTypes
      <4>3. rows'[a] = rows[a]
        BY <2>4, <3>3, <4>1, <4>2 DEF Complete, Becomes, Dies
      <4>4. stored'[a] = stored[a]
        BY <2>4, <3>3, <4>1, <4>2 DEF Complete, Becomes, Dies
      <4> QED
        BY <4>3, <4>4
    <3> QED
      BY <3>1, <3>2, <3>3
  <2>5. ASSUME NEW t \in Uploader, \/ \E b \in Upload : BeginUpload(t, b)
                                   \/ SendInit(t) \/ SendNext(t) \/ SaveResult(t) \/ CloseTab(t)
        PROVE  UNCHANGED serverSide
    BY <2>5, Zenon DEF BeginUpload, SendInit, SendNext, SaveResult, CloseTab
  <2>6. ASSUME NEW b \in Upload, Enqueue(b) \/ RetryUpload(b) \/ RemoveFailed(b) PROVE UNCHANGED serverSide
    BY <2>6, Zenon DEF Enqueue, RetryUpload, RemoveFailed
  <2>7. ASSUME NEW c \in calls, GiveUpCall(c) \/ LookUp(c) \/ ReadQuota(c) PROVE UNCHANGED serverSide
    BY <2>7, Zenon DEF GiveUpCall, LookUp, ReadQuota
  <2> QED
    BY <2>1, <2>2, <2>3, <2>4, <2>5, <2>6, <2>7 DEF AttachNext
<1> QED
  BY <1>1, <1>2, <1>3, PTL DEF AttachSpec

-----------------------------------------------------------------------------
(* A replica in one snapshot (SnapshotStaging).                            *)

SnapshotT == [epoch : Nat, head : Nat, rev : Nat]
ReplicaT == [device : Nat, epoch : Nat, cursor : Nat, state : {"none", "ready", "rebootstrap_required"}]
ManifestT == [snap : SnapshotT, device : Nat, complete : BOOLEAN, got : SUBSET (1..Chunks),
              from : [1..Chunks -> SnapshotT]]
WorkT == [device : Nat, fresh : BOOLEAN, isolated : BOOLEAN]
StrapT == [step : {"idle", "first", "prepare", "stage", "next"}, device : Nat, snap : SnapshotT,
           chunk : 0..Chunks, asked : SnapshotT]

\* A tab has asked for the chunks up to its own, for a device of the browser.
InStep(s) ==
  /\ s.step = "first" => s.chunk = 0
  /\ s.step \in {"prepare", "stage"} => s.chunk \in 1..Chunks
  /\ s.step = "next" => s.chunk < Chunks
StoreTypes ==
  /\ origin \in SnapshotT /\ device \in Nat /\ replica \in ReplicaT /\ manifests \subseteq ManifestT
  /\ held \in [1..Chunks -> SnapshotT] /\ outboxOf \subseteq WorkT
  /\ strap \in [StoreTab -> StrapT]
  /\ replica.device <= device /\ device > 0
  /\ \A t \in StoreTab : InStep(strap[t]) /\ strap[t].device <= device

\* What is staged of a snapshot is that snapshot's, and only one is staged.
StagingIsPure ==
  /\ \A m \in manifests : \A c \in m.got : m.from[c] = m.snap
  /\ \A m, n \in manifests : m.snap = n.snap \/ (~m.complete /\ ~n.complete) => m = n
  /\ \A m \in manifests :
       m.complete => m.device = replica.device /\ m.snap.epoch = replica.epoch /\ m.got = 1..Chunks

StoreInv == StoreTypes /\ StagingIsPure /\ HeldIsOneSnapshot /\ WorkKeepsItsDevice

LEMMA ClosedIsStrap == /\ Closed \in StrapT /\ InStep(Closed) /\ Closed.device = 0 /\ Closed.step = "idle" /\ Closed.chunk = 0
                       /\ NoSnapshot \in SnapshotT
<1>1. NoSnapshot \in SnapshotT
  BY DEF NoSnapshot, SnapshotT
<1>2. 0 \in 0..Chunks
  BY StagingConstants
<1> QED
  BY <1>1, <1>2 DEF Closed, StrapT, InStep

\* A tab goes on, and the store stays.
LEMMA StrapKeeps ==
  ASSUME StoreInv, NEW t \in StoreTab, NEW s \in StrapT, Sets(t, s), InStep(s), s.device <= device,
         UNCHANGED <<world, local>>
  PROVE  StoreInv'
<1>1. UNCHANGED <<origin, device, replica, manifests, held, outboxOf>>
  BY DEF world, local
<1>2. /\ strap' \in [StoreTab -> StrapT] /\ strap'[t] = s
      /\ \A u \in StoreTab : u # t => strap'[u] = strap[u]
  BY DEF Sets, StoreInv, StoreTypes
<1>3. StoreTypes'
  BY <1>1, <1>2 DEF StoreInv, StoreTypes, InStep
<1>4. StagingIsPure' /\ HeldIsOneSnapshot' /\ WorkKeepsItsDevice'
  BY <1>1 DEF StoreInv, StagingIsPure, HeldIsOneSnapshot, WorkKeepsItsDevice
<1> QED
  BY <1>3, <1>4 DEF StoreInv

LEMMA FetchKeeps ==
  ASSUME StoreInv, NEW t \in StoreTab, BeginBootstrap(t) \/ FetchChunk(t) PROVE StoreInv'
<1>1. /\ strap[t] \in StrapT /\ InStep(strap[t]) /\ strap[t].device <= device /\ device \in Nat
      /\ origin \in SnapshotT /\ device > 0 /\ Chunks \in Nat \ {0}
  BY StagingConstants DEF StoreInv, StoreTypes
<1>2. CASE BeginBootstrap(t)
  <2> DEFINE s == [Closed EXCEPT !.step = "first", !.device = device]
  <2>3. s \in StrapT /\ s.step = "first" /\ s.device = device /\ s.chunk = 0
    BY <1>1, ClosedIsStrap DEF StrapT
  <2>1. s \in StrapT /\ InStep(s) /\ s.device <= device
    BY <1>1, <2>3 DEF InStep
  <2>2. Sets(t, s) /\ UNCHANGED <<world, local>>
    BY <1>2 DEF BeginBootstrap
  <2> HIDE DEF s
  <2> QED
    BY <2>1, <2>2, StrapKeeps
<1>3. CASE FetchChunk(t) /\ (Stale(t) \/ strap[t].device # device)
  <2>1. Sets(t, Closed) /\ UNCHANGED <<world, local>> /\ Closed.device <= device
    BY <1>1, <1>3, ClosedIsStrap DEF FetchChunk
  <2> QED
    BY <2>1, ClosedIsStrap, StrapKeeps
<1>4. CASE FetchChunk(t) /\ ~(Stale(t) \/ strap[t].device # device)
  <2> DEFINE step == IF strap[t].step = "first" THEN "prepare" ELSE "stage"
             chunk == strap[t].chunk + 1
             s == [strap[t] EXCEPT !.step = step, !.snap = origin, !.chunk = chunk, !.asked = origin]
  <2>1. Sets(t, s) /\ UNCHANGED <<world, local>> /\ strap[t].step \in {"first", "next"}
    BY <1>4 DEF FetchChunk
  <2>2. chunk \in 0..Chunks /\ chunk \in 1..Chunks /\ step \in {"prepare", "stage"}
    BY <1>1, <2>1 DEF StrapT, InStep
  <2> HIDE DEF chunk, step
  <2>3. s \in StrapT /\ s.step = step /\ s.chunk = chunk /\ s.device = strap[t].device
    BY <1>1, <2>2 DEF StrapT
  <2> HIDE DEF s
  <2>4. InStep(s)
    BY <2>2, <2>3 DEF InStep
  <2> QED
    BY <1>1, <2>1, <2>3, <2>4, StrapKeeps
<1> QED
  BY <1>2, <1>3, <1>4 DEF FetchChunk

LEMMA PrepareKeeps == ASSUME StoreInv, NEW t \in StoreTab, PrepareDevice(t) PROVE StoreInv'
<1> DEFINE s == [strap[t] EXCEPT !.step = "stage"]
<1>1. /\ strap[t] \in StrapT /\ InStep(strap[t]) /\ strap[t].device <= device /\ device \in Nat
      /\ strap[t].step = "prepare" /\ UNCHANGED world
  BY DEF PrepareDevice, StoreInv, StoreTypes
<1>2. s \in StrapT /\ s.device = strap[t].device /\ s.chunk = strap[t].chunk /\ s.step = "stage"
  BY <1>1 DEF StrapT
<1>3. (Sets(t, s) /\ UNCHANGED local)
      \/ (Sets(t, Closed) /\ UNCHANGED local)
      \/ /\ Adoptable(t) /\ manifests' = {} /\ Sets(t, s) /\ UNCHANGED <<held, outboxOf>>
         /\ replica' = [replica EXCEPT !.device = strap[t].device, !.cursor = 0, !.state = "rebootstrap_required"]
  BY DEF PrepareDevice
<1> HIDE DEF s
<1>4. InStep(s) /\ s.device <= device /\ Closed.device <= device
  BY <1>1, <1>2, ClosedIsStrap DEF InStep
<1>5. CASE Sets(t, s) /\ UNCHANGED local
  BY <1>1, <1>2, <1>4, <1>5, StrapKeeps
<1>6. CASE Sets(t, Closed) /\ UNCHANGED local
  BY <1>1, <1>4, <1>6, ClosedIsStrap, StrapKeeps
<1>7. CASE /\ Adoptable(t) /\ manifests' = {} /\ Sets(t, s) /\ UNCHANGED <<held, outboxOf>>
           /\ replica' = [replica EXCEPT !.device = strap[t].device, !.cursor = 0, !.state = "rebootstrap_required"]
  <2>1. /\ replica' \in ReplicaT /\ replica'.device = strap[t].device /\ replica'.state = "rebootstrap_required"
    BY <1>1, <1>7 DEF StoreInv, StoreTypes, ReplicaT, StrapT
  <2>2. /\ strap' \in [StoreTab -> StrapT] /\ strap'[t] = s
        /\ \A u \in StoreTab : u # t => strap'[u] = strap[u]
    BY <1>2, <1>7 DEF Sets, StoreInv, StoreTypes
  <2>3. origin' = origin /\ device' = device
    BY <1>1 DEF world
  <2>4. StoreTypes'
    BY <1>1, <1>4, <1>7, <2>1, <2>2, <2>3 DEF StoreInv, StoreTypes, InStep
  <2>5. StagingIsPure' /\ HeldIsOneSnapshot'
    BY <1>7, <2>1 DEF StagingIsPure, HeldIsOneSnapshot
  <2>6. WorkKeepsItsDevice'
    BY <1>7, <2>1 DEF WorkKeepsItsDevice, Adoptable
  <2> QED
    BY <2>4, <2>5, <2>6 DEF StoreInv
<1> QED
  BY <1>3, <1>5, <1>6, <1>7

\* The chunks that have come are of the snapshot the tab asks for.
LEMMA FromIsPure ==
  ASSUME StoreInv, NEW t \in StoreTab, strap[t].chunk \in 1..Chunks, NEW c \in Received(t)
  PROVE  c \in 1..Chunks /\ From(t)[c] = strap[t].snap
<1> DEFINE snap == strap[t].snap
<1>1. CASE c = strap[t].chunk
  BY <1>1 DEF From
<1>2. CASE c # strap[t].chunk
  <2>1. PICK m \in Previous(snap) : c \in m.got
    BY <1>2 DEF Received
  <2>2. m \in manifests /\ m.snap = snap /\ \A n \in Previous(snap) : n = m
    BY <2>1 DEF Previous, StoreInv, StagingIsPure
  <2>3. (CHOOSE n \in Previous(snap) : TRUE) = m
    BY <2>1, <2>2
  <2>4. c \in 1..Chunks /\ m.from[c] = snap
    BY <2>1, <2>2 DEF StoreInv, StagingIsPure, StoreTypes, ManifestT
  <2> QED
    BY <1>2, <2>3, <2>4 DEF From
<1> QED
  BY <1>1, <1>2

LEMMA StagedKeeps ==
  ASSUME StoreInv, NEW t \in StoreTab, NEW s \in StrapT, InStep(s), s.device <= device, Sets(t, s),
         strap[t].chunk \in 1..Chunks, Admissible(t), ~Replayed(t), Staged(t), UNCHANGED world
  PROVE  StoreInv'
<1> DEFINE snap == strap[t].snap
           from == [c \in 1..Chunks |-> IF c \in Received(t) THEN From(t)[c] ELSE NoSnapshot]
           new == [snap |-> snap, device |-> strap[t].device, complete |-> FALSE, got |-> Received(t), from |-> from]
<1>1. /\ UNCHANGED <<origin, device, replica, held, outboxOf>>
      /\ manifests' = (manifests \ Previous(snap)) \cup {new}
  BY DEF Staged, world
<1>2. strap[t] \in StrapT /\ snap \in SnapshotT /\ strap[t].device \in Nat /\ manifests \subseteq ManifestT
  BY DEF StoreInv, StoreTypes, StrapT
<1>3. \A c \in Received(t) : c \in 1..Chunks /\ From(t)[c] = snap
  BY FromIsPure
<1>4. from \in [1..Chunks -> SnapshotT] /\ \A c \in Received(t) : from[c] = snap
  BY <1>2, <1>3, ClosedIsStrap
<1>5. Received(t) \in SUBSET (1..Chunks)
  BY <1>3
<1> HIDE DEF from
<1>6. /\ new \in ManifestT /\ new.snap = snap /\ ~new.complete
      /\ \A c \in new.got : new.from[c] = new.snap
  BY <1>2, <1>4, <1>5 DEF ManifestT
<1> HIDE DEF new
<1>7. /\ strap' \in [StoreTab -> StrapT] /\ strap'[t] = s
      /\ \A u \in StoreTab : u # t => strap'[u] = strap[u]
  BY DEF Sets, StoreInv, StoreTypes
<1>8. StoreTypes'
  BY <1>1, <1>2, <1>6, <1>7 DEF StoreInv, StoreTypes, InStep
<1>9. StagingIsPure'
  <2>1. \A m \in manifests \ Previous(snap) : m \in manifests /\ m.snap # snap /\ m.complete
    BY DEF Admissible, Previous
  <2> QED
    BY <1>1, <1>6, <2>1 DEF StoreInv, StagingIsPure
<1>10. HeldIsOneSnapshot' /\ WorkKeepsItsDevice'
  BY <1>1 DEF StoreInv, HeldIsOneSnapshot, WorkKeepsItsDevice
<1> QED
  BY <1>8, <1>9, <1>10 DEF StoreInv

LEMMA ActivatedKeeps ==
  ASSUME StoreInv, NEW t \in StoreTab, NEW s \in StrapT, InStep(s), s.device <= device, Sets(t, s),
         strap[t].chunk \in 1..Chunks, Received(t) = 1..Chunks, ~ForeignWork(t), Activated(t), UNCHANGED world
  PROVE  StoreInv'
<1> DEFINE snap == strap[t].snap
           new == [snap |-> snap, device |-> strap[t].device, complete |-> TRUE,
                   got |-> 1..Chunks, from |-> From(t)]
<1>1. /\ UNCHANGED <<origin, device>> /\ held' = From(t) /\ manifests' = {new}
      /\ replica' = [device |-> strap[t].device, epoch |-> snap.epoch, cursor |-> snap.head, state |-> "ready"]
      /\ outboxOf' = (IF replica.epoch \in {0, snap.epoch} THEN outboxOf
                      ELSE {[op EXCEPT !.isolated = TRUE] : op \in outboxOf})
  BY DEF Activated, world
<1>2. /\ strap[t] \in StrapT /\ snap \in SnapshotT /\ strap[t].device \in Nat
      /\ strap[t].device <= device /\ outboxOf \subseteq WorkT
  BY DEF StoreInv, StoreTypes, StrapT
<1>3. \A c \in 1..Chunks : From(t)[c] = snap
  BY FromIsPure
<1>4. From(t) \in [1..Chunks -> SnapshotT]
  BY <1>2, <1>3 DEF From
<1>5. /\ new \in ManifestT /\ new.snap = snap /\ new.complete /\ new.got = 1..Chunks /\ new.device = strap[t].device
      /\ \A c \in new.got : new.from[c] = new.snap
  BY <1>2, <1>3, <1>4 DEF ManifestT
<1>6. /\ replica' \in ReplicaT /\ replica'.device = strap[t].device /\ replica'.epoch = snap.epoch
      /\ replica'.cursor = snap.head
  BY <1>1, <1>2 DEF ReplicaT, SnapshotT
<1>7. \A op \in outboxOf' : op \in WorkT /\ op.device = strap[t].device
  <2>1. \A op \in outboxOf : op \in WorkT /\ op.device = strap[t].device
    BY <1>2 DEF ForeignWork
  <2>2. \A op \in WorkT : [op EXCEPT !.isolated = TRUE] \in WorkT /\ [op EXCEPT !.isolated = TRUE].device = op.device
    BY DEF WorkT
  <2> QED
    BY <1>1, <2>1, <2>2
<1>8. /\ strap' \in [StoreTab -> StrapT] /\ strap'[t] = s
      /\ \A u \in StoreTab : u # t => strap'[u] = strap[u]
  BY DEF Sets, StoreInv, StoreTypes
<1> HIDE DEF new
<1>9. StoreTypes'
  BY <1>1, <1>2, <1>4, <1>5, <1>6, <1>7, <1>8 DEF StoreInv, StoreTypes, InStep
<1>10. StagingIsPure'
  BY <1>1, <1>5, <1>6 DEF StagingIsPure
<1>11. HeldIsOneSnapshot'
  <2>1. 1 \in 1..Chunks
    BY StagingConstants
  <2> QED
    BY <1>1, <1>3, <1>6, <2>1 DEF HeldIsOneSnapshot
<1>12. WorkKeepsItsDevice'
  BY <1>6, <1>7 DEF WorkKeepsItsDevice
<1> QED
  BY <1>9, <1>10, <1>11, <1>12 DEF StoreInv

LEMMA StageKeeps == ASSUME StoreInv, NEW t \in StoreTab, StageChunk(t) PROVE StoreInv'
<1> DEFINE next == IF LastChunk(t) THEN Closed ELSE [strap[t] EXCEPT !.step = "next"]
<1>1. /\ strap[t].step = "stage" /\ UNCHANGED world
      /\ \/ Sets(t, Closed) /\ UNCHANGED local
         \/ Sets(t, next) /\ UNCHANGED local
         \/ Admissible(t) /\ ~Replayed(t) /\ Sets(t, next) /\ Staged(t)
         \/ Received(t) = 1..Chunks /\ ~ForeignWork(t) /\ Sets(t, next) /\ Activated(t)
  <2>1. strap[t].step = "stage" /\ UNCHANGED world
    BY DEF StageChunk
  <2>2. CASE ~Admissible(t)
    BY <2>1, <2>2 DEF StageChunk
  <2>3. CASE Admissible(t) /\ Replayed(t)
    BY <2>1, <2>3 DEF StageChunk
  <2>4. CASE Admissible(t) /\ ~Replayed(t) /\ Received(t) # 1..Chunks
    BY <2>1, <2>4 DEF StageChunk
  <2>5. CASE Admissible(t) /\ ~Replayed(t) /\ Received(t) = 1..Chunks
    BY <2>1, <2>5 DEF StageChunk
  <2> QED
    BY <2>2, <2>3, <2>4, <2>5
<1>2. /\ strap[t] \in StrapT /\ InStep(strap[t]) /\ strap[t].device <= device /\ device \in Nat
      /\ Chunks \in Nat
  BY StagingConstants DEF StoreInv, StoreTypes
<1>3. strap[t].chunk \in 1..Chunks
  BY <1>1, <1>2 DEF InStep
<1>4. next \in StrapT /\ InStep(next) /\ next.device <= device
  <2>1. CASE LastChunk(t)
    BY <1>2, <2>1, ClosedIsStrap
  <2>2. CASE ~LastChunk(t)
    <3> DEFINE s == [strap[t] EXCEPT !.step = "next"]
    <3>1. s \in StrapT /\ s.step = "next" /\ s.chunk = strap[t].chunk /\ s.device = strap[t].device /\ next = s
      BY <1>2, <2>2 DEF StrapT
    <3>2. strap[t].chunk < Chunks
      BY <1>2, <1>3, <2>2 DEF LastChunk
    <3> HIDE DEF s, next
    <3> QED
      BY <1>2, <3>1, <3>2 DEF InStep
  <2> QED
    BY <2>1, <2>2
<1> HIDE DEF next
<1>5. Closed.device <= device
  BY <1>2, ClosedIsStrap
<1>6. CASE Sets(t, Closed) /\ UNCHANGED local
  BY <1>1, <1>5, <1>6, ClosedIsStrap, StrapKeeps
<1>7. CASE Sets(t, next) /\ UNCHANGED local
  BY <1>1, <1>4, <1>7, StrapKeeps
<1>8. CASE Admissible(t) /\ ~Replayed(t) /\ Sets(t, next) /\ Staged(t)
  BY <1>1, <1>3, <1>4, <1>8, StagedKeeps
<1>9. CASE Received(t) = 1..Chunks /\ ~ForeignWork(t) /\ Sets(t, next) /\ Activated(t)
  BY <1>1, <1>3, <1>4, <1>9, ActivatedKeeps
<1> QED
  BY <1>1, <1>6, <1>7, <1>8, <1>9

LEMMA StoreMoves ==
  ASSUME StoreInv,
         \/ Pull \/ MustBootstrap \/ QueueWork \/ SendWork
         \/ LedgerWrite \/ RowWrite \/ RestoreOrigin \/ SignInAgain
  PROVE  StoreInv'
<1>1. /\ StoreTypes /\ StagingIsPure /\ HeldIsOneSnapshot /\ WorkKeepsItsDevice
      /\ origin \in SnapshotT /\ device \in Nat /\ replica \in ReplicaT
  BY DEF StoreInv, StoreTypes
<1>2. CASE Pull
  <2>1. /\ replica' = [replica EXCEPT !.cursor = origin.head] /\ held' = [c \in 1..Chunks |-> origin]
        /\ UNCHANGED <<origin, device, manifests, outboxOf, strap>> /\ replica.epoch = origin.epoch
    BY <1>2 DEF Pull, world
  <2>2. /\ replica' \in ReplicaT /\ replica'.cursor = origin.head
        /\ replica'.device = replica.device /\ replica'.epoch = replica.epoch
    BY <1>1, <2>1 DEF ReplicaT, SnapshotT
  <2>3. 1 \in 1..Chunks
    BY StagingConstants
  <2>4. StoreTypes'
    BY <1>1, <2>1, <2>2 DEF StoreTypes
  <2>5. StagingIsPure' /\ HeldIsOneSnapshot' /\ WorkKeepsItsDevice'
    BY <1>1, <2>1, <2>2, <2>3 DEF StagingIsPure, HeldIsOneSnapshot, WorkKeepsItsDevice
  <2> QED
    BY <2>4, <2>5 DEF StoreInv
<1>3. CASE MustBootstrap
  <2>1. /\ replica' = [replica EXCEPT !.state = "rebootstrap_required"]
        /\ UNCHANGED <<origin, device, manifests, held, outboxOf, strap>>
    BY <1>3 DEF MustBootstrap, world
  <2>2. /\ replica' \in ReplicaT /\ replica'.device = replica.device /\ replica'.epoch = replica.epoch
        /\ replica'.state # "ready"
    BY <1>1, <2>1 DEF ReplicaT
  <2> QED
    BY <1>1, <2>1, <2>2 DEF StoreInv, StoreTypes, StagingIsPure, HeldIsOneSnapshot, WorkKeepsItsDevice
<1>4. CASE QueueWork
  <2> DEFINE new == [device |-> device, fresh |-> TRUE, isolated |-> FALSE]
  <2>1. outboxOf' = outboxOf \cup {new} /\ UNCHANGED <<origin, device, replica, manifests, held, strap>>
    BY <1>4 DEF QueueWork, world
  <2>2. new \in WorkT /\ new.device = device
    BY <1>1 DEF WorkT
  <2> HIDE DEF new
  <2> QED
    BY <1>1, <2>1, <2>2 DEF StoreInv, StoreTypes, StagingIsPure, HeldIsOneSnapshot, WorkKeepsItsDevice
<1>5. CASE SendWork
  <2>1. UNCHANGED <<origin, device, replica, manifests, held, strap>>
    BY <1>5 DEF SendWork, world
  <2>2. PICK op \in outboxOf : outboxOf' \in {outboxOf \ {op}, (outboxOf \ {op}) \cup {[op EXCEPT !.fresh = FALSE]}}
    BY <1>5 DEF SendWork
  <2>3. op \in WorkT /\ [op EXCEPT !.fresh = FALSE] \in WorkT /\ [op EXCEPT !.fresh = FALSE].device = op.device
    BY <1>1 DEF StoreTypes, WorkT
  <2>4. \A p \in outboxOf' : p \in WorkT /\ \E q \in outboxOf : p.device = q.device
    BY <1>1, <2>2, <2>3 DEF StoreTypes
  <2>5. StoreTypes'
    BY <1>1, <2>1, <2>4 DEF StoreTypes
  <2>6. StagingIsPure' /\ HeldIsOneSnapshot' /\ WorkKeepsItsDevice'
    BY <1>1, <2>1, <2>4 DEF StagingIsPure, HeldIsOneSnapshot, WorkKeepsItsDevice
  <2> QED
    BY <2>5, <2>6 DEF StoreInv
<1>6. CASE LedgerWrite \/ RowWrite \/ RestoreOrigin
  <2>1. UNCHANGED <<device, replica, manifests, held, outboxOf, strap>>
    <3>1. CASE LedgerWrite
      BY <3>1, Zenon DEF LedgerWrite, Move, local
    <3>2. CASE RowWrite
      BY <3>2, Zenon DEF RowWrite, Move, local
    <3>3. CASE RestoreOrigin
      BY <3>3, Zenon DEF RestoreOrigin, Move, local
    <3> QED
      BY <1>6, <3>1, <3>2, <3>3
  <2>2. origin' \in SnapshotT
    <3>1. CASE LedgerWrite
      <4> DEFINE n == origin.head + 1
      <4>1. origin' = [origin EXCEPT !.head = n]
        BY <3>1 DEF LedgerWrite
      <4>2. n \in Nat
        BY <1>1 DEF SnapshotT
      <4> HIDE DEF n
      <4> QED
        BY <1>1, <4>1, <4>2 DEF SnapshotT
    <3>2. CASE RowWrite
      <4> DEFINE n == origin.rev + 1
      <4>1. origin' = [origin EXCEPT !.rev = n]
        BY <3>2 DEF RowWrite
      <4>2. n \in Nat
        BY <1>1 DEF SnapshotT
      <4> HIDE DEF n
      <4> QED
        BY <1>1, <4>1, <4>2 DEF SnapshotT
    <3>3. CASE RestoreOrigin
      <4> DEFINE n == origin.epoch + 1
      <4>1. PICK h \in 0..origin.head : origin' = [origin EXCEPT !.epoch = @ + 1, !.head = h]
        BY <3>3 DEF RestoreOrigin
      <4>2. n \in Nat
        BY <1>1 DEF SnapshotT
      <4>3. h \in Nat
        BY <4>1
      <4>4. origin' = [origin EXCEPT !.epoch = n, !.head = h]
        BY <4>1
      <4> HIDE DEF n
      <4> QED
        BY <1>1, <4>4, <4>2, <4>3 DEF SnapshotT
    <3> QED
      BY <1>6, <3>1, <3>2, <3>3
  <2> QED
    BY <1>1, <2>1, <2>2 DEF StoreInv, StoreTypes, StagingIsPure, HeldIsOneSnapshot, WorkKeepsItsDevice
<1>7. CASE SignInAgain
  <2>1. UNCHANGED <<origin, replica, manifests, held, outboxOf, strap>> /\ device' = device + 1
    BY <1>7 DEF SignInAgain, Move, local
  <2>2. /\ replica.device \in Nat /\ replica.device <= device /\ replica.device # device'
        /\ replica.device <= device' /\ device' \in Nat /\ device' > 0
    BY <1>1, <2>1 DEF StoreTypes, ReplicaT
  <2>3. \A t \in StoreTab : strap[t].device <= device'
    BY <1>1, <2>1 DEF StoreTypes, StrapT
  <2> QED
    BY <1>1, <2>1, <2>2, <2>3 DEF StoreInv, StoreTypes, StagingIsPure, HeldIsOneSnapshot, WorkKeepsItsDevice
<1> QED
  BY <1>2, <1>3, <1>4, <1>5, <1>6, <1>7

LEMMA StoreInvInit == ASSUME StagingInit PROVE StoreInv
<1>1. NoStore \in ReplicaT /\ NoStore.device = 0 /\ NoStore.state = "none"
  BY DEF NoStore, ReplicaT
<1>2. origin \in SnapshotT
  BY DEF StagingInit, SnapshotT
<1> QED
  BY <1>1, <1>2, ClosedIsStrap
  DEF StagingInit, StoreInv, StoreTypes, StagingIsPure, HeldIsOneSnapshot, WorkKeepsItsDevice

LEMMA StoreInvStep == ASSUME StoreInv, [StagingNext]_stagingVars PROVE StoreInv'
<1>1. ASSUME NEW t \in StoreTab, Bootstrapping(t) PROVE StoreInv'
  BY <1>1, FetchKeeps, PrepareKeeps, StageKeeps DEF Bootstrapping
<1>2. ASSUME NEW t \in StoreTab, CloseStoreTab(t) PROVE StoreInv'
  <2>1. Sets(t, Closed) /\ UNCHANGED <<origin, device, local>>
    BY <1>2 DEF CloseStoreTab
  <2>2. /\ strap' \in [StoreTab -> StrapT] /\ strap'[t] = Closed
        /\ \A u \in StoreTab : u # t => strap'[u] = strap[u]
    BY <2>1, ClosedIsStrap DEF Sets, StoreInv, StoreTypes
  <2>3. Closed.device <= device
    BY ClosedIsStrap DEF StoreInv, StoreTypes
  <2>4. StoreTypes'
    BY <2>1, <2>2, <2>3, ClosedIsStrap DEF StoreInv, StoreTypes, local
  <2>5. StagingIsPure' /\ HeldIsOneSnapshot' /\ WorkKeepsItsDevice'
    BY <2>1 DEF StoreInv, StagingIsPure, HeldIsOneSnapshot, WorkKeepsItsDevice, local
  <2> QED
    BY <2>4, <2>5 DEF StoreInv
<1>3. ASSUME UNCHANGED stagingVars PROVE StoreInv'
  BY <1>3 DEF stagingVars, StoreInv, StoreTypes, StagingIsPure, HeldIsOneSnapshot, WorkKeepsItsDevice
<1> QED
  BY <1>1, <1>2, <1>3, StoreMoves DEF StagingNext

\* A ready replica holds one snapshot, the one of its epoch and cursor, only
\* one snapshot is being staged, and work queued by one device is never taken
\* over by another, however many tabs bootstrap and wherever the server, the
\* session and the ledger move between two chunks (bootstrap.ts).
THEOREM ReplicaIsPure == StagingSpec => []ReplicaIsOneSnapshot
<1>1. StagingInit => StoreInv
  BY StoreInvInit
<1>2. StoreInv /\ [StagingNext]_stagingVars => StoreInv'
  BY StoreInvStep
<1>3. StoreInv => ReplicaIsOneSnapshot
  <2> SUFFICES ASSUME StoreInv PROVE OneStaging
    BY DEF StoreInv, ReplicaIsOneSnapshot
  <2> DEFINE S == {m \in manifests : ~m.complete}
  <2>1. \A m, n \in S : m = n
    BY DEF StoreInv, StagingIsPure
  <2>2. Cardinality(S) <= 1
    <3>1. CASE S = {}
      BY <3>1, FS_EmptySet
    <3>2. CASE S # {}
      <4>1. PICK m \in S : TRUE
        BY <3>2
      <4>2. S = {m}
        BY <2>1, <4>1
      <4>3. Cardinality({m}) = 1
        BY FS_Singleton
      <4> HIDE DEF S
      <4>4. Cardinality(S) = 1
        BY <4>2, <4>3
      <4> QED
        BY <4>4
    <3> QED
      BY <3>1, <3>2
  <2> QED
    BY <2>2 DEF StoreInv, StagingIsPure, OneStaging
<1> QED
  BY <1>1, <1>2, <1>3, PTL DEF StagingSpec

-----------------------------------------------------------------------------
(* The draft of a form (FormDrafts), for users who wait while their draft  *)
(* is read again.                                                          *)

RowT == [id : Nat, version : Nat, text : Nat]
EditorT == [status : {"loading", "idle", "pending", "saving", "saved", "offered", "error"},
            fields : Nat, saved : Nat, remote : RowT, loaded : BOOLEAN, conflicted : BOOLEAN,
            submitted : BOOLEAN, timer : BOOLEAN]
SavingT == [text : Nat, answer : {"none", "lost", "ok", "conflict"}, row : RowT]
ErrandT == [at : {"none", "discard", "deleting", "submit", "rechecking", "save", "acting"},
            answer : {"none", "lost", "ok", "conflict"}, known : RowT]
FormTypes ==
  /\ draft \in RowT /\ ids \in Nat /\ records \in Seq([text : Nat, used : RowT])
  /\ editor \in [FormTab -> EditorT] /\ reading \in [FormTab -> BOOLEAN]
  /\ saving \in [FormTab -> SavingT] /\ errand \in [FormTab -> ErrandT]
  /\ confirmed \in SUBSET Nat /\ settled \in [FormTab -> SUBSET Nat]

\* A row somebody has seen, when the draft is d, n ids were given and the
\* server has held the texts c: id and version say which text it was.
Seen(k, d, n, c) ==
  /\ k.id <= n /\ (k.id = 0 => k = NoDraft) /\ (k # NoDraft => k.text \in c)
  /\ k.id = d.id => k.version <= d.version /\ (k.version = d.version => k = d)

\* A draft that was submitted is the record's, and nobody else's.
RecordsAreDrafts ==
  \A i \in DOMAIN records : records[i].used # NoDraft =>
    /\ records[i].text = records[i].used.text
    /\ records[i].used.id \in 1..ids /\ records[i].used.id # draft.id
    /\ \A j \in DOMAIN records \ {i} : records[j].used.id # records[i].used.id

\* What a tab's user typed, or was shown and decided on.
Mine(t) == {0} \cup TextOf[t] \cup settled[t]
Tracked == {"idle", "pending", "saving", "saved"}

\* What is in flight, and what the form may show meanwhile.
FlightOk(e, r, s, j) ==
  /\ s = NoSave <=> s.answer = "none"
  /\ j.at = "none" => j = NoJob
  /\ s # NoSave => e.status = "saving" /\ e.loaded /\ ~r /\ j.at \in {"none", "submit", "save"}
  /\ e.status = "saving" => s # NoSave
  /\ e.status = "loading" => r
  /\ r => e.status \in {"loading", "error"} /\ j.at \in {"none", "submit", "rechecking"}
  /\ ~e.loaded => e.remote = NoDraft /\ e.status \in {"loading", "error"}
  /\ e.timer => e.status = "pending" /\ j.at = "none"
  /\ e.submitted => e.remote = NoDraft /\ e.status = "idle" /\ j.at = "none"
  /\ e.status = "offered" => e.remote # NoDraft
  /\ j.at \in {"save", "acting"} => e.status \in Tracked
  /\ j.at \in {"discard", "deleting"} => e.loaded

\* Texts: what is taken for saved is what the draft says, and the draft says
\* what the user knows of, unless it is being offered.
TextsOk(e, s, j, mine) ==
  /\ e.fields \in mine
  /\ s # NoSave => s.text \in mine
  /\ e.status \in Tracked /\ e.remote # NoDraft => e.saved = e.remote.text
  /\ e.remote # NoDraft /\ (e.status # "offered" \/ j.at \in {"discard", "deleting"}) => e.remote.text \in mine
  /\ j.at = "acting" => e.fields = e.saved
  /\ j.at = "rechecking" /\ j.known # NoDraft => j.known.text \in mine
  /\ j.at = "rechecking" /\ e.status = "offered" /\ e.remote.id = j.known.id /\ e.remote.version = j.known.version =>
       e.remote = j.known
  /\ e.status = "saved" /\ j.at = "none" => e.fields = e.saved

\* What the tab has been told by the server.
ToldOk(e, s, j, d, n, c) ==
  /\ Seen(e.remote, d, n, c) /\ Seen(j.known, d, n, c)
  /\ s.answer = "ok" => Seen(s.row, d, n, c) /\ s.row # NoDraft /\ s.row.text = s.text
  /\ e.status = "saved" => e.saved \in c

TabOk(t) ==
  /\ FlightOk(editor[t], reading[t], saving[t], errand[t])
  /\ TextsOk(editor[t], saving[t], errand[t], Mine(t))
  /\ ToldOk(editor[t], saving[t], errand[t], draft, ids, confirmed)

FormInv ==
  /\ FormTypes
  /\ Seen(draft, draft, ids, confirmed) /\ RecordsAreDrafts
  /\ \A t \in FormTab : TabOk(t)

\* What becomes of the draft in a step, and that other tabs do not move.
DraftMoves ==
  \/ draft' = draft /\ ids' = ids
  \/ draft' = NoDraft /\ ids' = ids
  \/ draft'.id = draft.id /\ draft.id # 0 /\ draft.version < draft'.version /\ ids' = ids
  \/ draft'.id = ids + 1 /\ ids' = ids + 1
OthersStay(t) ==
  \A u \in FormTab \ {t} :
    /\ editor'[u] = editor[u] /\ reading'[u] = reading[u] /\ saving'[u] = saving[u]
    /\ errand'[u] = errand[u] /\ settled'[u] = settled[u]

LEMMA NoDraftRow == NoDraft \in RowT /\ NoDraft.id = 0 /\ NoDraft.version = 0 /\ NoDraft.text = 0
  BY DEF NoDraft, RowT

\* What was seen is known for what it was, whatever becomes of the draft.
LEMMA SeenLasts ==
  ASSUME FormTypes, FormTypes', DraftMoves, confirmed \subseteq confirmed', NEW k \in RowT,
         Seen(k, draft, ids, confirmed)
  PROVE  Seen(k, draft', ids', confirmed')
<1>1. /\ k.id \in Nat /\ k.version \in Nat /\ ids \in Nat
      /\ draft.id \in Nat /\ draft.version \in Nat /\ draft'.id \in Nat /\ draft'.version \in Nat
  BY DEF FormTypes, RowT
<1>2. /\ k.id <= ids /\ (k.id = 0 => k = NoDraft) /\ (k # NoDraft => k.text \in confirmed)
      /\ k.id = draft.id => k.version <= draft.version /\ (k.version = draft.version => k = draft)
  BY DEF Seen
<1>3. k.id <= ids' /\ (k # NoDraft => k.text \in confirmed')
  BY <1>1, <1>2 DEF DraftMoves
<1>4. ASSUME k.id = draft'.id
      PROVE  k.version <= draft'.version /\ (k.version = draft'.version => k = draft')
  <2>1. CASE draft' = draft
    BY <1>2, <1>4, <2>1
  <2>2. CASE draft' = NoDraft
    BY <1>2, <1>4, <2>2, NoDraftRow
  <2>3. CASE draft'.id = draft.id /\ draft.version < draft'.version
    <3>1. k.version <= draft.version
      BY <1>2, <1>4, <2>3
    <3> QED
      BY <1>1, <2>3, <3>1
  <2>4. CASE draft'.id = ids + 1
    BY <1>1, <1>2, <1>4, <2>4
  <2> QED
    BY <2>1, <2>2, <2>3, <2>4 DEF DraftMoves
<1> QED
  BY <1>2, <1>3, <1>4 DEF Seen

\* A tab that does not move has what it had.
LEMMA TabStays ==
  ASSUME FormInv, FormTypes', DraftMoves, confirmed \subseteq confirmed', NEW u \in FormTab,
         /\ editor'[u] = editor[u] /\ reading'[u] = reading[u] /\ saving'[u] = saving[u]
         /\ errand'[u] = errand[u] /\ settled'[u] = settled[u]
  PROVE  TabOk(u)'
<1>1. TabOk(u) /\ FormTypes
  BY DEF FormInv
<1>2. editor[u].remote \in RowT /\ errand[u].known \in RowT /\ saving[u].row \in RowT
  BY <1>1 DEF FormTypes, EditorT, ErrandT, SavingT
<1>3. ToldOk(editor[u], saving[u], errand[u], draft', ids', confirmed')
  <2>1. Seen(editor[u].remote, draft', ids', confirmed') /\ Seen(errand[u].known, draft', ids', confirmed')
    BY <1>1, <1>2, SeenLasts DEF TabOk, ToldOk
  <2>2. saving[u].answer = "ok" => Seen(saving[u].row, draft', ids', confirmed')
    BY <1>1, <1>2, SeenLasts DEF TabOk, ToldOk
  <2> QED
    BY <1>1, <2>1, <2>2 DEF TabOk, ToldOk
<1> QED
  BY <1>1, <1>3 DEF TabOk, Mine

\* A step of one tab.
LEMMA TabStep ==
  ASSUME FormInv, NEW t \in FormTab, FormTypes', OthersStay(t), DraftMoves, confirmed \subseteq confirmed',
         Seen(draft', draft', ids', confirmed'), RecordsAreDrafts', TabOk(t)'
  PROVE  FormInv'
<1>1. ASSUME NEW u \in FormTab PROVE TabOk(u)'
  <2>1. CASE u = t
    BY <2>1
  <2>2. CASE u # t
    BY <2>2, TabStays DEF OthersStay
  <2> QED
    BY <2>1, <2>2
<1> QED
  BY <1>1 DEF FormInv

\* A step of the server only.
LEMMA ServerStep ==
  ASSUME FormInv, FormTypes', DraftMoves, confirmed \subseteq confirmed',
         UNCHANGED <<editor, reading, saving, errand, settled>>,
         Seen(draft', draft', ids', confirmed'), RecordsAreDrafts'
  PROVE  FormInv'
<1>1. \A u \in FormTab : TabOk(u)'
  BY TabStays
<1> QED
  BY <1>1 DEF FormInv

\* A step of one tab that the server does not see.
LEMMA LocalStep ==
  ASSUME FormInv, NEW t \in FormTab, FormTypes', OthersStay(t), TabOk(t)',
         UNCHANGED <<draft, ids, records, confirmed>>
  PROVE  FormInv'
<1>1. Seen(draft', draft', ids', confirmed') /\ RecordsAreDrafts'
  BY DEF FormInv, RecordsAreDrafts
<1> QED
  BY <1>1, TabStep DEF DraftMoves


LEMMA TabParts ==
  ASSUME FormInv, NEW t \in FormTab
  PROVE  /\ editor[t] \in EditorT /\ reading[t] \in BOOLEAN /\ saving[t] \in SavingT
         /\ errand[t] \in ErrandT /\ settled[t] \in SUBSET Nat
         /\ FlightOk(editor[t], reading[t], saving[t], errand[t])
         /\ TextsOk(editor[t], saving[t], errand[t], {0} \cup TextOf[t] \cup settled[t])
         /\ ToldOk(editor[t], saving[t], errand[t], draft, ids, confirmed)
         /\ FormTypes /\ TextOf[t] \subseteq Nat \ {0, Foreign}
         /\ Quiet(t) = (errand[t] = NoJob /\ saving[t] = NoSave)
  BY DraftConstants DEF FormInv, FormTypes, TabOk, Mine, Quiet

LEMMA ScheduledEditor ==
  ASSUME NEW e \in EditorT, NEW q \in BOOLEAN
  PROVE  /\ Scheduled(e, q) \in EditorT
         /\ Scheduled(e, q).fields = e.fields /\ Scheduled(e, q).saved = e.saved
         /\ Scheduled(e, q).remote = e.remote /\ Scheduled(e, q).loaded = e.loaded
         /\ Scheduled(e, q).submitted = e.submitted /\ Scheduled(e, q).conflicted = e.conflicted
         /\ Scheduled(e, q).timer <=> /\ e.loaded /\ q /\ e.status \notin {"offered", "error"}
                                      /\ e.fields # e.saved
         /\ Scheduled(e, q).status = IF Scheduled(e, q).timer THEN "pending" ELSE e.status
<1> DEFINE waits == e.loaded /\ q /\ e.status \notin {"offered", "error"} /\ e.fields # e.saved
           status == IF waits THEN "pending" ELSE e.status
           f == [e EXCEPT !.timer = waits, !.status = status]
<1>1. Scheduled(e, q) = f
  BY DEF Scheduled
<1>2. waits \in BOOLEAN
  OBVIOUS
<1>3. status \in {"loading", "idle", "pending", "saving", "saved", "offered", "error"}
  BY DEF EditorT
<1>4. status = IF waits THEN "pending" ELSE e.status
  OBVIOUS
<1> HIDE DEF waits, status
<1>5. /\ f \in EditorT /\ f.timer = waits /\ f.status = status
      /\ f.fields = e.fields /\ f.saved = e.saved /\ f.remote = e.remote /\ f.loaded = e.loaded
      /\ f.submitted = e.submitted /\ f.conflicted = e.conflicted
  BY <1>2, <1>3 DEF EditorT
<1> HIDE DEF f
<1> QED
  BY <1>1, <1>4, <1>5 DEF waits

\* The user types.
LEMMA TypeKeeps ==
  ASSUME FormInv, HandsOff, NEW t \in FormTab, NEW x \in TextOf[t] \cup {0}, Type(t, x)
  PROVE  FormInv'
<1> DEFINE e == editor[t]
           r == reading[t]
           s == saving[t]
           j == errand[t]
           F == [e EXCEPT !.fields = x, !.saved = IF e.submitted THEN x ELSE @, !.submitted = FALSE]
           q == Quiet(t)
           E == Scheduled(F, q)
           mine == {0} \cup TextOf[t] \cup settled[t]
<1>1. /\ j.at \in {"none", "discard", "deleting"} /\ x # e.fields
      /\ editor' = [editor EXCEPT ![t] = E]
      /\ UNCHANGED <<draft, ids, records, reading, saving, errand, confirmed, settled>>
  BY DEF Type, Put
<1>2. /\ e \in EditorT /\ r \in BOOLEAN /\ s \in SavingT /\ j \in ErrandT
      /\ FlightOk(e, r, s, j) /\ TextsOk(e, s, j, mine) /\ ToldOk(e, s, j, draft, ids, confirmed)
      /\ FormTypes /\ settled[t] \in SUBSET Nat
      /\ q = (j = NoJob /\ s = NoSave)
  BY TabParts
<1>3. x \in Nat /\ x \in mine
  <2>1. TextOf[t] \subseteq Nat
    BY TabParts
  <2> QED
    BY <2>1
<1>4. /\ F \in EditorT /\ F.fields = x /\ F.submitted = FALSE /\ F.saved = IF e.submitted THEN x ELSE e.saved
      /\ F.status = e.status /\ F.remote = e.remote /\ F.loaded = e.loaded
  BY <1>2, <1>3 DEF EditorT
<1> HIDE DEF F
<1>5. q \in BOOLEAN
  BY <1>2
<1>6. /\ E \in EditorT /\ E.fields = x /\ E.saved = (IF e.submitted THEN x ELSE e.saved)
      /\ E.remote = e.remote /\ E.loaded = e.loaded /\ E.submitted = FALSE
      /\ E.timer <=> e.loaded /\ q /\ e.status \notin {"offered", "error"} /\ x # E.saved
      /\ E.status = IF E.timer THEN "pending" ELSE e.status
  BY <1>4, <1>5, ScheduledEditor
<1> HIDE DEF E
<1>7. r => ~e.loaded
  <2>1. editor'[t] = E /\ reading'[t] = r /\ E # e
    BY <1>1, <1>2, <1>6 DEF FormTypes
  <2> QED
    BY <1>6, <2>1 DEF HandsOff
<1> HIDE DEF e, r, s, j, q
<1>8. FlightOk(E, r, s, j)
  BY <1>1, <1>2, <1>6, <1>7 DEF FlightOk, NoJob
<1>9. e.status \in {"loading", "idle", "pending", "saving", "saved", "offered", "error"}
  BY <1>2 DEF EditorT
<1>10. E.timer => e.status \in Tracked
  BY <1>2, <1>6, <1>7, <1>9 DEF FlightOk, Tracked
<1>11. TextsOk(E, s, j, mine)
  <2> HIDE DEF mine
  <2>1. E.status \in Tracked /\ E.remote # NoDraft => E.saved = E.remote.text
    BY <1>2, <1>6, <1>10 DEF TextsOk, FlightOk
  <2>2. E.status = "saved" /\ j.at = "none" => E.fields = E.saved
    BY <1>2, <1>6 DEF FlightOk
  <2>3. E.remote # NoDraft /\ (E.status # "offered" \/ j.at \in {"discard", "deleting"}) => E.remote.text \in mine
    BY <1>2, <1>6 DEF TextsOk
  <2> QED
    BY <1>1, <1>2, <1>3, <1>6, <2>1, <2>2, <2>3 DEF TextsOk
<1>12. ToldOk(E, s, j, draft, ids, confirmed)
  BY <1>2, <1>6 DEF ToldOk, FlightOk
<1> HIDE DEF mine
<1>13. FormTypes' /\ OthersStay(t) /\ editor'[t] = E
  <2> HIDE DEF mine
  <2> QED
    BY <1>1, <1>2, <1>6 DEF FormTypes, OthersStay
<1>14. /\ reading'[t] = r /\ saving'[t] = s /\ errand'[t] = j /\ Mine(t)' = mine
       /\ draft' = draft /\ ids' = ids /\ confirmed' = confirmed
  BY <1>1, Zenon DEF Mine, r, s, j, mine
<1> HIDE DEF mine
<1>15. TabOk(t)'
  BY <1>8, <1>11, <1>12, <1>13, <1>14 DEF TabOk
<1> QED
  BY <1>1, <1>13, <1>15, LocalStep

LEMMA NothingSeen ==
  ASSUME FormInv
  PROVE  Seen(NoDraft, draft, ids, confirmed)
<1>1. draft \in RowT /\ ids \in Nat /\ (draft.id = 0 => draft = NoDraft)
  BY DEF FormInv, FormTypes, Seen
<1> QED
  BY <1>1, NoDraftRow DEF Seen, RowT

\* The answer of a read comes.
LEMMA LoadKeeps ==
  ASSUME FormInv, NEW t \in FormTab, NEW fate, Load(t, fate)
  PROVE  FormInv'
<1> DEFINE e == editor[t]
           r == reading[t]
           s == saving[t]
           j == errand[t]
           F == [e EXCEPT !.loaded = TRUE, !.remote = draft,
                          !.status = IF draft = NoDraft THEN "idle" ELSE "offered"]
           q == Quiet(t)
           E == IF fate = "answered" THEN Scheduled(F, q) ELSE Failed(e, FALSE)
           mine == {0} \cup TextOf[t] \cup settled[t]
<1>1. /\ r /\ editor' = [editor EXCEPT ![t] = E] /\ reading' = [reading EXCEPT ![t] = FALSE]
      /\ UNCHANGED <<draft, ids, records, saving, errand, confirmed, settled>>
  BY DEF Load, Put
<1>2. /\ e \in EditorT /\ r \in BOOLEAN /\ s \in SavingT /\ j \in ErrandT
      /\ FlightOk(e, r, s, j) /\ TextsOk(e, s, j, mine) /\ ToldOk(e, s, j, draft, ids, confirmed)
      /\ FormTypes /\ settled[t] \in SUBSET Nat
      /\ q = (j = NoJob /\ s = NoSave)
  BY TabParts
<1>3. /\ draft \in RowT /\ Seen(draft, draft, ids, confirmed)
  BY DEF FormInv, FormTypes
<1>4. /\ F \in EditorT /\ F.fields = e.fields /\ F.submitted = e.submitted /\ F.saved = e.saved
      /\ F.status = (IF draft = NoDraft THEN "idle" ELSE "offered") /\ F.remote = draft /\ F.loaded = TRUE
  BY <1>2, <1>3 DEF EditorT
<1> HIDE DEF F
<1>5. q \in BOOLEAN /\ (q => j.at = "none")
  <2>1. NoJob.at = "none"
    BY DEF NoJob
  <2> QED
    BY <1>2, <2>1
<1>6. CASE fate = "answered"
  <2>1. /\ E \in EditorT /\ E.fields = e.fields /\ E.saved = e.saved
        /\ E.remote = draft /\ E.loaded = TRUE /\ E.submitted = e.submitted
        /\ E.timer => q /\ F.status = "idle"
        /\ E.status = IF E.timer THEN "pending" ELSE F.status
    BY <1>4, <1>5, <1>6, ScheduledEditor
  <2> HIDE DEF e, r, s, j, q, E
  <2>3. /\ s = NoSave /\ j.at \in {"none", "submit", "rechecking"} /\ ~e.submitted
        /\ s.answer = "none" /\ (j.at = "none" => j = NoJob)
    BY <1>1, <1>2 DEF FlightOk
  <2>4. \/ E.status \in {"idle", "pending"} /\ draft = NoDraft
        \/ E.status = "offered" /\ draft # NoDraft /\ ~E.timer
    BY <1>4, <2>1
  <2>10. E.timer => j.at = "none"
    BY <1>5, <2>1
  <2>2. FlightOk(E, FALSE, s, j)
    BY <2>1, <2>3, <2>4, <2>10 DEF FlightOk
  <2>5. TextsOk(E, s, j, mine)
    <3> HIDE DEF mine
    <3>1. E.remote.id = j.known.id /\ E.remote.version = j.known.version => E.remote = j.known
      BY <1>2, <2>1 DEF ToldOk, Seen
    <3> QED
      BY <1>2, <2>1, <2>3, <2>4, <3>1 DEF TextsOk, Tracked
  <2>6. ToldOk(E, s, j, draft, ids, confirmed)
    BY <1>2, <1>3, <2>1, <2>3, <2>4 DEF ToldOk
  <2>7. FormTypes' /\ OthersStay(t) /\ editor'[t] = E /\ reading'[t] = FALSE
    <3> HIDE DEF mine
    <3> QED
      BY <1>1, <1>2, <2>1 DEF FormTypes, OthersStay
  <2>8. /\ saving'[t] = s /\ errand'[t] = j /\ Mine(t)' = mine
        /\ draft' = draft /\ ids' = ids /\ confirmed' = confirmed
    BY <1>1, Zenon DEF Mine, r, s, j, mine
  <2> HIDE DEF mine
  <2>9. TabOk(t)'
    BY <2>2, <2>5, <2>6, <2>7, <2>8 DEF TabOk
  <2> QED
    BY <1>1, <2>7, <2>9, LocalStep
<1>7. CASE fate # "answered"
  <2>1. /\ E \in EditorT /\ E.fields = e.fields /\ E.saved = e.saved /\ E.remote = e.remote
        /\ E.loaded = e.loaded /\ E.submitted = e.submitted /\ E.timer = e.timer /\ E.status = "error"
    BY <1>2, <1>7 DEF Failed, EditorT
  <2> HIDE DEF e, r, s, j, q, E
  <2>2. FlightOk(E, FALSE, s, j)
    BY <1>1, <1>2, <2>1 DEF FlightOk
  <2>3. s = NoSave /\ e.status \in {"loading", "error"}
    BY <1>1, <1>2 DEF FlightOk
  <2>5. TextsOk(E, s, j, mine)
    <3> HIDE DEF mine
    <3> QED
      BY <1>2, <2>1, <2>3 DEF TextsOk, Tracked
  <2>6. ToldOk(E, s, j, draft, ids, confirmed)
    BY <1>2, <2>1 DEF ToldOk
  <2>7. FormTypes' /\ OthersStay(t) /\ editor'[t] = E /\ reading'[t] = FALSE
    <3> HIDE DEF mine
    <3> QED
      BY <1>1, <1>2, <2>1 DEF FormTypes, OthersStay
  <2>8. /\ saving'[t] = s /\ errand'[t] = j /\ Mine(t)' = mine
        /\ draft' = draft /\ ids' = ids /\ confirmed' = confirmed
    BY <1>1, Zenon DEF Mine, r, s, j, mine
  <2> HIDE DEF mine
  <2>9. TabOk(t)'
    BY <2>2, <2>5, <2>6, <2>7, <2>8 DEF TabOk
  <2> QED
    BY <1>1, <2>7, <2>9, LocalStep
<1> QED
  BY <1>6, <1>7

LEMMA ErrandAndSaving ==
  NoJob \in ErrandT /\ NoSave \in SavingT /\ NoJob.at = "none" /\ NoJob.known = NoDraft
  /\ NoSave.answer = "none"
  BY NoDraftRow DEF NoJob, NoSave, ErrandT, SavingT

LEMMA FailedEditor ==
  ASSUME NEW e \in EditorT, NEW c \in BOOLEAN
  PROVE  /\ Failed(e, c) \in EditorT
         /\ Failed(e, c).fields = e.fields /\ Failed(e, c).saved = e.saved
         /\ Failed(e, c).remote = e.remote /\ Failed(e, c).loaded = e.loaded
         /\ Failed(e, c).submitted = e.submitted /\ Failed(e, c).timer = e.timer
         /\ Failed(e, c).status = "error"
  BY DEF Failed, EditorT

\* The answer of a write comes.
LEMMA SavedKeeps ==
  ASSUME FormInv, NEW t \in FormTab, Saved(t)
  PROVE  FormInv'
<1> DEFINE e == editor[t]
           r == reading[t]
           s == saving[t]
           j == errand[t]
           mine == {0} \cup TextOf[t] \cup settled[t]
           G == [e EXCEPT !.saved = s.text, !.remote = s.row, !.status = "saved"]
           F == IF s.answer = "ok" THEN G ELSE Failed(e, s.answer = "conflict")
           free == (j = NoJob)
           E == Scheduled(F, free)
           J == IF s.answer # "ok" /\ ~r THEN NoJob ELSE j
           Good == /\ E \in EditorT /\ FlightOk(E, r, NoSave, J) /\ TextsOk(E, NoSave, J, mine)
                   /\ ToldOk(E, NoSave, J, draft, ids, confirmed)
<1>1. /\ s # NoSave /\ editor' = [editor EXCEPT ![t] = E] /\ saving' = [saving EXCEPT ![t] = NoSave]
      /\ errand' = [errand EXCEPT ![t] = J]
      /\ UNCHANGED <<draft, ids, records, reading, confirmed, settled>>
  <2>1. errand = [errand EXCEPT ![t] = errand[t]]
    BY DEF FormInv, FormTypes
  <2> QED
    BY <2>1 DEF Saved, Put
<1>2. /\ e \in EditorT /\ r \in BOOLEAN /\ s \in SavingT /\ j \in ErrandT
      /\ FlightOk(e, r, s, j) /\ TextsOk(e, s, j, mine) /\ ToldOk(e, s, j, draft, ids, confirmed)
      /\ FormTypes /\ settled[t] \in SUBSET Nat
  BY TabParts
<1>3. /\ ~r /\ e.status = "saving" /\ e.loaded /\ ~e.submitted /\ j.at \in {"none", "submit", "save"}
      /\ s.text \in mine /\ (j.at = "none" => j = NoJob)
  <2> HIDE DEF e, r, s, j, mine
  <2> QED
    BY <1>1, <1>2 DEF FlightOk, TextsOk
<1>4. free \in BOOLEAN /\ (free => j.at = "none")
  BY ErrandAndSaving
<1>5. J \in ErrandT
  BY <1>2, ErrandAndSaving
<1>6. ASSUME s.answer = "ok" PROVE Good
  <2>1. Seen(s.row, draft, ids, confirmed) /\ s.row # NoDraft /\ s.row.text = s.text /\ s.text \in confirmed
    BY <1>2, <1>6 DEF ToldOk, Seen
  <2>2. /\ G \in EditorT /\ G.fields = e.fields /\ G.saved = s.text /\ G.remote = s.row /\ G.status = "saved"
        /\ G.loaded = e.loaded /\ G.submitted = e.submitted
    BY <1>2 DEF EditorT, SavingT
  <2>8. F = G
    BY <1>6
  <2> HIDE DEF G
  <2>9. /\ F \in EditorT /\ F.fields = e.fields /\ F.saved = s.text /\ F.remote = s.row
        /\ F.status = "saved" /\ F.loaded /\ ~F.submitted
    BY <1>3, <2>2, <2>8
  <2> HIDE DEF F, free, e, r, s, j, mine
  <2>3. /\ E \in EditorT /\ E.fields = e.fields /\ E.saved = s.text /\ E.remote = s.row /\ E.loaded
        /\ ~E.submitted /\ (E.timer <=> free /\ e.fields # s.text)
        /\ E.status = IF E.timer THEN "pending" ELSE "saved"
    BY <1>4, <2>9, ScheduledEditor
  <2>4. J = j
    BY <1>6
  <2> HIDE DEF e, r, s, j, E, J
  <2>5. FlightOk(E, r, NoSave, J)
    BY <1>3, <1>4, <2>3, <2>4, ErrandAndSaving DEF FlightOk, Tracked
  <2>6. TextsOk(E, NoSave, J, mine)
    <3> HIDE DEF mine
    <3>1. j.at = "none" => free
      BY <1>3 DEF free
    <3> QED
      BY <1>2, <1>3, <2>1, <2>3, <2>4, <3>1 DEF TextsOk
  <2>7. ToldOk(E, NoSave, J, draft, ids, confirmed)
    BY <1>2, <2>1, <2>3, <2>4, ErrandAndSaving DEF ToldOk
  <2> QED
    BY <2>3, <2>5, <2>6, <2>7
<1>7. ASSUME s.answer # "ok" PROVE Good
  <2> DEFINE H == Failed(e, s.answer = "conflict")
  <2>2. /\ H \in EditorT /\ H.fields = e.fields /\ H.saved = e.saved /\ H.remote = e.remote
        /\ H.status = "error" /\ H.loaded = e.loaded /\ H.submitted = e.submitted
    BY <1>2, FailedEditor
  <2>3. F = H
    BY <1>7
  <2> HIDE DEF F, H, free
  <2>4. /\ E \in EditorT /\ E.fields = e.fields /\ E.saved = e.saved /\ E.remote = e.remote /\ E.loaded
        /\ ~E.submitted /\ ~E.timer /\ E.status = "error"
    BY <1>3, <1>4, <2>2, <2>3, ScheduledEditor
  <2>5. J = NoJob
    BY <1>3, <1>7
  <2> HIDE DEF e, r, s, j, E, J
  <2>6. FlightOk(E, r, NoSave, J)
    BY <1>3, <2>4, <2>5, ErrandAndSaving DEF FlightOk
  <2>7. TextsOk(E, NoSave, J, mine)
    <3> HIDE DEF mine
    <3> QED
      BY <1>2, <1>3, <2>4, <2>5, ErrandAndSaving DEF TextsOk, Tracked
  <2>8. ToldOk(E, NoSave, J, draft, ids, confirmed)
    BY <1>2, <2>4, <2>5, ErrandAndSaving, NothingSeen DEF ToldOk
  <2> QED
    BY <2>4, <2>6, <2>7, <2>8
<1>8. Good
  BY <1>6, <1>7
<1> HIDE DEF E, J
<1>9. FormTypes' /\ OthersStay(t) /\ editor'[t] = E /\ saving'[t] = NoSave /\ errand'[t] = J
  <2> HIDE DEF mine
  <2> QED
    BY <1>1, <1>2, <1>5, <1>8, ErrandAndSaving DEF FormTypes, OthersStay
<1>10. /\ reading'[t] = r /\ Mine(t)' = mine /\ draft' = draft /\ ids' = ids /\ confirmed' = confirmed
  BY <1>1, Zenon DEF Mine, r, mine
<1> HIDE DEF mine, r
<1>11. TabOk(t)'
  BY <1>8, <1>9, <1>10 DEF TabOk
<1> QED
  BY <1>1, <1>9, <1>11, LocalStep

\* A step of tab t to these values, which the server does not see.
MovesTo(t, E, R, S, J, O) ==
  /\ editor' = [editor EXCEPT ![t] = E] /\ reading' = [reading EXCEPT ![t] = R]
  /\ saving' = [saving EXCEPT ![t] = S] /\ errand' = [errand EXCEPT ![t] = J]
  /\ settled' = [settled EXCEPT ![t] = O]
  /\ draft' = draft /\ ids' = ids /\ records' = records /\ confirmed' = confirmed
FitsTab(t, E, R, S, J, O) ==
  /\ E \in EditorT /\ R \in BOOLEAN /\ S \in SavingT /\ J \in ErrandT /\ O \in SUBSET Nat
  /\ FlightOk(E, R, S, J) /\ TextsOk(E, S, J, {0} \cup TextOf[t] \cup O)
  /\ ToldOk(E, S, J, draft, ids, confirmed)

LEMMA LocalMove ==
  ASSUME FormInv, NEW t \in FormTab, NEW E, NEW R, NEW S, NEW J, NEW O,
         MovesTo(t, E, R, S, J, O), FitsTab(t, E, R, S, J, O)
  PROVE  FormInv'
<1>1. FormTypes
  BY DEF FormInv
<1>2. /\ FormTypes' /\ OthersStay(t)
      /\ editor'[t] = E /\ reading'[t] = R /\ saving'[t] = S /\ errand'[t] = J /\ settled'[t] = O
  BY <1>1 DEF FormTypes, OthersStay, MovesTo, FitsTab
<1>3. TabOk(t)'
  BY <1>2 DEF TabOk, Mine, MovesTo, FitsTab
<1> QED
  BY <1>2, <1>3, LocalStep DEF MovesTo

LEMMA Unmoved ==
  ASSUME FormInv, NEW t \in FormTab
  PROVE  /\ editor = [editor EXCEPT ![t] = editor[t]] /\ reading = [reading EXCEPT ![t] = reading[t]]
         /\ saving = [saving EXCEPT ![t] = saving[t]] /\ errand = [errand EXCEPT ![t] = errand[t]]
         /\ settled = [settled EXCEPT ![t] = settled[t]]
  BY DEF FormInv, FormTypes

\* The user asks again.
LEMMA RetryKeeps ==
  ASSUME FormInv, NEW t \in FormTab, RetryDraft(t)
  PROVE  FormInv'
<1> DEFINE e == editor[t]
           O == settled[t]
           mine == {0} \cup TextOf[t] \cup O
           E == [e EXCEPT !.timer = FALSE, !.status = "loading"]
<1>1. e.status = "error" /\ errand[t] = NoJob /\ saving[t] = NoSave
  BY DEF RetryDraft, Quiet
<1>2. MovesTo(t, E, TRUE, NoSave, NoJob, O)
  BY <1>1, Unmoved DEF RetryDraft, Put, MovesTo
<1>3. /\ e \in EditorT /\ O \in SUBSET Nat /\ FlightOk(e, reading[t], NoSave, NoJob)
      /\ TextsOk(e, NoSave, NoJob, mine) /\ ToldOk(e, NoSave, NoJob, draft, ids, confirmed)
  BY <1>1, TabParts
<1>4. /\ E \in EditorT /\ E.fields = e.fields /\ E.saved = e.saved /\ E.remote = e.remote
      /\ E.loaded = e.loaded /\ E.submitted = e.submitted /\ E.timer = FALSE /\ E.status = "loading"
  BY <1>3 DEF EditorT
<1> HIDE DEF e, E, O, mine
<1>5. FlightOk(E, TRUE, NoSave, NoJob)
  BY <1>1, <1>3, <1>4, ErrandAndSaving DEF FlightOk
<1>6. TextsOk(E, NoSave, NoJob, mine)
  BY <1>1, <1>3, <1>4, ErrandAndSaving DEF TextsOk, Tracked
<1>7. ToldOk(E, NoSave, NoJob, draft, ids, confirmed)
  BY <1>3, <1>4 DEF ToldOk
<1>8. FitsTab(t, E, TRUE, NoSave, NoJob, O)
  BY <1>3, <1>4, <1>5, <1>6, <1>7, ErrandAndSaving DEF FitsTab, mine
<1> QED
  BY <1>2, <1>8, LocalMove

\* The user begins to discard the draft, or to submit the form.
LEMMA BeginKeeps ==
  ASSUME FormInv, HandsOff, NEW t \in FormTab, NEW what \in {"discard", "submit"}, Begin(t, what)
  PROVE  FormInv'
<1> DEFINE e == editor[t]
           r == reading[t]
           s == saving[t]
           O == settled[t]
           more == IF what = "discard" THEN O \cup ({e.remote.text} \ TextOf[t]) ELSE O
           mine == {0} \cup TextOf[t] \cup O
           own == {0} \cup TextOf[t] \cup more
           E == [e EXCEPT !.timer = FALSE]
           J == [NoJob EXCEPT !.at = what]
<1>1. /\ errand[t] = NoJob
      /\ what = "discard" => e.remote # NoDraft /\ e.status # "saving"
      /\ what = "submit" => ~e.submitted
  BY DEF Begin
<1>2. MovesTo(t, E, r, s, J, more)
  <2>1. settled' = [settled EXCEPT ![t] = more]
    BY Unmoved DEF Begin
  <2>2. errand' = [errand EXCEPT ![t] = J]
    BY <1>1 DEF Begin
  <2> HIDE DEF more, J
  <2> QED
    BY <2>1, <2>2, Unmoved DEF Begin, Put, MovesTo
<1>3. /\ e \in EditorT /\ r \in BOOLEAN /\ s \in SavingT /\ O \in SUBSET Nat /\ FlightOk(e, r, s, NoJob)
      /\ TextsOk(e, s, NoJob, mine) /\ ToldOk(e, s, NoJob, draft, ids, confirmed)
      /\ FormTypes
  BY <1>1, TabParts
<1>4. /\ E \in EditorT /\ E.fields = e.fields /\ E.saved = e.saved /\ E.remote = e.remote
      /\ E.loaded = e.loaded /\ E.submitted = e.submitted /\ E.timer = FALSE /\ E.status = e.status
  BY <1>3 DEF EditorT
<1>5. J \in ErrandT /\ J.at = what /\ J.known = NoDraft
  BY ErrandAndSaving DEF ErrandT
<1>6. r => ~e.loaded
  <2>1. /\ editor'[t] = E /\ reading'[t] = r /\ errand'[t] = J
    BY <1>2, <1>3 DEF MovesTo, FormTypes
  <2> HIDE DEF e, r, J, E
  <2> QED
    BY <1>1, <1>4, <1>5, <2>1, ErrandAndSaving DEF HandsOff, e, r
<1>7. /\ more \in SUBSET Nat /\ mine \subseteq own
      /\ what = "discard" => e.remote.text \in own
  BY <1>3 DEF EditorT, RowT
<1> HIDE DEF e, r, s, E, J, O, mine, own, more
<1>8. FlightOk(E, r, s, J)
  BY <1>1, <1>3, <1>4, <1>5, <1>6, ErrandAndSaving DEF FlightOk
<1>9. TextsOk(E, s, J, own)
  BY <1>1, <1>3, <1>4, <1>5, <1>7, ErrandAndSaving DEF TextsOk
<1>10. ToldOk(E, s, J, draft, ids, confirmed)
  BY <1>3, <1>4, <1>5, ErrandAndSaving DEF ToldOk
<1>11. FitsTab(t, E, r, s, J, more)
  BY <1>3, <1>4, <1>5, <1>7, <1>8, <1>9, <1>10 DEF FitsTab, own
<1> QED
  BY <1>2, <1>11, LocalMove

\* A discard ends.
LEMMA DiscardedKeeps ==
  ASSUME FormInv, NEW t \in FormTab, Discarded(t)
  PROVE  FormInv'
<1> DEFINE e == editor[t]
           j == errand[t]
           O == settled[t]
           mine == {0} \cup TextOf[t] \cup O
           gone == [e EXCEPT !.saved = e.fields, !.remote = NoDraft, !.status = "idle"]
           failed == Failed(e, j.answer = "conflict")
           E == IF j.answer = "ok" THEN gone ELSE failed
<1>1. j.at = "deleting"
  BY DEF Discarded
<1>2. /\ e \in EditorT /\ O \in SUBSET Nat /\ FlightOk(e, reading[t], saving[t], j)
      /\ TextsOk(e, saving[t], j, mine) /\ ToldOk(e, saving[t], j, draft, ids, confirmed)
  BY TabParts
<1>3. reading[t] = FALSE /\ saving[t] = NoSave /\ ~e.submitted /\ ~e.timer /\ e.loaded
  BY <1>1, <1>2, TabParts DEF FlightOk
<1>4. MovesTo(t, E, FALSE, NoSave, NoJob, O)
  <2> HIDE DEF gone, failed
  <2>1. editor' = [editor EXCEPT ![t] = E]
    BY DEF Discarded, Put, gone, failed
  <2> HIDE DEF E
  <2> QED
    BY <1>3, <2>1, Unmoved DEF Discarded, MovesTo
<1>5. /\ gone \in EditorT /\ gone.fields = e.fields /\ gone.saved = e.fields /\ gone.remote = NoDraft
      /\ gone.loaded = e.loaded /\ gone.submitted = e.submitted /\ gone.timer = e.timer /\ gone.status = "idle"
  BY <1>2, NoDraftRow DEF EditorT
<1>6. /\ failed \in EditorT /\ failed.fields = e.fields /\ failed.saved = e.saved /\ failed.remote = e.remote
      /\ failed.loaded = e.loaded /\ failed.submitted = e.submitted /\ failed.timer = e.timer
      /\ failed.status = "error"
  BY <1>2, FailedEditor
<1>7. E = gone \/ E = failed
  OBVIOUS
<1> HIDE DEF e, j, O, mine, gone, failed, E
<1>8. FlightOk(E, FALSE, NoSave, NoJob)
  BY <1>3, <1>5, <1>6, <1>7, ErrandAndSaving DEF FlightOk
<1>9. TextsOk(E, NoSave, NoJob, mine)
  BY <1>1, <1>2, <1>5, <1>6, <1>7, ErrandAndSaving DEF TextsOk, Tracked
<1>10. ToldOk(E, NoSave, NoJob, draft, ids, confirmed)
  BY <1>2, <1>5, <1>6, <1>7, ErrandAndSaving, NothingSeen DEF ToldOk
<1>11. FitsTab(t, E, FALSE, NoSave, NoJob, O)
  BY <1>2, <1>5, <1>6, <1>7, <1>8, <1>9, <1>10, ErrandAndSaving DEF FitsTab, mine
<1> QED
  BY <1>4, <1>11, LocalMove

\* The draft is read again before the form is submitted.
LEMMA RecheckKeeps ==
  ASSUME FormInv, NEW t \in FormTab, Recheck(t)
  PROVE  FormInv'
<1> DEFINE e == editor[t]
           j == errand[t]
           O == settled[t]
           mine == {0} \cup TextOf[t] \cup O
           J == [j EXCEPT !.at = "rechecking", !.known = e.remote]
<1>1. j.at = "submit" /\ ~reading[t] /\ saving[t] = NoSave /\ e.status = "error"
  BY DEF Recheck, Arrived
<1>2. /\ e \in EditorT /\ j \in ErrandT /\ O \in SUBSET Nat /\ FlightOk(e, reading[t], NoSave, j)
      /\ TextsOk(e, NoSave, j, mine) /\ ToldOk(e, NoSave, j, draft, ids, confirmed)
  BY <1>1, TabParts
<1>3. MovesTo(t, e, TRUE, NoSave, J, O)
  <2>1. errand' = [errand EXCEPT ![t] = J]
    BY DEF Recheck
  <2> HIDE DEF J
  <2> QED
    BY <1>1, <2>1, Unmoved DEF Recheck, MovesTo
<1>4. J \in ErrandT /\ J.at = "rechecking" /\ J.known = e.remote
  BY <1>2 DEF ErrandT, EditorT
<1> HIDE DEF e, j, O, mine, J
<1>5. FlightOk(e, TRUE, NoSave, J)
  BY <1>1, <1>2, <1>4, ErrandAndSaving DEF FlightOk
<1>6. TextsOk(e, NoSave, J, mine)
  BY <1>1, <1>2, <1>4 DEF TextsOk
<1>7. ToldOk(e, NoSave, J, draft, ids, confirmed)
  BY <1>2, <1>4 DEF ToldOk
<1>8. FitsTab(t, e, TRUE, NoSave, J, O)
  BY <1>2, <1>4, <1>5, <1>6, <1>7, ErrandAndSaving DEF FitsTab, mine
<1> QED
  BY <1>3, <1>8, LocalMove

\* A submission ends.
LEMMA SubmittedKeeps ==
  ASSUME FormInv, NEW t \in FormTab, Submitted(t)
  PROVE  FormInv'
<1> DEFINE e == editor[t]
           j == errand[t]
           O == settled[t]
           mine == {0} \cup TextOf[t] \cup O
           used == [e EXCEPT !.saved = e.fields, !.submitted = TRUE, !.remote = NoDraft, !.status = "idle"]
           failed == Failed(e, TRUE)
           E == CASE j.answer = "ok" -> used [] j.answer = "conflict" -> failed [] OTHER -> e
<1>1. j.at = "acting"
  BY DEF Submitted
<1>2. /\ e \in EditorT /\ O \in SUBSET Nat /\ FlightOk(e, reading[t], saving[t], j)
      /\ TextsOk(e, saving[t], j, mine) /\ ToldOk(e, saving[t], j, draft, ids, confirmed)
  BY TabParts
<1>3. reading[t] = FALSE /\ saving[t] = NoSave /\ ~e.submitted /\ ~e.timer /\ e.status \in Tracked
  BY <1>1, <1>2, TabParts DEF FlightOk
<1>4. MovesTo(t, E, FALSE, NoSave, NoJob, O)
  <2> HIDE DEF used, failed
  <2>1. editor' = [editor EXCEPT ![t] = E]
    BY DEF Submitted, Put, used, failed
  <2> HIDE DEF E
  <2> QED
    BY <1>3, <2>1, Unmoved DEF Submitted, MovesTo
<1>5. /\ used \in EditorT /\ used.fields = e.fields /\ used.saved = e.fields /\ used.remote = NoDraft
      /\ used.loaded = e.loaded /\ used.submitted = TRUE /\ used.timer = e.timer /\ used.status = "idle"
  BY <1>2, NoDraftRow DEF EditorT
<1>6. /\ failed \in EditorT /\ failed.fields = e.fields /\ failed.saved = e.saved /\ failed.remote = e.remote
      /\ failed.loaded = e.loaded /\ failed.submitted = e.submitted /\ failed.timer = e.timer
      /\ failed.status = "error"
  BY <1>2, FailedEditor
<1>7. E = used \/ E = failed \/ E = e
  OBVIOUS
<1> HIDE DEF e, j, O, mine, used, failed, E
<1>8. FlightOk(E, FALSE, NoSave, NoJob)
  <2>1. CASE E = e
    BY <1>2, <1>3, <2>1, ErrandAndSaving DEF FlightOk
  <2>2. CASE E # e
    BY <1>2, <1>3, <1>5, <1>6, <1>7, <2>2, ErrandAndSaving DEF FlightOk, Tracked
  <2> QED
    BY <2>1, <2>2
<1>9. TextsOk(E, NoSave, NoJob, mine)
  BY <1>1, <1>2, <1>3, <1>5, <1>6, <1>7, ErrandAndSaving DEF TextsOk, Tracked
<1>10. ToldOk(E, NoSave, NoJob, draft, ids, confirmed)
  BY <1>2, <1>3, <1>5, <1>6, <1>7, ErrandAndSaving, NothingSeen DEF ToldOk
<1>11. FitsTab(t, E, FALSE, NoSave, NoJob, O)
  BY <1>2, <1>5, <1>6, <1>7, <1>8, <1>9, <1>10, ErrandAndSaving DEF FitsTab, mine
<1> QED
  BY <1>4, <1>11, LocalMove

\* The page is loaded again.
LEMMA ReopenKeeps ==
  ASSUME FormInv, NEW t \in FormTab, Reopen(t)
  PROVE  FormInv'
<1>1. MovesTo(t, Fresh, TRUE, NoSave, NoJob, {})
  BY DEF Reopen, Put, MovesTo
<1>2. /\ Fresh \in EditorT /\ Fresh.fields = 0 /\ Fresh.remote = NoDraft /\ Fresh.loaded = FALSE
      /\ Fresh.submitted = FALSE /\ Fresh.timer = FALSE /\ Fresh.status = "loading"
  BY NoDraftRow DEF Fresh, EditorT
<1>3. FlightOk(Fresh, TRUE, NoSave, NoJob)
  BY <1>2, ErrandAndSaving DEF FlightOk
<1>4. TextsOk(Fresh, NoSave, NoJob, {0} \cup TextOf[t] \cup {})
  BY <1>2, ErrandAndSaving DEF TextsOk, Tracked
<1>5. ToldOk(Fresh, NoSave, NoJob, draft, ids, confirmed)
  BY <1>2, ErrandAndSaving, NothingSeen DEF ToldOk
<1>6. FitsTab(t, Fresh, TRUE, NoSave, NoJob, {})
  BY <1>2, <1>3, <1>4, <1>5, ErrandAndSaving DEF FitsTab
<1> QED
  BY <1>1, <1>6, LocalMove

\* The user decides on a draft that is offered.
LEMMA SettleKeeps ==
  ASSUME FormInv, NEW t \in FormTab, NEW keep \in BOOLEAN, Settle(t, keep)
  PROVE  FormInv'
<1> DEFINE e == editor[t]
           O == settled[t]
           text == e.remote.text
           more == O \cup ({text} \ TextOf[t])
           mine == {0} \cup TextOf[t] \cup O
           own == {0} \cup TextOf[t] \cup more
           F == [e EXCEPT !.saved = e.remote.text, !.conflicted = FALSE]
           free == Quiet(t)
           G == [F EXCEPT !.status = "idle"]
           kept == Scheduled(G, free)
           restored == [F EXCEPT !.fields = F.saved, !.status = "saved"]
           E == IF keep THEN kept ELSE restored
<1>1. e.status = "offered" /\ errand[t] = NoJob
  BY DEF Settle
<1>2. /\ e \in EditorT /\ O \in SUBSET Nat /\ FlightOk(e, reading[t], saving[t], NoJob)
      /\ TextsOk(e, saving[t], NoJob, mine) /\ ToldOk(e, saving[t], NoJob, draft, ids, confirmed)
  BY <1>1, TabParts
<1>3. reading[t] = FALSE /\ saving[t] = NoSave /\ ~e.submitted /\ ~e.timer /\ e.loaded /\ e.remote # NoDraft
  BY <1>1, <1>2, TabParts DEF FlightOk
<1>4. free \in BOOLEAN
  BY DEF Quiet
<1>5. /\ F \in EditorT /\ F.fields = e.fields /\ F.saved = text /\ F.remote = e.remote
      /\ F.loaded = e.loaded /\ F.submitted = e.submitted /\ F.timer = e.timer /\ F.status = e.status
  BY <1>2 DEF EditorT, RowT
<1>6. MovesTo(t, E, FALSE, NoSave, NoJob, more)
  <2>1. settled' = [settled EXCEPT ![t] = O \cup ({F.saved} \ TextOf[t])]
    BY DEF Settle
  <2>2. settled' = [settled EXCEPT ![t] = more]
    BY <1>5, <2>1
  <2> HIDE DEF F, more
  <2>3. editor' = [editor EXCEPT ![t] = E]
    BY DEF Settle, Put, F
  <2> HIDE DEF E
  <2> QED
    BY <1>1, <1>3, <2>2, <2>3, Unmoved DEF Settle, MovesTo
<1> HIDE DEF F
<1>7. /\ G \in EditorT /\ G.fields = e.fields /\ G.saved = text /\ G.remote = e.remote
      /\ G.loaded = e.loaded /\ G.submitted = e.submitted /\ G.timer = e.timer /\ G.status = "idle"
  BY <1>5 DEF EditorT
<1>8. /\ restored \in EditorT /\ restored.fields = text /\ restored.saved = text
      /\ restored.remote = e.remote /\ restored.loaded = e.loaded /\ restored.submitted = e.submitted
      /\ restored.timer = e.timer /\ restored.status = "saved"
  BY <1>5 DEF EditorT
<1> HIDE DEF G, free, restored
<1>9. /\ kept \in EditorT /\ kept.fields = e.fields /\ kept.saved = text /\ kept.remote = e.remote
      /\ kept.loaded = e.loaded /\ kept.submitted = e.submitted /\ kept.status \in {"idle", "pending"}
      /\ kept.timer => kept.status = "pending"
  BY <1>4, <1>7, ScheduledEditor
<1>10. E = kept \/ E = restored
  OBVIOUS
<1>11. text \in Nat /\ more \in SUBSET Nat /\ mine \subseteq own /\ text \in own /\ text \in confirmed
  <2>1. text \in Nat /\ text \in confirmed
    BY <1>2, <1>3 DEF EditorT, RowT, ToldOk, Seen
  <2> QED
    BY <1>2, <2>1
<1> HIDE DEF E, kept
<1>12. FlightOk(E, FALSE, NoSave, NoJob)
  BY <1>3, <1>8, <1>9, <1>10, ErrandAndSaving DEF FlightOk
<1>13. TextsOk(E, NoSave, NoJob, own)
  <2> HIDE DEF own, more, mine
  <2> QED
    BY <1>2, <1>8, <1>9, <1>10, <1>11, ErrandAndSaving DEF TextsOk
<1>14. ToldOk(E, NoSave, NoJob, draft, ids, confirmed)
  BY <1>2, <1>8, <1>9, <1>10, <1>11, ErrandAndSaving DEF ToldOk
<1> HIDE DEF more, e, O
<1>15. FitsTab(t, E, FALSE, NoSave, NoJob, more)
  BY <1>8, <1>9, <1>10, <1>11, <1>12, <1>13, <1>14, ErrandAndSaving DEF FitsTab, own
<1> QED
  BY <1>6, <1>15, LocalMove

\* The form goes on to be submitted, or is refused.
LEMMA SubmitPrepareKeeps ==
  ASSUME FormInv, NEW t \in FormTab, Prepare(t)
  PROVE  FormInv'
<1> DEFINE e == editor[t]
           j == errand[t]
           O == settled[t]
           mine == {0} \cup TextOf[t] \cup O
           same == e.remote.id = j.known.id /\ e.remote.version = j.known.version
           takes == j.at = "rechecking" /\ e.status = "offered" /\ (same \/ e.remote.text = e.fields)
           G == [e EXCEPT !.saved = e.remote.text, !.status = "idle"]
           E == IF takes THEN G ELSE e
           stuck == ~E.loaded \/ E.status \in {"error", "offered"}
           J == IF stuck THEN NoJob ELSE [NoJob EXCEPT !.at = "save"]
<1>1. j.at \in {"submit", "rechecking"} /\ reading[t] = FALSE /\ saving[t] = NoSave
  BY TabParts DEF Prepare, Arrived
<1>2. /\ e \in EditorT /\ j \in ErrandT /\ O \in SUBSET Nat /\ FlightOk(e, FALSE, NoSave, j)
      /\ TextsOk(e, NoSave, j, mine) /\ ToldOk(e, NoSave, j, draft, ids, confirmed)
  BY <1>1, TabParts
<1>3. MovesTo(t, E, FALSE, NoSave, J, O)
  <2>1. Accepts(t) = E
    BY DEF Accepts
  <2>2. editor' = [editor EXCEPT ![t] = E] /\ errand' = [errand EXCEPT ![t] = J]
    BY <2>1 DEF Prepare, Put
  <2> HIDE DEF E, J
  <2> QED
    BY <1>1, <2>2, Unmoved DEF Prepare, MovesTo
<1>4. /\ G \in EditorT /\ G.fields = e.fields /\ G.saved = e.remote.text /\ G.remote = e.remote
      /\ G.loaded = e.loaded /\ G.submitted = e.submitted /\ G.timer = e.timer /\ G.status = "idle"
  BY <1>2 DEF EditorT, RowT
<1>5. ~e.timer /\ ~e.submitted /\ e.status \notin {"saving", "loading"}
  BY <1>1, <1>2 DEF FlightOk
<1>6. takes => e.loaded /\ e.remote # NoDraft /\ e.remote.text \in mine
  <2> SUFFICES ASSUME takes PROVE e.loaded /\ e.remote # NoDraft /\ e.remote.text \in mine
    OBVIOUS
  <2>1. e.loaded /\ e.remote # NoDraft
    BY <1>2 DEF FlightOk
  <2>2. CASE same
    <3>1. e.remote = j.known
      BY <1>2, <2>2 DEF TextsOk
    <3> QED
      BY <1>2, <2>1, <3>1 DEF TextsOk
  <2>3. CASE e.remote.text = e.fields
    <3>1. e.fields \in mine
      BY <1>2 DEF TextsOk
    <3> HIDE DEF mine
    <3> QED
      BY <2>1, <2>3, <3>1
  <2> QED
    BY <2>1, <2>2, <2>3
<1>7. /\ J \in ErrandT /\ J.known = NoDraft /\ (stuck => J = NoJob)
      /\ J.at = IF stuck THEN "none" ELSE "save"
  BY ErrandAndSaving DEF ErrandT
<1>8. e.status \in {"loading", "idle", "pending", "saving", "saved", "offered", "error"}
  BY <1>2 DEF EditorT
<1>9. /\ E \in EditorT /\ E.fields = e.fields /\ E.remote = e.remote /\ E.loaded = e.loaded
      /\ ~E.submitted /\ ~E.timer
      /\ \/ takes /\ E.status = "idle" /\ E.saved = e.remote.text
         \/ ~takes /\ E.status = e.status /\ E.saved = e.saved
  BY <1>2, <1>4, <1>5
<1>10. ~stuck => E.status \in Tracked /\ E.loaded
  BY <1>5, <1>8, <1>9 DEF Tracked
<1>11. stuck => E.status # "saved"
  BY <1>2, <1>9 DEF FlightOk
<1> HIDE DEF e, j, O, mine, G, E, J, takes, stuck
<1>12. FlightOk(E, FALSE, NoSave, J)
  <2>1. /\ ~E.loaded => E.remote = NoDraft /\ E.status \in {"loading", "error"}
        /\ E.status = "offered" => E.remote # NoDraft
        /\ E.status \notin {"saving", "loading"}
    BY <1>2, <1>5, <1>6, <1>9 DEF FlightOk
  <2> QED
    BY <1>7, <1>9, <1>10, <2>1, ErrandAndSaving DEF FlightOk
<1>13. TextsOk(E, NoSave, J, mine)
  <2>1. E.status \in Tracked /\ E.remote # NoDraft => E.saved = E.remote.text
    BY <1>2, <1>9 DEF TextsOk
  <2>2. E.remote # NoDraft /\ E.status # "offered" => E.remote.text \in mine
    BY <1>2, <1>6, <1>9 DEF TextsOk
  <2>3. E.fields \in mine
    BY <1>2, <1>9 DEF TextsOk
  <2>4. J.at \in {"none", "save"} /\ (J.at = "none" => E.status # "saved")
    BY <1>7, <1>11
  <2> QED
    BY <2>1, <2>2, <2>3, <2>4 DEF TextsOk
<1>14. ToldOk(E, NoSave, J, draft, ids, confirmed)
  BY <1>2, <1>7, <1>9, ErrandAndSaving, NothingSeen DEF ToldOk
<1>15. FitsTab(t, E, FALSE, NoSave, J, O)
  BY <1>2, <1>7, <1>9, <1>12, <1>13, <1>14, ErrandAndSaving DEF FitsTab, mine
<1> QED
  BY <1>3, <1>15, LocalMove

\* Who knows a draft that there is knows what it says.
LEMMA KnownRow ==
  ASSUME FormInv, NEW t \in FormTab, KnowsRow(editor[t])
  PROVE  draft = editor[t].remote
<1>1. Seen(editor[t].remote, draft, ids, confirmed)
  BY TabParts DEF ToldOk
<1> QED
  BY <1>1 DEF Seen, KnowsRow

\* A tab sends what its user typed.
LEMMA SendSaveKeeps ==
  ASSUME FormInv, NEW t \in FormTab, NEW fate \in Fate, SendSave(t, fate), UNCHANGED errand,
         editor[t].loaded, editor[t].status \in Tracked, reading[t] = FALSE, saving[t] = NoSave,
         errand[t].at \in {"none", "save"}, ~editor[t].submitted
  PROVE  FormInv'
<1> DEFINE e == editor[t]
           j == errand[t]
           mine == {0} \cup TextOf[t] \cup settled[t]
           fits == KnowsRow(e)
           row == [id |-> IF fits /\ draft.id # 0 THEN draft.id ELSE ids + 1,
                   version |-> draft.version + 1, text |-> e.fields]
           takes == fits /\ fate # "unsent"
           S == [text |-> e.fields, answer |-> Told(fate, fits), row |-> row]
           E == [e EXCEPT !.status = "saving", !.timer = FALSE]
<1>1. /\ draft' = IF takes THEN row ELSE draft
      /\ ids' = IF takes /\ row.id > ids THEN row.id ELSE ids
      /\ confirmed' = IF takes THEN confirmed \cup {e.fields} ELSE confirmed
      /\ saving' = [saving EXCEPT ![t] = S] /\ editor' = [editor EXCEPT ![t] = E]
      /\ records' = records /\ reading' = reading /\ settled' = settled /\ errand' = errand
  BY DEF SendSave, Put
<1>2. /\ e \in EditorT /\ j \in ErrandT /\ FlightOk(e, FALSE, NoSave, j)
      /\ TextsOk(e, NoSave, j, mine) /\ ToldOk(e, NoSave, j, draft, ids, confirmed)
      /\ FormTypes /\ RecordsAreDrafts /\ Seen(draft, draft, ids, confirmed)
  BY TabParts DEF FormInv
<1>3. /\ draft \in RowT /\ draft.id \in Nat /\ draft.version \in Nat /\ ids \in Nat /\ draft.id <= ids
      /\ e.fields \in Nat
  BY <1>2 DEF FormTypes, RowT, Seen, EditorT
<1>4. fits \in BOOLEAN /\ takes \in BOOLEAN /\ (takes => fits)
  BY DEF KnowsRow
<1>5. /\ row \in RowT /\ row.text = e.fields /\ row.version = draft.version + 1 /\ row # NoDraft
      /\ row.id = IF fits /\ draft.id # 0 THEN draft.id ELSE ids + 1
  <2> HIDE DEF fits, e
  <2> QED
    BY <1>3, NoDraftRow DEF RowT
<1>6. /\ S \in SavingT /\ S.text = e.fields /\ S.row = row /\ S.answer # "none"
      /\ S.answer = "ok" => takes
  <2>1. Told(fate, fits) \in {"lost", "ok", "conflict"} /\ (Told(fate, fits) = "ok" => takes)
    BY <1>4 DEF Told
  <2> HIDE DEF row, fits, takes, e
  <2> QED
    BY <1>3, <1>5, <2>1 DEF SavingT
<1>7. /\ E \in EditorT /\ E.fields = e.fields /\ E.saved = e.saved /\ E.remote = e.remote
      /\ E.loaded = e.loaded /\ E.submitted = e.submitted /\ E.timer = FALSE /\ E.status = "saving"
  BY <1>2 DEF EditorT
<1> HIDE DEF fits, row, takes, S, E
<1>8. /\ FormTypes' /\ OthersStay(t) /\ editor'[t] = E /\ saving'[t] = S
      /\ reading'[t] = FALSE /\ errand'[t] = j
  <2>1. draft' \in RowT /\ ids' \in Nat /\ confirmed' \in SUBSET Nat
    <3> HIDE DEF e
    <3> QED
      BY <1>1, <1>2, <1>3, <1>5 DEF FormTypes, RowT
  <2> HIDE DEF mine
  <2> QED
    BY <1>1, <1>2, <1>6, <1>7, <2>1 DEF FormTypes, OthersStay
<1>9. /\ DraftMoves /\ confirmed \subseteq confirmed' /\ ids <= ids'
      /\ Seen(draft', draft', ids', confirmed')
      /\ draft' = draft \/ draft'.id = draft.id \/ draft'.id = ids + 1
  <2>1. CASE ~takes
    BY <1>1, <1>2, <1>3, <2>1 DEF DraftMoves
  <2>2. CASE takes /\ draft.id # 0
    <3>1. draft' = row /\ row.id = draft.id /\ ids' = ids /\ confirmed' = confirmed \cup {e.fields}
      BY <1>1, <1>3, <1>4, <1>5, <2>2
    <3> QED
      BY <1>3, <1>5, <2>2, <3>1 DEF DraftMoves, Seen
  <2>3. CASE takes /\ draft.id = 0
    <3>1. draft' = row /\ row.id = ids + 1 /\ ids' = ids + 1 /\ confirmed' = confirmed \cup {e.fields}
      BY <1>1, <1>3, <1>4, <1>5, <2>3
    <3> QED
      BY <1>3, <1>5, <2>3, <3>1 DEF DraftMoves, Seen
  <2> QED
    BY <1>4, <2>1, <2>2, <2>3
<1>10. RecordsAreDrafts'
  <2> SUFFICES ASSUME NEW i \in DOMAIN records, records[i].used # NoDraft
               PROVE  /\ records[i].text = records[i].used.text
                      /\ records[i].used.id \in 1..ids' /\ records[i].used.id # draft'.id
                      /\ \A k \in DOMAIN records \ {i} : records[k].used.id # records[i].used.id
    BY <1>1 DEF RecordsAreDrafts
  <2>1. /\ records[i].text = records[i].used.text
        /\ records[i].used.id \in 1..ids /\ records[i].used.id # draft.id
        /\ \A k \in DOMAIN records \ {i} : records[k].used.id # records[i].used.id
    BY <1>2 DEF RecordsAreDrafts
  <2>2. ids' \in Nat
    BY <1>8 DEF FormTypes
  <2> QED
    BY <1>3, <1>9, <2>1, <2>2
<1>11. FlightOk(E, FALSE, S, j)
  BY <1>2, <1>6, <1>7, ErrandAndSaving DEF FlightOk, Tracked
<1>12. TextsOk(E, S, j, mine)
  <2> HIDE DEF mine, e, j
  <2> QED
    BY <1>2, <1>6, <1>7 DEF TextsOk, Tracked, e, j
<1>13. ToldOk(E, S, j, draft', ids', confirmed')
  <2>1. Seen(e.remote, draft', ids', confirmed') /\ Seen(j.known, draft', ids', confirmed')
    <3>1. e.remote \in RowT /\ j.known \in RowT
      BY <1>2 DEF EditorT, ErrandT
    <3>2. Seen(e.remote, draft, ids, confirmed) /\ Seen(j.known, draft, ids, confirmed)
      BY <1>2 DEF ToldOk
    <3> QED
      BY <1>2, <1>8, <1>9, <3>1, <3>2, SeenLasts
  <2>2. takes => draft' = row
    BY <1>1
  <2> HIDE DEF e, j
  <2> QED
    BY <1>5, <1>6, <1>7, <1>9, <2>1, <2>2 DEF ToldOk
<1>14. Mine(t)' = mine
  BY <1>1, Zenon DEF Mine, mine
<1> HIDE DEF e, j, mine
<1>15. TabOk(t)'
  BY <1>8, <1>11, <1>12, <1>13, <1>14 DEF TabOk
<1> QED
  BY <1>8, <1>9, <1>10, <1>15, TabStep

LEMMA AutosaveKeeps ==
  ASSUME FormInv, NEW t \in FormTab, NEW fate \in Fate, Autosave(t, fate)
  PROVE  FormInv'
<1>1. editor[t].timer /\ SendSave(t, fate) /\ UNCHANGED errand
  BY DEF Autosave
<1>2. /\ FlightOk(editor[t], reading[t], saving[t], errand[t]) /\ reading[t] \in BOOLEAN
      /\ editor[t].loaded \in BOOLEAN
  BY TabParts DEF EditorT
<1>3. /\ editor[t].status = "pending" /\ errand[t].at = "none" /\ saving[t] = NoSave
      /\ editor[t].loaded /\ reading[t] = FALSE /\ ~editor[t].submitted
  BY <1>1, <1>2 DEF FlightOk
<1> QED
  BY <1>1, <1>3, SendSaveKeeps DEF Tracked

LEMMA SubmitSaveKeeps ==
  ASSUME FormInv, NEW t \in FormTab, NEW fate \in Fate, SubmitSave(t, fate)
  PROVE  FormInv'
<1>1. /\ errand[t].at = "save" /\ ~reading[t] /\ saving[t] = NoSave
      /\ SendSave(t, fate) /\ UNCHANGED errand
  BY DEF SubmitSave, Arrived
<1>2. /\ FlightOk(editor[t], reading[t], saving[t], errand[t]) /\ reading[t] \in BOOLEAN
      /\ editor[t].loaded \in BOOLEAN
  BY TabParts DEF EditorT
<1>3. editor[t].status \in Tracked /\ editor[t].loaded /\ reading[t] = FALSE /\ ~editor[t].submitted
  BY <1>1, <1>2 DEF FlightOk, Tracked
<1> QED
  BY <1>1, <1>3, SendSaveKeeps

\* The draft may go, and an errand of the tab goes on.
LEMMA ErrandGoes ==
  ASSUME FormInv, NEW t \in FormTab, NEW J \in ErrandT, errand' = [errand EXCEPT ![t] = J],
         UNCHANGED <<ids, editor, reading, saving, confirmed, settled>>,
         draft' \in {draft, NoDraft}, J.known = errand[t].known,
         records' \in Seq([text : Nat, used : RowT]), RecordsAreDrafts',
         FlightOk(editor[t], reading[t], saving[t], J),
         TextsOk(editor[t], saving[t], J, {0} \cup TextOf[t] \cup settled[t])
  PROVE  FormInv'
<1>1. /\ FormTypes /\ ToldOk(editor[t], saving[t], errand[t], draft, ids, confirmed)
      /\ Seen(draft, draft, ids, confirmed) /\ Seen(NoDraft, draft, ids, confirmed)
  BY TabParts, NothingSeen DEF FormInv
<1>2. FormTypes' /\ OthersStay(t) /\ errand'[t] = J
  BY <1>1, NoDraftRow DEF FormTypes, OthersStay
<1>3. DraftMoves /\ confirmed \subseteq confirmed'
  BY DEF DraftMoves
<1>4. \A k \in RowT : Seen(k, draft, ids, confirmed) => Seen(k, draft', ids', confirmed')
  BY <1>1, <1>2, <1>3, SeenLasts
<1>5. Seen(draft', draft', ids', confirmed')
  BY <1>1, <1>4, NoDraftRow DEF FormTypes
<1>6. ToldOk(editor[t], saving[t], J, draft', ids', confirmed')
  <2>1. editor[t].remote \in RowT /\ J.known \in RowT /\ saving[t].row \in RowT
    BY <1>1 DEF FormTypes, EditorT, ErrandT, SavingT
  <2> QED
    BY <1>1, <1>4, <2>1 DEF ToldOk
<1>7. TabOk(t)'
  BY <1>2, <1>6 DEF TabOk, Mine
<1> QED
  BY <1>2, <1>3, <1>5, <1>7, TabStep

\* A draft that goes leaves the records as they are.
LEMMA RecordsStay ==
  ASSUME FormInv, draft' \in {draft, NoDraft}, UNCHANGED <<ids, records>>
  PROVE  RecordsAreDrafts' /\ records' \in Seq([text : Nat, used : RowT])
<1>1. /\ RecordsAreDrafts /\ records \in Seq([text : Nat, used : RowT]) /\ ids \in Nat
  BY DEF FormInv, FormTypes
<1>2. \A i \in DOMAIN records : records[i].used # NoDraft => records[i].used.id # draft'.id
  BY <1>1, NoDraftRow DEF RecordsAreDrafts
<1> QED
  BY <1>1, <1>2 DEF RecordsAreDrafts

LEMMA SendDeleteKeeps ==
  ASSUME FormInv, NEW t \in FormTab, NEW fate \in Fate, SendDelete(t, fate)
  PROVE  FormInv'
<1> DEFINE e == editor[t]
           j == errand[t]
           fits == draft = NoDraft \/ KnowsRow(e)
           answer == IF e.remote = NoDraft THEN "ok" ELSE Told(fate, fits)
           J == [j EXCEPT !.at = "deleting", !.answer = answer]
<1>1. /\ j.at = "discard" /\ ~reading[t] /\ saving[t] = NoSave
      /\ UNCHANGED <<ids, records, editor, reading, saving, confirmed, settled>>
      /\ draft' \in {draft, NoDraft} /\ errand' = [errand EXCEPT ![t] = J]
  BY DEF SendDelete, Arrived
<1>2. /\ j \in ErrandT /\ FlightOk(e, reading[t], saving[t], j)
      /\ TextsOk(e, saving[t], j, {0} \cup TextOf[t] \cup settled[t])
  BY TabParts
<1>3. answer \in {"none", "lost", "ok", "conflict"}
  BY DEF Told
<1> HIDE DEF answer
<1>4. J \in ErrandT /\ J.at = "deleting" /\ J.known = j.known
  BY <1>2, <1>3 DEF ErrandT
<1> HIDE DEF J, e, j
<1>5. FlightOk(e, reading[t], saving[t], J)
  BY <1>1, <1>2, <1>4 DEF FlightOk
<1>6. TextsOk(e, saving[t], J, {0} \cup TextOf[t] \cup settled[t])
  BY <1>1, <1>2, <1>4 DEF TextsOk
<1>7. RecordsAreDrafts' /\ records' \in Seq([text : Nat, used : RowT])
  BY <1>1, RecordsStay
<1> QED
  BY <1>1, <1>4, <1>5, <1>6, <1>7, ErrandGoes DEF e, j

\* The record is made of the form, and uses the draft up.
LEMMA SendActionKeeps ==
  ASSUME FormInv, NEW t \in FormTab, NEW fate \in Fate, SendAction(t, fate)
  PROVE  FormInv'
<1> DEFINE e == editor[t]
           j == errand[t]
           fits == e.remote = NoDraft \/ KnowsRow(e)
           used == IF e.remote = NoDraft THEN NoDraft ELSE draft
           rec == [text |-> e.fields, used |-> used]
           takes == fits /\ fate # "unsent"
           answer == Told(fate, fits)
           J == [j EXCEPT !.at = "acting", !.answer = answer]
<1>1. /\ j.at = "save" /\ ~reading[t] /\ saving[t] = NoSave /\ e.fields = e.saved
      /\ UNCHANGED <<ids, editor, reading, saving, confirmed, settled>>
      /\ records' = IF takes THEN Append(records, rec) ELSE records
      /\ draft' = IF takes /\ e.remote # NoDraft THEN NoDraft ELSE draft
      /\ errand' = [errand EXCEPT ![t] = J]
  BY DEF SendAction, Arrived
<1>2. /\ e \in EditorT /\ j \in ErrandT /\ FlightOk(e, reading[t], saving[t], j)
      /\ TextsOk(e, saving[t], j, {0} \cup TextOf[t] \cup settled[t])
      /\ FormTypes /\ RecordsAreDrafts /\ Seen(draft, draft, ids, confirmed)
  BY TabParts DEF FormInv
<1>3. answer \in {"none", "lost", "ok", "conflict"}
  BY DEF Told
<1> HIDE DEF answer
<1>4. J \in ErrandT /\ J.at = "acting" /\ J.known = j.known
  BY <1>2, <1>3 DEF ErrandT
<1>5. e.status \in Tracked
  BY <1>1, <1>2 DEF FlightOk
<1>6. CASE ~takes
  <2>1. RecordsAreDrafts' /\ records' \in Seq([text : Nat, used : RowT])
    BY <1>1, <1>6, RecordsStay
  <2> QED
    <3> HIDE DEF J, takes, rec
    <3>1. FlightOk(e, reading[t], saving[t], J)
      BY <1>1, <1>2, <1>4, <1>5 DEF FlightOk
    <3>2. TextsOk(e, saving[t], J, {0} \cup TextOf[t] \cup settled[t])
      BY <1>1, <1>2, <1>4 DEF TextsOk
    <3> QED
      BY <1>1, <1>4, <1>6, <2>1, <3>1, <3>2, ErrandGoes
<1>7. CASE takes
  <2>1. draft \in RowT /\ records \in Seq([text : Nat, used : RowT]) /\ e.fields \in Nat /\ ids \in Nat
    BY <1>2 DEF FormTypes, EditorT
  <2>2. used \in RowT /\ (used # NoDraft => used = draft /\ used = e.remote)
    BY <1>7, <2>1, KnownRow, NoDraftRow
  <2>3. used # NoDraft => e.fields = used.text /\ used.id \in 1..ids
    <3>1. used # NoDraft => e.fields = used.text
      BY <1>1, <1>2, <1>5, <2>2 DEF TextsOk
    <3>2. draft # NoDraft => draft.id \in 1..ids
      BY <1>2, <2>1 DEF Seen, RowT
    <3> QED
      BY <2>2, <3>1, <3>2
  <2>4. draft'.id # 0 => draft' = draft /\ used = NoDraft
    BY <1>1, <1>7, NoDraftRow
  <2>5. draft' \in {draft, NoDraft}
    BY <1>1
  <2> HIDE DEF used
  <2>6. rec \in [text : Nat, used : RowT] /\ rec.text = e.fields /\ rec.used = used
    BY <2>1, <2>2
  <2> HIDE DEF rec
  <2>7. /\ records' \in Seq([text : Nat, used : RowT]) /\ Len(records') = Len(records) + 1
        /\ Len(records) \in Nat /\ DOMAIN records = 1..Len(records) /\ DOMAIN records' = 1..Len(records) + 1
        /\ records'[Len(records) + 1] = rec /\ \A i \in DOMAIN records : records'[i] = records[i]
    <3>1. records' = Append(records, rec)
      BY <1>1, <1>7
    <3> HIDE DEF takes, J, e, j
    <3> QED
      BY <2>1, <2>6, <3>1
  <2>8. RecordsAreDrafts'
    <3> DEFINE n == Len(records) + 1
    <3>1. \A i \in DOMAIN records' : i \in DOMAIN records \/ i = n
      BY <2>7
    <3>2. \A i \in DOMAIN records : i # n
      BY <2>7
    <3>3. ids' = ids
      BY <1>1
    <3>4. ASSUME NEW i \in DOMAIN records, records[i].used # NoDraft
          PROVE  /\ records[i].text = records[i].used.text
                 /\ records[i].used.id \in 1..ids /\ records[i].used.id # draft.id /\ records[i].used.id # 0
                 /\ \A k \in DOMAIN records \ {i} : records[k].used.id # records[i].used.id
      BY <1>2, <2>1, <3>4 DEF RecordsAreDrafts
    <3>5. ASSUME NEW i \in DOMAIN records, records[i].used # NoDraft
          PROVE  records[i].used.id # draft'.id /\ records[i].used.id # rec.used.id
      BY <2>2, <2>4, <2>5, <2>6, <3>4, <3>5, NoDraftRow
    <3>6. rec.used # NoDraft =>
            /\ rec.text = rec.used.text /\ rec.used.id \in 1..ids /\ rec.used.id # draft'.id
            /\ \A k \in DOMAIN records : records[k].used.id # rec.used.id
      <4> SUFFICES ASSUME rec.used # NoDraft
                   PROVE  /\ rec.text = rec.used.text /\ rec.used.id \in 1..ids /\ rec.used.id # draft'.id
                          /\ \A k \in DOMAIN records : records[k].used.id # rec.used.id
        OBVIOUS
      <4>1. rec.text = rec.used.text /\ rec.used.id \in 1..ids /\ rec.used.id # 0
        BY <2>1, <2>3, <2>6
      <4>2. draft'.id = 0
        BY <2>4, <2>6, NoDraftRow
      <4>3. \A k \in DOMAIN records : records[k].used = NoDraft => records[k].used.id # rec.used.id
        BY <4>1, NoDraftRow
      <4> QED
        BY <3>5, <4>1, <4>2, <4>3
    <3>7. records'[n] = rec /\ \A k \in DOMAIN records : records'[k] = records[k]
      BY <2>7
    <3> HIDE DEF n, J, takes, e, j
    <3>8. ASSUME NEW i \in DOMAIN records', records'[i].used # NoDraft
          PROVE  /\ records'[i].text = records'[i].used.text
                 /\ records'[i].used.id \in 1..ids /\ records'[i].used.id # draft'.id
                 /\ \A k \in DOMAIN records' \ {i} : records'[k].used.id # records'[i].used.id
      <4>1. CASE i \in DOMAIN records
        <5>1. records'[i] = records[i] /\ records[i].used # NoDraft
          BY <3>7, <3>8, <4>1
        <5>2. ASSUME NEW k \in DOMAIN records' \ {i} PROVE records'[k].used.id # records[i].used.id
          BY <3>1, <3>4, <3>5, <3>7, <4>1, <5>1
        <5> QED
          BY <3>4, <3>5, <4>1, <5>1, <5>2
      <4>2. CASE i = n
        <5>1. records'[i] = rec /\ rec.used # NoDraft
          BY <3>7, <3>8, <4>2
        <5>2. ASSUME NEW k \in DOMAIN records' \ {i} PROVE records'[k].used.id # rec.used.id
          BY <3>1, <3>6, <3>7, <4>2, <5>1
        <5> QED
          BY <3>6, <5>1, <5>2
      <4> QED
        BY <3>1, <4>1, <4>2
    <3> QED
      BY <3>3, <3>8 DEF RecordsAreDrafts
  <2> HIDE DEF J, takes
  <2>9. FlightOk(e, reading[t], saving[t], J)
    BY <1>1, <1>2, <1>4, <1>5 DEF FlightOk
  <2>10. TextsOk(e, saving[t], J, {0} \cup TextOf[t] \cup settled[t])
    BY <1>1, <1>2, <1>4 DEF TextsOk
  <2> QED
    BY <1>1, <1>4, <2>5, <2>7, <2>8, <2>9, <2>10, ErrandGoes
<1> QED
  BY <1>6, <1>7

\* Somewhere else the draft is written, or submitted.
LEMMA ElsewhereKeeps ==
  ASSUME FormInv, Elsewhere
  PROVE  FormInv'
<1>1. /\ FormTypes /\ RecordsAreDrafts /\ Seen(draft, draft, ids, confirmed)
      /\ draft \in RowT /\ records \in Seq([text : Nat, used : RowT]) /\ ids \in Nat /\ confirmed \in SUBSET Nat
  BY DEF FormInv, FormTypes
<1>2. draft.id \in Nat /\ draft.version \in Nat /\ draft.text \in Nat /\ draft.id <= ids /\ Foreign \in Nat
      /\ ids \in Nat
  BY <1>1, DraftConstants DEF RowT, Seen
<1>3. UNCHANGED <<editor, reading, saving, errand, settled>>
  BY DEF Elsewhere
<1>4. ASSUME draft' = [id |-> IF draft = NoDraft THEN ids + 1 ELSE draft.id,
                       version |-> draft.version + 1, text |-> Foreign],
             ids' = IF draft'.id > ids THEN draft'.id ELSE ids, records' = records
      PROVE  FormInv'
  <2> DEFINE new == IF draft = NoDraft THEN ids + 1 ELSE draft.id
             n == IF new > ids THEN new ELSE ids
  <2>1. draft' = [id |-> new, version |-> draft.version + 1, text |-> Foreign]
    BY <1>4
  <2>2. draft = NoDraft <=> draft.id = 0
    BY <1>1, NoDraftRow DEF Seen
  <2>3. /\ new \in Nat /\ new # 0 /\ n \in Nat /\ new <= n /\ ids <= n
        /\ \/ new = ids + 1 /\ n = ids + 1
           \/ new = draft.id /\ draft.id # 0 /\ n = ids
    <3>1. CASE draft.id = 0
      <4>1. new = ids + 1
        BY <2>2, <3>1
      <4> HIDE DEF new
      <4> QED
        BY <1>2, <4>1
    <3>2. CASE draft.id # 0
      <4>1. new = draft.id
        BY <2>2, <3>2
      <4> HIDE DEF new
      <4> QED
        BY <1>2, <3>2, <4>1
    <3> QED
      BY <3>1, <3>2
  <2> HIDE DEF new
  <2>4. draft' \in RowT /\ draft'.id = new /\ draft'.version = draft.version + 1 /\ draft'.text = Foreign
    BY <1>2, <2>1, <2>3 DEF RowT
  <2>5. ids' = n
    BY <1>4, <2>4
  <2> HIDE DEF n
  <2>6. draft' # NoDraft
    BY <2>3, <2>4, NoDraftRow
  <2>7. confirmed' = confirmed \cup {Foreign}
    BY <2>6 DEF Elsewhere
  <2>8. FormTypes'
    BY <1>1, <1>2, <1>3, <1>4, <2>3, <2>4, <2>5, <2>7 DEF FormTypes
  <2>9. DraftMoves
    BY <1>2, <2>3, <2>4, <2>5 DEF DraftMoves
  <2>10. Seen(draft', draft', ids', confirmed')
    BY <1>2, <2>3, <2>4, <2>5, <2>7 DEF Seen
  <2>11. RecordsAreDrafts'
    <3>1. ASSUME NEW i \in DOMAIN records, records[i].used # NoDraft
          PROVE  records[i].used.id \in 1..n /\ records[i].used.id # new
      BY <1>1, <1>2, <2>3, <3>1 DEF RecordsAreDrafts
    <3> QED
      BY <1>1, <1>4, <2>4, <2>5, <3>1 DEF RecordsAreDrafts
  <2> QED
    BY <1>3, <2>7, <2>8, <2>9, <2>10, <2>11, ServerStep
<1>5. ASSUME draft # NoDraft, draft' = NoDraft, ids' = ids,
             records' = Append(records, [text |-> draft.text, used |-> draft])
      PROVE  FormInv'
  <2> DEFINE rec == [text |-> draft.text, used |-> draft]
  <2>1. rec \in [text : Nat, used : RowT] /\ rec.text = rec.used.text /\ rec.used = draft
    BY <1>1, <1>2
  <2>2. confirmed' = confirmed
    BY <1>5 DEF Elsewhere
  <2>3. draft.id \in 1..ids /\ draft.id # 0
    BY <1>1, <1>2, <1>5 DEF Seen
  <2> HIDE DEF rec
  <2>4. /\ records' \in Seq([text : Nat, used : RowT]) /\ Len(records) \in Nat
        /\ DOMAIN records = 1..Len(records) /\ DOMAIN records' = 1..Len(records) + 1
        /\ records'[Len(records) + 1] = rec /\ \A i \in DOMAIN records : records'[i] = records[i]
    BY <1>1, <1>5, <2>1 DEF rec
  <2>5. FormTypes'
    BY <1>1, <1>3, <1>5, <2>2, <2>4, NoDraftRow DEF FormTypes
  <2>6. DraftMoves /\ Seen(draft', draft', ids', confirmed')
    BY <1>5, <2>2, NothingSeen, NoDraftRow DEF DraftMoves, Seen
  <2>7. ASSUME NEW i \in DOMAIN records', records'[i].used # NoDraft
        PROVE  /\ records'[i].text = records'[i].used.text
               /\ records'[i].used.id \in 1..ids /\ records'[i].used.id # 0
               /\ \A k \in DOMAIN records' \ {i} : records'[k].used.id # records'[i].used.id
    <3>1. \A k \in DOMAIN records' : k \in DOMAIN records \/ k = Len(records) + 1
      BY <2>4
    <3>2. \A k \in DOMAIN records : records[k].used.id # draft.id
      BY <1>1, <2>3, NoDraftRow DEF RecordsAreDrafts
    <3>3. CASE i \in DOMAIN records
      <4>1. records'[i] = records[i] /\ records[i].used # NoDraft
        BY <2>4, <2>7, <3>3
      <4>2. /\ records[i].text = records[i].used.text /\ records[i].used.id \in 1..ids
            /\ \A k \in DOMAIN records \ {i} : records[k].used.id # records[i].used.id
        BY <1>1, <3>3, <4>1 DEF RecordsAreDrafts
      <4>3. ASSUME NEW k \in DOMAIN records' \ {i} PROVE records'[k].used.id # records[i].used.id
        <5>1. CASE k \in DOMAIN records
          BY <2>4, <4>2, <5>1
        <5>2. CASE k = Len(records) + 1
          BY <2>1, <2>4, <3>2, <3>3, <5>2
        <5> QED
          BY <3>1, <5>1, <5>2
      <4> QED
        BY <1>2, <4>1, <4>2, <4>3
    <3>4. CASE i = Len(records) + 1
      <4>1. records'[i] = rec
        BY <2>4, <3>4
      <4>2. ASSUME NEW k \in DOMAIN records' \ {i} PROVE records'[k].used.id # draft.id
        BY <2>4, <3>1, <3>2, <3>4
      <4> QED
        BY <2>1, <2>3, <4>1, <4>2
    <3> QED
      BY <3>1, <3>3, <3>4
  <2>8. RecordsAreDrafts'
    BY <1>5, <2>7, NoDraftRow DEF RecordsAreDrafts
  <2> QED
    BY <1>3, <2>2, <2>5, <2>6, <2>8, ServerStep
<1> QED
  BY <1>4, <1>5 DEF Elsewhere

LEMMA ExpireKeeps ==
  ASSUME FormInv, Expire
  PROVE  FormInv'
<1>1. draft' = NoDraft /\ UNCHANGED <<ids, records, editor, reading, saving, errand, confirmed, settled>>
  BY DEF Expire
<1>2. FormTypes /\ Seen(NoDraft, draft, ids, confirmed)
  BY NothingSeen DEF FormInv
<1>3. FormTypes' /\ DraftMoves
  BY <1>1, <1>2, NoDraftRow DEF FormTypes, DraftMoves
<1>4. Seen(draft', draft', ids', confirmed')
  BY <1>1, <1>2, <1>3, SeenLasts, NoDraftRow
<1>5. RecordsAreDrafts'
  BY <1>1, RecordsStay
<1> QED
  BY <1>1, <1>3, <1>4, <1>5, ServerStep

LEMMA FormInvInit == DraftInit => FormInv
<1> SUFFICES ASSUME DraftInit PROVE FormInv
  OBVIOUS
<1>1. /\ Fresh \in EditorT /\ Fresh.fields = 0 /\ Fresh.remote = NoDraft /\ Fresh.loaded = FALSE
      /\ Fresh.submitted = FALSE /\ Fresh.timer = FALSE /\ Fresh.status = "loading"
  BY NoDraftRow DEF Fresh, EditorT
<1>2. FormTypes /\ RecordsAreDrafts
  BY <1>1, NoDraftRow, ErrandAndSaving DEF DraftInit, FormTypes, RecordsAreDrafts
<1>3. Seen(NoDraft, NoDraft, 0, {})
  BY NoDraftRow DEF Seen
<1>4. FlightOk(Fresh, TRUE, NoSave, NoJob)
  BY <1>1, ErrandAndSaving DEF FlightOk
<1>5. \A t \in FormTab : TextsOk(Fresh, NoSave, NoJob, Mine(t))
  BY <1>1, ErrandAndSaving DEF TextsOk, Tracked, Mine
<1>6. ToldOk(Fresh, NoSave, NoJob, NoDraft, 0, {})
  BY <1>1, <1>3, ErrandAndSaving DEF ToldOk
<1> QED
  BY <1>2, <1>3, <1>4, <1>5, <1>6 DEF DraftInit, FormInv, TabOk

LEMMA FormInvStep == FormInv /\ [DraftNext /\ HandsOff]_draftVars => FormInv'
<1> SUFFICES ASSUME FormInv, [DraftNext /\ HandsOff]_draftVars PROVE FormInv'
  OBVIOUS
<1>1. ASSUME DraftNext, HandsOff PROVE FormInv'
  <2>1. ASSUME NEW t \in FormTab, NEW fate \in Fate,
               Autosave(t, fate) \/ SendDelete(t, fate) \/ SubmitSave(t, fate) \/ SendAction(t, fate)
        PROVE  FormInv'
    BY <2>1, AutosaveKeeps, SendDeleteKeeps, SubmitSaveKeeps, SendActionKeeps
  <2>2. ASSUME NEW t \in FormTab,
               \/ \E x \in TextOf[t] \cup {0} : Type(t, x)
               \/ Saved(t) \/ RetryDraft(t) \/ Reopen(t)
               \/ \E keep \in BOOLEAN : Settle(t, keep)
               \/ \E what \in {"discard", "submit"} : Begin(t, what)
        PROVE  FormInv'
    BY <1>1, <2>2, TypeKeeps, SavedKeeps, RetryKeeps, ReopenKeeps, SettleKeeps, BeginKeeps
  <2>3. ASSUME NEW t \in FormTab,
               \/ Discarded(t) \/ Recheck(t) \/ Prepare(t) \/ Submitted(t)
               \/ \E fate \in {"answered", "unsent"} : Load(t, fate)
        PROVE  FormInv'
    BY <2>3, DiscardedKeeps, RecheckKeeps, SubmitPrepareKeeps, SubmittedKeeps, LoadKeeps
  <2> QED
    BY <1>1, <2>1, <2>2, <2>3, ElsewhereKeeps, ExpireKeeps DEF DraftNext
<1>2. CASE UNCHANGED draftVars
  <2>1. /\ draft' = draft /\ ids' = ids /\ records' = records /\ confirmed' = confirmed
        /\ UNCHANGED <<editor, reading, saving, errand, settled>>
    BY <1>2 DEF draftVars
  <2>2. FormTypes' /\ RecordsAreDrafts' /\ Seen(draft', draft', ids', confirmed')
    BY <2>1 DEF FormInv, FormTypes, RecordsAreDrafts
  <2> QED
    BY <2>1, <2>2, ServerStep DEF DraftMoves
<1> QED
  BY <1>1, <1>2

\* "Saved" is shown only of what the server has confirmed, and a draft becomes
\* one record that says what the draft said, when users wait while their
\* draft is read again (form-draft.tsx, FormDraftController; form_drafts/service.py).
THEOREM DraftIsKept == PatientSpec => []DraftsAreKept
<1>1. FormInv => DraftsAreKept
  <2> SUFFICES ASSUME FormInv PROVE DraftsAreKept
    OBVIOUS
  <2>1. ASSUME NEW t \in FormTab, editor[t].status = "saved", Quiet(t)
        PROVE  editor[t].fields = editor[t].saved /\ editor[t].saved \in confirmed
    <3>1. errand[t].at = "none"
      BY <2>1, ErrandAndSaving DEF Quiet
    <3> QED
      BY <2>1, <3>1, TabParts DEF TextsOk, ToldOk
  <2>2. DraftBecomesOneRecord
    BY DEF FormInv, RecordsAreDrafts, DraftBecomesOneRecord
  <2> QED
    BY <2>1, <2>2 DEF DraftsAreKept, SavedIsConfirmed
<1> QED
  BY <1>1, FormInvInit, FormInvStep, PTL DEF PatientSpec

\* No tab overwrites the text of another without its user having been shown
\* that text and having decided (docs/adr/0068), under the same patience.
THEOREM DraftsAreNotOverwritten == PatientSpec => [][NoSilentOverwrite]_draftVars
<1>1. ASSUME FormInv, FormInv', [DraftNext /\ HandsOff]_draftVars
      PROVE  [NoSilentOverwrite]_draftVars
  <2> SUFFICES ASSUME NEW t \in FormTab, DraftNext, saving'[t] # saving[t], draft' # draft, draft'.id = draft.id
               PROVE  draft.text \in {0} \cup TextOf[t] \cup settled[t]
    BY <1>1 DEF NoSilentOverwrite
  <2>0. FormTypes
    BY <1>1 DEF FormInv
  <2>1. PICK u \in FormTab, fate \in Fate : SendSave(u, fate) /\ (Autosave(u, fate) \/ SubmitSave(u, fate))
    <3>1. ASSUME NEW u \in FormTab, NEW fate \in Fate, SendDelete(u, fate) \/ SendAction(u, fate)
          PROVE  FALSE
      BY <3>1 DEF SendDelete, SendAction
    <3>2. ASSUME NEW u \in FormTab,
                 \/ \E x \in TextOf[u] \cup {0} : Type(u, x)
                 \/ Saved(u) \/ RetryDraft(u) \/ Reopen(u)
                 \/ \E keep \in BOOLEAN : Settle(u, keep)
                 \/ \E what \in {"discard", "submit"} : Begin(u, what)
          PROVE  FALSE
      <4>1. CASE \E x \in TextOf[u] \cup {0} : Type(u, x)
        BY <4>1 DEF Type
      <4>2. CASE Saved(u) \/ RetryDraft(u) \/ Reopen(u)
        BY <4>2, Zenon DEF Saved, RetryDraft, Reopen
      <4>3. CASE \E keep \in BOOLEAN : Settle(u, keep)
        BY <4>3, Zenon DEF Settle
      <4>4. CASE \E what \in {"discard", "submit"} : Begin(u, what)
        BY <4>4, Zenon DEF Begin
      <4> QED
        BY <3>2, <4>1, <4>2, <4>3, <4>4
    <3>3. ASSUME NEW u \in FormTab,
                 \/ Discarded(u) \/ Recheck(u) \/ Prepare(u) \/ Submitted(u)
                 \/ \E fate \in {"answered", "unsent"} : Load(u, fate)
          PROVE  FALSE
      BY <3>3 DEF Discarded, Recheck, Prepare, Submitted, Load
    <3>4. ~Elsewhere /\ ~Expire
      BY DEF Elsewhere, Expire
    <3>5. \E u \in FormTab, fate \in Fate : Autosave(u, fate) \/ SubmitSave(u, fate)
      BY <3>1, <3>2, <3>3, <3>4 DEF DraftNext
    <3> QED
      BY <3>5 DEF Autosave, SubmitSave
  <2>2. u = t
    BY <2>0, <2>1 DEF SendSave, FormTypes
  <2>3. KnowsRow(editor[t])
    BY <2>1, <2>2 DEF SendSave
  <2>4. draft = editor[t].remote
    BY <1>1, <2>3, KnownRow
  <2>5. draft # NoDraft
    <3>1. CASE draft = NoDraft
      <4> DEFINE fits == KnowsRow(editor[t])
                 row == [id |-> IF fits /\ draft.id # 0 THEN draft.id ELSE ids + 1,
                         version |-> draft.version + 1, text |-> editor[t].fields]
      <4>2. draft' = row
        BY <2>1, <2>2 DEF SendSave
      <4>3. row.id = ids + 1 /\ draft.id = 0 /\ ids \in Nat
        BY <2>0, <3>1, NoDraftRow DEF FormTypes
      <4> HIDE DEF row
      <4>1. draft'.id = ids + 1 /\ draft.id = 0 /\ ids \in Nat
        BY <4>2, <4>3
      <4>4. ids + 1 # 0
        BY <4>3
      <4> QED
        BY <4>1, <4>4, Zenon
    <3> QED
      BY <3>1
  <2>6. editor[t].status # "offered"
    BY <1>1, <2>1, <2>2, TabParts DEF Autosave, SubmitSave, Arrived, FlightOk, Tracked
  <2> QED
    BY <1>1, <2>4, <2>5, <2>6, TabParts DEF TextsOk
<1> QED
  BY <1>1, FormInvInit, FormInvStep, PTL DEF PatientSpec
=============================================================================
