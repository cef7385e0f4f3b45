----------------------------- MODULE FormDrafts -----------------------------
(***************************************************************************)
(* The private draft of one form, open in several tabs of its user:        *)
(* FormDraftController (platform/workbench/form-draft.tsx) against the row *)
(* the server keeps (form_drafts/service.py, routes.py).                   *)
(*                                                                         *)
(* A write takes effect when it is sent and its answer comes later, or     *)
(* never; a read brings the row of the moment it ends.  Texts are          *)
(* numbers, 0 is the empty form.  The form is locked while it is submitted *)
(* (the fieldset of the forms), not while its draft is discarded.          *)
(***************************************************************************)
EXTENDS Naturals, Sequences, FiniteSets

CONSTANTS
  FormTab,     \* tabs with the form open
  TextOf,      \* per tab: the texts its user types
  Foreign,     \* the text that is typed elsewhere
  MaxIds,      \* bound: drafts ever created
  MaxVersion,  \* bound: versions of a draft
  MaxRecords,  \* bound: records created from the form
  MaxDropped   \* bound: requests and answers that are lost

ASSUME DraftConstants == Foreign \in Nat \ {0} /\ \A t \in FormTab : TextOf[t] \subseteq Nat \ {0, Foreign}

VARIABLES
  draft,       \* form_drafts: id, version and text, or NoDraft
  ids,         \* ids given to drafts so far
  records,     \* what was submitted: text, and id and text of the draft used up
  editor,      \* per tab: the controller's state
  reading,     \* per tab: a GET is in flight
  saving,      \* per tab: the PUT in flight, with its answer
  errand,      \* per tab: how far discard or submit has come
  confirmed,   \* history: texts the server has held
  settled,     \* history: per tab, foreign texts its user decided on
  dropped      \* requests and answers lost so far
draftVars == <<draft, ids, records, editor, reading, saving, errand, confirmed, settled, dropped>>

NoDraft == [id |-> 0, version |-> 0, text |-> 0]
NoSave == [text |-> 0, answer |-> "none", row |-> NoDraft]
NoJob == [at |-> "none", answer |-> "none", known |-> NoDraft]
Fresh == [status |-> "loading", fields |-> 0, saved |-> 0, remote |-> NoDraft, loaded |-> FALSE,
          conflicted |-> FALSE, submitted |-> FALSE, timer |-> FALSE]

DraftInit ==
  /\ draft = NoDraft /\ ids = 0 /\ records = <<>>
  /\ editor = [t \in FormTab |-> Fresh] /\ reading = [t \in FormTab |-> TRUE]
  /\ saving = [t \in FormTab |-> NoSave] /\ errand = [t \in FormTab |-> NoJob]
  /\ confirmed = {} /\ settled = [t \in FormTab |-> {}] /\ dropped = 0

Quiet(t) == errand[t] = NoJob /\ saving[t] = NoSave
\* What a request comes to: answered, or unsent or refused for another reason
\* than its draft, or unanswered though it took effect.
Fate == {"answered", "unsent", "unanswered"}
Told(fate, fits) == IF fate # "answered" THEN "lost" ELSE IF fits THEN "ok" ELSE "conflict"
Count(fate) ==
  /\ dropped' = IF fate = "answered" THEN dropped ELSE dropped + 1
  /\ dropped' <= MaxDropped

\* failure and schedule of the controller.
Failed(e, conflict) == [e EXCEPT !.status = "error", !.conflicted = conflict]
Scheduled(e, quiet) ==
  LET waits == e.loaded /\ quiet /\ e.status \notin {"offered", "error"} /\ e.fields # e.saved
  IN  [e EXCEPT !.timer = waits, !.status = IF waits THEN "pending" ELSE @]
Put(t, e) == editor' = [editor EXCEPT ![t] = e]
KnowsRow(e) == draft.id = e.remote.id /\ draft.version = e.remote.version

-----------------------------------------------------------------------------
\* change, by what the user types, or by the form that is cleared after it was
\* submitted; the first change after a submission is taken for saved.
Type(t, x) ==
  LET e == editor[t] IN
  /\ errand[t].at \in {"none", "discard", "deleting"} /\ x # e.fields
  /\ x # 0 \/ e.submitted
  /\ Put(t, Scheduled([e EXCEPT !.fields = x, !.saved = IF e.submitted THEN x ELSE @,
                                !.submitted = FALSE], Quiet(t)))
  /\ UNCHANGED <<draft, ids, records, reading, saving, errand, confirmed, settled, dropped>>

\* load takes its answer: a draft is offered, never put into the form.
Load(t, fate) ==
  LET found == [editor[t] EXCEPT !.loaded = TRUE, !.remote = draft,
                                 !.status = IF draft = NoDraft THEN "idle" ELSE "offered"]
  IN
  /\ reading[t] /\ Count(fate)
  /\ reading' = [reading EXCEPT ![t] = FALSE]
  /\ Put(t, IF fate = "answered" THEN Scheduled(found, Quiet(t)) ELSE Failed(editor[t], FALSE))
  /\ UNCHANGED <<draft, ids, records, saving, errand, confirmed, settled>>

\* save sends the form, PUT compares id and version of the draft it knows.
SendSave(t, fate) ==
  LET e == editor[t]
      fits == KnowsRow(e)
      row == [id |-> IF fits /\ draft.id # 0 THEN draft.id ELSE ids + 1,
              version |-> draft.version + 1, text |-> e.fields]
      takes == fits /\ fate # "unsent"
  IN
  /\ Count(fate) /\ row.id <= MaxIds /\ row.version <= MaxVersion
  /\ draft' = IF takes THEN row ELSE draft
  /\ ids' = IF takes /\ row.id > ids THEN row.id ELSE ids
  /\ confirmed' = IF takes THEN confirmed \cup {e.fields} ELSE confirmed
  /\ saving' = [saving EXCEPT ![t] = [text |-> e.fields, answer |-> Told(fate, fits), row |-> row]]
  /\ Put(t, [e EXCEPT !.status = "saving", !.timer = FALSE])
  /\ UNCHANGED <<records, reading, settled>>

\* The form has been left alone for two seconds.
Autosave(t, fate) == editor[t].timer /\ SendSave(t, fate) /\ UNCHANGED errand

\* save takes its answer; an errand that waits for it ends when it has failed.
Saved(t) ==
  LET s == saving[t]
      e == IF s.answer = "ok"
           THEN [editor[t] EXCEPT !.saved = s.text, !.remote = s.row, !.status = "saved"]
           ELSE Failed(editor[t], s.answer = "conflict")
      ends == s.answer # "ok" /\ ~reading[t]
  IN
  /\ s # NoSave
  /\ saving' = [saving EXCEPT ![t] = NoSave]
  /\ Put(t, Scheduled(e, errand[t] = NoJob))
  /\ errand' = IF ends THEN [errand EXCEPT ![t] = NoJob] ELSE errand
  /\ UNCHANGED <<draft, ids, records, reading, confirmed, settled, dropped>>

RetryDraft(t) ==
  /\ editor[t].status = "error" /\ Quiet(t)
  /\ Put(t, [editor[t] EXCEPT !.timer = FALSE, !.status = "loading"])
  /\ reading' = [reading EXCEPT ![t] = TRUE]
  /\ UNCHANGED <<draft, ids, records, saving, errand, confirmed, settled, dropped>>

\* restore, or keepLocal: the user decides what becomes of an offered draft.
Settle(t, keep) ==
  LET e == [editor[t] EXCEPT !.saved = editor[t].remote.text, !.conflicted = FALSE] IN
  /\ editor[t].status = "offered" /\ errand[t] = NoJob
  /\ Put(t, IF keep THEN Scheduled([e EXCEPT !.status = "idle"], Quiet(t))
            ELSE [e EXCEPT !.fields = e.saved, !.status = "saved"])
  /\ settled' = [settled EXCEPT ![t] = @ \cup ({e.saved} \ TextOf[t])]
  /\ UNCHANGED <<draft, ids, records, reading, saving, errand, confirmed, dropped>>

-----------------------------------------------------------------------------
\* discard, or submit: what follows waits for the requests in flight.
Begin(t, what) ==
  /\ errand[t] = NoJob
  /\ what = "discard" => editor[t].remote # NoDraft /\ editor[t].status # "saving"
  /\ what = "submit" => editor[t].fields # 0 /\ ~editor[t].submitted
  /\ errand' = [errand EXCEPT ![t].at = what]
  /\ Put(t, [editor[t] EXCEPT !.timer = FALSE])
  /\ settled' = IF what = "discard" THEN [settled EXCEPT ![t] = @ \cup ({editor[t].remote.text} \ TextOf[t])] ELSE settled
  /\ UNCHANGED <<draft, ids, records, reading, saving, confirmed, dropped>>
Arrived(t, stages) == errand[t].at \in stages /\ ~reading[t] /\ saving[t] = NoSave

\* DELETE of the draft that is known; one that is gone is no conflict.
SendDelete(t, fate) ==
  LET e == editor[t]
      fits == draft = NoDraft \/ KnowsRow(e)
  IN
  /\ Arrived(t, {"discard"}) /\ Count(fate)
  /\ draft' = IF e.remote # NoDraft /\ fits /\ fate # "unsent" THEN NoDraft ELSE draft
  /\ errand' = [errand EXCEPT ![t].at = "deleting",
                        ![t].answer = IF e.remote = NoDraft THEN "ok" ELSE Told(fate, fits)]
  /\ UNCHANGED <<ids, records, editor, reading, saving, confirmed, settled>>
\* What was typed meanwhile is taken for saved, too.
Discarded(t) ==
  LET e == editor[t] IN
  /\ errand[t].at = "deleting"
  /\ errand' = [errand EXCEPT ![t] = NoJob]
  /\ Put(t, IF errand[t].answer = "ok" THEN [e EXCEPT !.saved = e.fields, !.remote = NoDraft, !.status = "idle"]
            ELSE Failed(e, errand[t].answer = "conflict"))
  /\ UNCHANGED <<draft, ids, records, reading, saving, confirmed, settled, dropped>>

\* submit reads the draft again after a failure that was no conflict.
Recheck(t) ==
  /\ Arrived(t, {"submit"}) /\ editor[t].status = "error" /\ ~editor[t].conflicted
  /\ errand' = [errand EXCEPT ![t].at = "rechecking", ![t].known = editor[t].remote]
  /\ reading' = [reading EXCEPT ![t] = TRUE]
  /\ UNCHANGED <<draft, ids, records, editor, saving, confirmed, settled, dropped>>
\* Then the draft it knew, or one that says the same, need not be offered.
Accepts(t) ==
  LET e == editor[t]
      same == e.remote.id = errand[t].known.id /\ e.remote.version = errand[t].known.version
  IN  IF errand[t].at = "rechecking" /\ e.status = "offered" /\ (same \/ e.remote.text = e.fields)
      THEN [e EXCEPT !.saved = e.remote.text, !.status = "idle"] ELSE e
\* submit goes on to its save, or is refused until the user has decided.
Prepare(t) ==
  LET e == Accepts(t)
      stuck == ~e.loaded \/ e.status \in {"error", "offered"}
  IN
  /\ Arrived(t, {"submit", "rechecking"})
  /\ errand[t].at = "submit" => e.status # "error" \/ e.conflicted
  /\ Put(t, e)
  /\ errand' = [errand EXCEPT ![t] = IF stuck THEN NoJob ELSE [NoJob EXCEPT !.at = "save"]]
  /\ UNCHANGED <<draft, ids, records, reading, saving, confirmed, settled, dropped>>
SubmitSave(t, fate) ==
  /\ Arrived(t, {"save"}) /\ editor[t].fields # editor[t].saved
  /\ SendSave(t, fate) /\ UNCHANGED errand

\* Mutant: prepare_submission does not look for the version.
SendActionAnyVersion(t, fate) ==
  LET e == editor[t]
      fits == e.remote = NoDraft \/ draft.id = e.remote.id
      takes == fits /\ fate # "unsent"
  IN
  /\ Arrived(t, {"save"}) /\ e.fields = e.saved
  /\ Count(fate) /\ Len(records) < MaxRecords
  /\ records' = IF takes THEN Append(records, [text |-> e.fields, used |-> draft]) ELSE records
  /\ draft' = IF takes /\ e.remote # NoDraft THEN NoDraft ELSE draft
  /\ errand' = [errand EXCEPT ![t].at = "acting", ![t].answer = Told(fate, fits)]
  /\ UNCHANGED <<ids, editor, reading, saving, confirmed, settled>>
\* The request of the form, with the draft it uses up: prepare_submission and
\* consume, in the transaction that creates the record.
SendAction(t, fate) ==
  LET e == editor[t]
      used == IF e.remote = NoDraft THEN NoDraft ELSE draft
      fits == e.remote = NoDraft \/ KnowsRow(e)
      takes == fits /\ fate # "unsent"
  IN
  /\ Arrived(t, {"save"}) /\ e.fields = e.saved
  /\ Count(fate) /\ Len(records) < MaxRecords
  /\ records' = IF takes THEN Append(records, [text |-> e.fields, used |-> used]) ELSE records
  /\ draft' = IF takes /\ e.remote # NoDraft THEN NoDraft ELSE draft
  /\ errand' = [errand EXCEPT ![t].at = "acting", ![t].answer = Told(fate, fits)]
  /\ UNCHANGED <<ids, editor, reading, saving, confirmed, settled>>
Submitted(t) ==
  LET e == editor[t] IN
  /\ errand[t].at = "acting"
  /\ errand' = [errand EXCEPT ![t] = NoJob]
  /\ Put(t, CASE errand[t].answer = "ok" -> [e EXCEPT !.saved = e.fields, !.submitted = TRUE,
                                                   !.remote = NoDraft, !.status = "idle"]
              [] errand[t].answer = "conflict" -> Failed(e, TRUE)
              [] OTHER -> e)
  /\ UNCHANGED <<draft, ids, records, reading, saving, confirmed, settled, dropped>>

\* The page is loaded again; what is in flight has its effect all the same.
Reopen(t) ==
  /\ editor[t].loaded
  /\ Put(t, Fresh)
  /\ reading' = [reading EXCEPT ![t] = TRUE] /\ saving' = [saving EXCEPT ![t] = NoSave]
  /\ errand' = [errand EXCEPT ![t] = NoJob] /\ settled' = [settled EXCEPT ![t] = {}]
  /\ UNCHANGED <<draft, ids, records, confirmed, dropped>>

\* Another device, or a tab that is not looked at in detail: it too writes,
\* discards and submits only the draft it knows, which is the present one.
Elsewhere ==
  /\ \/ /\ draft' = [id |-> IF draft = NoDraft THEN ids + 1 ELSE draft.id,
                     version |-> draft.version + 1, text |-> Foreign]
        /\ draft'.id <= MaxIds /\ draft'.version <= MaxVersion
        /\ ids' = IF draft'.id > ids THEN draft'.id ELSE ids
        /\ UNCHANGED records
     \/ /\ draft # NoDraft /\ draft' = NoDraft /\ Len(records) < MaxRecords
        /\ records' = Append(records, [text |-> draft.text, used |-> draft])
        /\ UNCHANGED ids
  /\ confirmed' = IF draft' = NoDraft THEN confirmed ELSE confirmed \cup {Foreign}
  /\ UNCHANGED <<editor, reading, saving, errand, settled, dropped>>

\* Seven days pass, the user signs out, or discards the draft elsewhere.
Expire ==
  /\ draft # NoDraft /\ draft' = NoDraft
  /\ UNCHANGED <<ids, records, editor, reading, saving, errand, confirmed, settled, dropped>>

DraftNext ==
  \/ Expire \/ Elsewhere
  \/ \E t \in FormTab :
       \/ \E x \in TextOf[t] \cup {0} : Type(t, x)
       \/ Saved(t) \/ RetryDraft(t) \/ Reopen(t)
       \/ \E keep \in BOOLEAN : Settle(t, keep)
       \/ \E what \in {"discard", "submit"} : Begin(t, what)
       \/ Discarded(t) \/ Recheck(t) \/ Prepare(t) \/ Submitted(t)
       \/ \E fate \in {"answered", "unsent"} : Load(t, fate)
       \/ \E fate \in Fate :
            Autosave(t, fate) \/ SendDelete(t, fate) \/ SubmitSave(t, fate) \/ SendAction(t, fate)

DraftSpec == DraftInit /\ [][DraftNext]_draftVars

\* A user who waits while the draft is read again: without it, what is typed
\* or decided races with the answer of that read.
HandsOff == \A t \in FormTab :
  editor[t].loaded /\ reading[t] /\ editor'[t].loaded /\ reading'[t] =>
    UNCHANGED <<editor[t], errand[t]>>
PatientSpec == DraftInit /\ [][DraftNext /\ HandsOff]_draftVars

-----------------------------------------------------------------------------
DraftTypeOK ==
  /\ draft.id \in 0..ids /\ draft.version \in 0..MaxVersion /\ (draft.id = 0 => draft = NoDraft)
  /\ ids \in 0..MaxIds /\ dropped \in 0..MaxDropped
  /\ \A t \in FormTab :
       /\ editor[t].status \in {"loading", "idle", "pending", "saving", "saved", "offered", "error"}
       /\ editor[t].timer => editor[t].loaded /\ editor[t].fields # editor[t].saved
       /\ reading[t] \in BOOLEAN
       /\ errand[t].at \in {"none", "discard", "deleting", "submit", "rechecking", "save", "acting"}

\* "Saved" is shown for a text the server has confirmed
\* (docs/user-guide.md:44), while no request of the tab changes it.
SavedIsConfirmed ==
  \A t \in FormTab : editor[t].status = "saved" /\ Quiet(t) =>
    editor[t].fields = editor[t].saved /\ editor[t].saved \in confirmed
\* A draft becomes one record, which says what the draft said, through lost
\* answers, tabs that submit the same draft, and drafts made anew.
DraftBecomesOneRecord ==
  \A i \in DOMAIN records : records[i].used # NoDraft =>
    /\ records[i].text = records[i].used.text
    /\ \A j \in DOMAIN records \ {i} : records[j].used.id # records[i].used.id
\* The text of another tab is replaced only by a user who was shown it and
\* decided: no tab overwrites a draft silently (docs/adr/0068:16).
NoSilentOverwrite ==
  \A t \in FormTab : saving'[t] # saving[t] /\ draft' # draft /\ draft'.id = draft.id =>
    draft.text \in {0} \cup TextOf[t] \cup settled[t]

\* Both of what a form promises in a state.
DraftsAreKept == SavedIsConfirmed /\ DraftBecomesOneRecord
=============================================================================
