---------------------------- MODULE AccountMail -----------------------------
(***************************************************************************)
(* The transactional mail of one address: the handlers that write an       *)
(* action and its mail in one transaction (identity/email_verification.py, *)
(* workspaces/invitations.py) and the workers that deliver the outbox      *)
(* (logion_worker/email_delivery.py).                                      *)
(*                                                                         *)
(* Time is left to TokenExpires, InviteExpires, MailComesDue and           *)
(* LeaseExpires.  An action, a mail or an invitation is the index of its   *)
(* row; 0 is "no row".                                                     *)
(***************************************************************************)
EXTENDS Naturals, Sequences, FiniteSets, SequencesExt

CONSTANTS
  Sender,        \* worker processes
  MaxMails,      \* bound: mails ever written
  MaxAttempts,   \* email_delivery_max_attempts
  MaxFailures,   \* password_recovery_max_failures
  MaxFaults,     \* bound: crashes, and senders suspended past their lease
  Unreadable     \* mails sealed under a key the workers do not have

VARIABLES
  account,     \* users: "none", "unverified" or "verified"
  tokens,      \* identity_action_tokens
  invites,     \* workspace_invitations of the address in one workspace
  membership,  \* workspace_memberships: "none", "active" or "revoked"
  mails,       \* email_outbox
  sender,      \* per worker: Free, or the mail it holds and the provider's answer
  faults       \* history: crashes and suspensions so far
mailVars == <<account, tokens, invites, membership, mails, sender, faults>>
actionVars == <<account, tokens, invites, membership>>

ASSUME MailConstants ==
  /\ IsFiniteSet(Sender) /\ MaxMails \in Nat /\ MaxFaults \in Nat
  /\ MaxAttempts \in Nat \ {0} /\ MaxFailures \in Nat \ {0}

Purpose == {"email_verification", "password_recovery"}
FinalStatus == {"sent", "failed", "dead"}
Free == [mail |-> 0, answer |-> "none"]

TokenRow(purpose) ==
  [purpose |-> purpose, state |-> "live", expired |-> FALSE, failures |-> 0]
InviteRow(mailed) == [status |-> "pending", expired |-> FALSE, mailed |-> mailed]
\* accepted, lapses: history, what the provider took and what leases ran out.
MailRow(purpose, ref) ==
  [purpose |-> purpose, ref |-> ref, status |-> "pending", attempts |-> 0,
   due |-> TRUE, lapsed |-> FALSE, accepted |-> 0, lapses |-> 0]

\* An account older than email delivery is verified without a token, and an
\* invitation as old has a token and no mail.
MailInit ==
  /\ account \in {"none", "verified"} /\ tokens = <<>> /\ membership = "none"
  /\ invites \in {<<>>, <<InviteRow(FALSE)>>}
  /\ mails = <<>>
  /\ sender = [w \in Sender |-> Free]
  /\ faults = 0

-----------------------------------------------------------------------------
(* Rows.                                                                   *)

LiveTokens(purpose) ==
  {t \in DOMAIN tokens : tokens[t].purpose = purpose /\ tokens[t].state = "live"}
LiveInvites == {i \in DOMAIN invites : invites[i].status = "pending" /\ ~invites[i].expired}
MailsFor(purpose, refs) ==
  {m \in DOMAIN mails : mails[m].purpose = purpose /\ mails[m].ref \in refs}

Dead(row) == [row EXCEPT !.status = "dead", !.due = TRUE, !.lapsed = FALSE]

\* Mutant: only mails nobody has leased.
KilledPending(purpose, refs) ==
  [m \in DOMAIN mails |->
     IF m \in MailsFor(purpose, refs) /\ mails[m].status = "pending"
     THEN Dead(mails[m]) ELSE mails[m]]
\* Mails of an action that has ended are dead unless they are terminal.
Killed(purpose, refs) ==
  [m \in DOMAIN mails |->
     IF m \in MailsFor(purpose, refs) /\ mails[m].status \in {"pending", "leased"}
     THEN Dead(mails[m]) ELSE mails[m]]

Revoked(ts) ==
  [t \in DOMAIN tokens |->
     IF t \in ts THEN [tokens[t] EXCEPT !.state = "revoked"] ELSE tokens[t]]

\* The secret of an action is known to whoever the provider delivered it to.
Delivered(purpose, ref) == \E m \in MailsFor(purpose, {ref}) : mails[m].accepted > 0

-----------------------------------------------------------------------------
(* Registration and password recovery: the user's row is locked.           *)

StartAction(purpose) ==
  LET live == LiveTokens(purpose)
  IN /\ Len(mails) < MaxMails
     /\ tokens' = Append(Revoked(live), TokenRow(purpose))
     /\ mails' = Append(Killed(purpose, live), MailRow(purpose, Len(tokens) + 1))

StartRegistration ==
  /\ account # "verified"
  /\ account' = "unverified"
  /\ StartAction("email_verification")
  /\ UNCHANGED <<invites, membership, sender, faults>>

Usable(t, purpose) ==
  t \in LiveTokens(purpose) /\ ~tokens[t].expired /\ Delivered(purpose, t)

Confirm(t) ==
  /\ Usable(t, "email_verification")
  /\ account' = "verified"
  /\ tokens' = [Revoked(LiveTokens("email_verification")) EXCEPT ![t].state = "used"]
  /\ mails' = Killed("email_verification", {t})
  /\ UNCHANGED <<invites, membership, sender, faults>>

StartPasswordRecovery ==
  /\ account = "verified"
  /\ StartAction("password_recovery")
  /\ UNCHANGED <<account, invites, membership, sender, faults>>

\* The token is consumed, or ended by expiry or by the last wrong factor.
Notify(ms) == Append(ms, MailRow("security_notification", 0))
EndRecovery(t, state, notified) ==
  /\ tokens' = [tokens EXCEPT ![t].state = state, ![t].failures =
                                IF notified /\ state = "revoked" THEN @ + 1 ELSE @]
  /\ mails' = IF notified THEN Notify(Killed("password_recovery", {t}))
              ELSE Killed("password_recovery", {t})

WrongFactor(t) ==
  IF tokens[t].failures + 1 < MaxFailures
  THEN tokens' = [tokens EXCEPT ![t].failures = @ + 1] /\ UNCHANGED mails
  ELSE Len(mails) < MaxMails /\ EndRecovery(t, "revoked", TRUE)

CompletePasswordRecovery(t) ==
  /\ t \in LiveTokens("password_recovery") /\ Delivered("password_recovery", t)
  /\ \/ tokens[t].expired /\ EndRecovery(t, "revoked", FALSE)
     \/ ~tokens[t].expired /\ Len(mails) < MaxMails /\ EndRecovery(t, "used", TRUE)
     \/ ~tokens[t].expired /\ WrongFactor(t)
  /\ UNCHANGED <<account, invites, membership, sender, faults>>

TokenExpires(t) ==
  /\ tokens[t].state = "live" /\ ~tokens[t].expired
  /\ tokens' = [tokens EXCEPT ![t].expired = TRUE]
  /\ UNCHANGED <<account, invites, membership, mails, sender, faults>>

-----------------------------------------------------------------------------
(* Invitations: the workspace row is locked by create and accept.          *)

InviteMail(i) == MailRow("workspace_invitation", i)

\* A pending invitation without a mail gets a new token and its first mail.
CreateInvite ==
  /\ membership # "active" /\ Len(mails) < MaxMails
  /\ \/ /\ LiveInvites = {}
        /\ invites' = Append(invites, InviteRow(TRUE))
        /\ mails' = Append(mails, InviteMail(Len(invites) + 1))
     \/ \E i \in LiveInvites :
          /\ MailsFor("workspace_invitation", {i}) = {}
          /\ invites' = [invites EXCEPT ![i] = InviteRow(TRUE)]
          /\ mails' = Append(mails, InviteMail(i))
  /\ UNCHANGED <<account, tokens, membership, sender, faults>>

EndInvite(i, status) ==
  /\ invites' = [invites EXCEPT ![i].status = status]
  /\ mails' = Killed("workspace_invitation", {i})

AcceptInvite(i) ==
  /\ account = "verified" /\ invites[i].status = "pending"
  /\ ~invites[i].mailed \/ Delivered("workspace_invitation", i)
  /\ \/ invites[i].expired /\ EndInvite(i, "expired") /\ UNCHANGED membership
     \/ /\ ~invites[i].expired /\ membership = "none"
        /\ EndInvite(i, "accepted") /\ membership' = "active"
  /\ UNCHANGED <<account, tokens, sender, faults>>

RevokeInvite(i) ==
  /\ invites[i].status = "pending" /\ EndInvite(i, "revoked")
  /\ UNCHANGED <<account, tokens, membership, sender, faults>>

InviteExpires(i) ==
  /\ invites[i].status = "pending" /\ ~invites[i].expired
  /\ invites' = [invites EXCEPT ![i].expired = TRUE]
  /\ UNCHANGED <<account, tokens, membership, mails, sender, faults>>

RevokeMember ==
  /\ membership = "active" /\ membership' = "revoked"
  /\ UNCHANGED <<account, tokens, invites, mails, sender, faults>>

-----------------------------------------------------------------------------
(* Delivery.                                                               *)

\* The inviter and the workspace, which are looked at too, are active here: only
\* the deletion of an account changes either, and it revokes the invitations of
\* its author that it sees (one that is made meanwhile is in Teams: late).
ActionIsDeliverable(row) ==
  CASE row.purpose = "workspace_invitation" -> row.ref \in LiveInvites
    [] row.purpose = "security_notification" -> TRUE
    [] OTHER -> row.ref \in LiveTokens(row.purpose) /\ ~tokens[row.ref].expired

Leasable(m) ==
  \/ mails[m].status = "pending" /\ mails[m].due
  \/ mails[m].status = "leased" /\ mails[m].lapsed

\* _lease_next: a mail whose action has ended is dead before it is sent.
LeaseNext(w, m) ==
  /\ sender[w] = Free /\ Leasable(m)
  /\ IF ActionIsDeliverable(mails[m]) /\ m \notin Unreadable
     THEN /\ mails' = [mails EXCEPT ![m].status = "leased", ![m].lapsed = FALSE,
                                    ![m].attempts = @ + 1]
          /\ sender' = [sender EXCEPT ![w] = [mail |-> m, answer |-> "none"]]
     ELSE /\ mails' = [mails EXCEPT ![m] = Dead(@)]
          /\ UNCHANGED sender
  /\ UNCHANGED <<actionVars, faults>>

\* The provider takes the mail, or refuses it for now or for good.
Send(w, answer) ==
  /\ sender[w].mail # 0 /\ sender[w].answer = "none"
  /\ sender' = [sender EXCEPT ![w].answer = answer]
  /\ mails' = [mails EXCEPT ![sender[w].mail].accepted =
                              IF answer = "accepted" THEN @ + 1 ELSE @]
  /\ UNCHANGED <<actionVars, faults>>

\* Mutant: a retry starts counting again.
SettledAnew(row, answer) ==
  CASE answer = "accepted" -> [row EXCEPT !.status = "sent", !.lapsed = FALSE]
    [] answer = "retryable" -> [row EXCEPT !.status = "pending", !.due = FALSE,
                                           !.lapsed = FALSE, !.attempts = 0]
    [] OTHER -> [row EXCEPT !.status = "failed", !.lapsed = FALSE]
\* The outcome is written only to a row that is still leased, by whomever.
Settled(row, answer) ==
  CASE answer = "accepted" -> [row EXCEPT !.status = "sent", !.lapsed = FALSE]
    [] answer = "retryable" /\ row.attempts < MaxAttempts ->
         [row EXCEPT !.status = "pending", !.due = FALSE, !.lapsed = FALSE]
    [] OTHER -> [row EXCEPT !.status = "failed", !.lapsed = FALSE]

\* Mutant: the outcome is written whatever became of the row.
FinishBlindly(w) ==
  LET m == sender[w].mail
  IN /\ sender[w].answer # "none"
     /\ mails' = [mails EXCEPT ![m] = Settled(@, sender[w].answer)]
     /\ sender' = [sender EXCEPT ![w] = Free]
     /\ UNCHANGED <<actionVars, faults>>
Finish(w) ==
  LET m == sender[w].mail
  IN /\ sender[w].answer # "none"
     /\ mails' = IF mails[m].status = "leased"
                 THEN [mails EXCEPT ![m] = Settled(@, sender[w].answer)] ELSE mails
     /\ sender' = [sender EXCEPT ![w] = Free]
     /\ UNCHANGED <<actionVars, faults>>

MailComesDue(m) ==
  /\ mails[m].status = "pending" /\ ~mails[m].due
  /\ mails' = [mails EXCEPT ![m].due = TRUE]
  /\ UNCHANGED <<actionVars, sender, faults>>

\* A lease outlives the network timeouts of a send (config.py), so it runs
\* out under a live sender only if that process was suspended: a fault.
Held(m) == \E w \in Sender : sender[w].mail = m
LeaseExpires(m) ==
  /\ mails[m].status = "leased" /\ ~mails[m].lapsed
  /\ IF Held(m) THEN faults < MaxFaults /\ faults' = faults + 1 ELSE UNCHANGED faults
  /\ mails' = [mails EXCEPT ![m].lapsed = TRUE, ![m].lapses = @ + 1]
  /\ UNCHANGED <<actionVars, sender>>

\* A worker dies, before or after the provider took the mail.
SenderCrash(w) ==
  /\ sender[w] # Free /\ faults < MaxFaults
  /\ sender' = [sender EXCEPT ![w] = Free] /\ faults' = faults + 1
  /\ UNCHANGED <<actionVars, mails>>

-----------------------------------------------------------------------------
Deliver(w) ==
  \/ \E m \in DOMAIN mails : LeaseNext(w, m)
  \/ \E answer \in {"accepted", "retryable", "refused"} : Send(w, answer)
  \/ Finish(w)
TimePasses ==
  \/ \E t \in DOMAIN tokens : TokenExpires(t)
  \/ \E i \in DOMAIN invites : InviteExpires(i)
  \/ \E m \in DOMAIN mails : MailComesDue(m) \/ LeaseExpires(m)

MailNext ==
  \/ StartRegistration \/ StartPasswordRecovery
  \/ \E t \in DOMAIN tokens : Confirm(t) \/ CompletePasswordRecovery(t)
  \/ CreateInvite \/ RevokeMember
  \/ \E i \in DOMAIN invites : AcceptInvite(i) \/ RevokeInvite(i)
  \/ \E w \in Sender : Deliver(w) \/ SenderCrash(w)
  \/ TimePasses

\* The scheduler comes back to the email queue again and again
\* (RoundRobinScheduler), retry delays and abandoned leases run out.
MailFairness ==
  /\ \A w \in Sender : WF_mailVars(Deliver(w))
  /\ \A m \in 1..MaxMails :
       /\ WF_mailVars(m \in DOMAIN mails /\ MailComesDue(m))
       /\ WF_mailVars(m \in DOMAIN mails /\ ~Held(m) /\ LeaseExpires(m))

MailSpec == MailInit /\ [][MailNext]_mailVars
FairMailSpec == MailSpec /\ MailFairness

-----------------------------------------------------------------------------
(* Properties.                                                             *)

\* Every row and every worker has its type.
MailTypeOK ==
  /\ account \in {"none", "unverified", "verified"}
  /\ membership \in {"none", "active", "revoked"}
  /\ tokens \in Seq([purpose : Purpose, state : {"live", "used", "revoked"},
                      expired : BOOLEAN, failures : 0..MaxFailures])
  /\ invites \in Seq([status : {"pending", "accepted", "revoked", "expired"},
                       expired : BOOLEAN, mailed : BOOLEAN])
  /\ mails \in Seq([purpose : Purpose \cup {"security_notification", "workspace_invitation"},
                     ref : Nat, status : {"pending", "leased"} \cup FinalStatus,
                     attempts : Nat, due : BOOLEAN, lapsed : BOOLEAN,
                     accepted : Nat, lapses : Nat])
  /\ sender \in [Sender -> [mail : 0..Len(mails),
                           answer : {"none", "accepted", "retryable", "refused"}]]
  /\ faults \in 0..MaxFaults

\* A user and purpose has one valid flow at a time, and an address one open
\* invitation (docs/adr/0006, section 4: a new request revokes the old flow).
OneFlow ==
  /\ \A p \in Purpose : Cardinality(LiveTokens(p)) <= 1
  /\ Cardinality(LiveInvites) <= 1

\* The mail of an action that can still be taken is on its way or was given
\* to the provider or refused by it: replacing, consuming or revoking one
\* action never cancels the mail of another, nor does a worker.
LiveActionKeepsMail ==
  \A m \in DOMAIN mails \ Unreadable :
    mails[m].status = "dead" => ~ActionIsDeliverable(mails[m])

\* The mail of an action that has ended is never waiting to be sent again:
\* it is terminal, or in the hands of the worker that will see it is.
EndedActionStopsMail ==
  \A m \in DOMAIN mails :
    LET ref == mails[m].ref
    IN \/ mails[m].purpose \in Purpose /\ tokens[ref].state # "live"
       \/ mails[m].purpose = "workspace_invitation" /\ invites[ref].status # "pending"
       => mails[m].status \in FinalStatus

\* A recipient gets a mail twice only when a lease ran out under it, and a
\* mail is tried no more often than the limit allows besides
\* (docs/adr/0006, section 5: a crash may duplicate, retries are finite).
DuplicatesNeedALapse ==
  \A m \in DOMAIN mails :
    /\ mails[m].accepted <= 1 + mails[m].lapses
    /\ mails[m].attempts <= MaxAttempts + mails[m].lapses

\* Every recovery that was completed or exhausted has its notification, and
\* nothing cancels one (docs/adr/0006, section 6).
RecoveryIsNotified ==
  Cardinality(MailsFor("security_notification", {0})) =
  Cardinality({t \in DOMAIN tokens :
                 /\ tokens[t].purpose = "password_recovery"
                 /\ tokens[t].state = "used" \/ tokens[t].failures = MaxFailures})

\* A step leaves every outcome alone, that of a mail and of what it was about.
MailOutcomeIsFinal ==
  /\ \A m \in DOMAIN mails :
       mails[m].status \in FinalStatus => mails'[m].status = mails[m].status
  /\ \A t \in DOMAIN tokens :
       tokens[t].state # "live" => tokens'[t].state = tokens[t].state
  /\ \A i \in DOMAIN invites :
       invites[i].status # "pending" => invites'[i].status = invites[i].status

\* Every mail is settled in the end: sent, failed or dead.
MailIsSettled ==
  \A m \in 1..MaxMails :
    (m \in DOMAIN mails /\ mails[m].status \notin FinalStatus)
      ~> (m \in DOMAIN mails /\ mails[m].status \in FinalStatus)

\* Mail follows the action it is about: the promises above on every step of
\* the outbox and of the actions.
MailFollowsActions ==
  OneFlow /\ LiveActionKeepsMail /\ EndedActionStopsMail /\ DuplicatesNeedALapse /\ RecoveryIsNotified
=============================================================================
