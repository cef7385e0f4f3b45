------------------------------- MODULE Teams --------------------------------
(***************************************************************************)
(* Who belongs to a workspace, and what account deletion does to it:       *)
(* memberships and the ownership (workspaces/service.py), invitations      *)
(* (workspaces/invitations.py), and deletion requests with their grace     *)
(* period and the worker's cleanup (portability/deletion_service.py).      *)
(*                                                                         *)
(* One workspace is looked at.  Operations on memberships are transactions *)
(* that lock the workspace and read the membership of who acts again.      *)
(* What is not read again under a lock is a step of its own: the status of *)
(* the account, at authentication (identity/service.py), and the           *)
(* permission of who invites.  A deletion request locks the user and not   *)
(* the workspace.  A request with an old version is refused and changes    *)
(* nothing, so versions are left out.                                      *)
(***************************************************************************)
EXTENDS Naturals, FiniteSets

CONSTANTS
  Person,      \* accounts; an invitation is sent to the address of one
  Founder,     \* the person who created the workspace
  Slow         \* bound: people whose requests may outlast their deletion request

ASSUME TeamConstants == Founder \in Person

VARIABLES
  user,        \* users.status
  team,        \* the workspace row exists
  member,      \* workspace_memberships: role and status
  invitation,  \* per address: who signed the pending invitation, for what role
  doomed,      \* the deletion request, unless cancelled, lists the workspace
  due,         \* the grace period of the request is over
  late,        \* people with requests under way, authenticated before their deletion request
  inviting     \* people whose permission was looked up for an invitation they still make
teamRows == <<user, team, member, invitation, doomed, due>>
requests == <<late, inviting>>
teamVars == <<teamRows, requests>>

\* The roles below admin may manage nobody, and are one role here.
Rank == [none |-> 0, editor |-> 1, admin |-> 2, owner |-> 3]
GrantedRole == {"editor", "admin"}
NoMember == [role |-> "none", status |-> "none"]
\* late is history: who signed it had already asked for deletion.
NoInvitation == [by |-> "nobody", role |-> "none", late |-> FALSE]

TeamInit ==
  /\ user = [p \in Person |-> "active"]
  /\ team = TRUE
  /\ member = [p \in Person |-> IF p = Founder THEN [role |-> "owner", status |-> "active"] ELSE NoMember]
  /\ invitation = [p \in Person |-> NoInvitation]
  /\ doomed = [p \in Person |-> FALSE]
  /\ due = [p \in Person |-> FALSE]
  /\ late = {} /\ inviting = {}

Insiders == {p \in Person : member[p].status = "active"}
Owners == {p \in Person : member[p].role = "owner"}
\* authenticate_access let the request in, now or before the account was going.
Authenticated(p) == user[p] = "active" \/ p \in late
\* resolve_workspace of a signed-in person, with a permission of rank r.
MayAct(p, r) == Authenticated(p) /\ team /\ p \in Insiders /\ Rank[member[p].role] >= r

\* role_can_manage_membership: nobody over an owner or to owner, an admin
\* only over lower roles and to lower roles.
MayManage(actor, target, role) ==
  /\ Rank[member[target].role] < 3
  /\ Rank[member[actor].role] < 3 => Rank[member[target].role] < 2 /\ Rank[role] < 2

\* update_membership; nobody changes the own membership, and only the owner
\* brings a revoked member back.
UpdateMembership(actor, target, role, status) ==
  LET now == [role |-> role, status |-> status] IN
  /\ MayAct(actor, 2) /\ actor # target
  /\ member[target] # NoMember /\ member[target] # now
  /\ MayManage(actor, target, role)
  /\ member[target].status = "revoked" =>
       status = "revoked" \/ (status = "active" /\ member[actor].role = "owner")
  /\ member' = [member EXCEPT ![target] = now]
  /\ UNCHANGED <<user, team, invitation, doomed, due, requests>>

\* transfer_ownership; the account status of the new owner is not read.
TransferOwnership(owner, heir, role) ==
  /\ MayAct(owner, 3) /\ heir \in Insiders \ Owners
  /\ Cardinality(Owners) = 1
  /\ member' = [member EXCEPT ![owner].role = role, ![heir].role = "owner"]
  /\ UNCHANGED <<user, team, invitation, doomed, due, requests>>

\* Mutant: the owner may leave as everybody else.
LeaveAsAnyone(p) ==
  /\ Authenticated(p) /\ team
  /\ member[p].status \in {"active", "suspended"}
  /\ member' = [member EXCEPT ![p].status = "revoked"]
  /\ UNCHANGED <<user, team, invitation, doomed, due, requests>>
\* leave_workspace; a suspended member may leave too.
LeaveWorkspace(p) ==
  /\ Authenticated(p) /\ team
  /\ member[p].status \in {"active", "suspended"} /\ member[p].role # "owner"
  /\ member' = [member EXCEPT ![p].status = "revoked"]
  /\ UNCHANGED <<user, team, invitation, doomed, due, requests>>

-----------------------------------------------------------------------------
\* invitations.py create resolves the workspace and the permission first, ...
LookUpInviter(p) ==
  /\ MayAct(p, 2) /\ p \notin inviting
  /\ inviting' = inviting \cup {p}
  /\ UNCHANGED <<teamRows, late>>

\* ... locks the workspace and reads neither again: one pending invitation per
\* address, none for an active member.  Its role is not compared with the role
\* of who signs it.
Invite(p, guest, role) ==
  /\ p \in inviting /\ team /\ user[guest] # "deleted"
  /\ guest \notin Insiders /\ invitation[guest] = NoInvitation
  /\ invitation' = [invitation EXCEPT ![guest] = [by |-> p, role |-> role, late |-> p \in late]]
  /\ inviting' = inviting \ {p}
  /\ UNCHANGED <<user, team, member, doomed, due, late>>

\* The requests of a person come to their end, answered or refused.
EndRequests(p) ==
  /\ p \in late \cup inviting
  /\ late' = late \ {p} /\ inviting' = inviting \ {p}
  /\ UNCHANGED teamRows

\* accept, refused to whoever has a membership of any status.
AcceptInvitation(p) ==
  /\ Authenticated(p) /\ team
  /\ invitation[p] # NoInvitation /\ member[p] = NoMember
  /\ member' = [member EXCEPT ![p] = [role |-> invitation[p].role, status |-> "active"]]
  /\ invitation' = [invitation EXCEPT ![p] = NoInvitation]
  /\ UNCHANGED <<user, team, doomed, due, requests>>

\* revoke by a manager, or the time of the invitation is over.
EndInvitation(guest) ==
  /\ invitation[guest] # NoInvitation
  /\ invitation' = [invitation EXCEPT ![guest] = NoInvitation]
  /\ UNCHANGED <<user, team, member, doomed, due, requests>>

-----------------------------------------------------------------------------
\* request: refused while an owned workspace has other active members.  The
\* invitations the person signed and the request sees are revoked, those of
\* others stay.  Requests of the person may be under way: none of them is
\* stopped.  A second deletion request among them does what a cancellation and
\* a new one do.
RequestDeletion(p) ==
  LET owns == team /\ p \in Owners /\ p \in Insiders IN
  /\ user[p] = "active"
  /\ owns => Insiders = {p}
  /\ user' = [user EXCEPT ![p] = "pending"]
  /\ doomed' = [doomed EXCEPT ![p] = owns]
  /\ due' = [due EXCEPT ![p] = FALSE]
  /\ invitation' = [a \in Person |-> IF invitation[a].by = p THEN NoInvitation ELSE invitation[a]]
  /\ IF p \in Slow THEN late' = late \cup {p} /\ UNCHANGED inviting
     ELSE inviting' = inviting \ {p} /\ UNCHANGED late
  /\ UNCHANGED <<team, member>>

CancelDeletion(p) ==
  /\ user[p] = "pending" /\ ~due[p]
  /\ user' = [user EXCEPT ![p] = "active"]
  /\ doomed' = [doomed EXCEPT ![p] = FALSE]
  /\ late' = late \ {p}
  /\ UNCHANGED <<team, member, invitation, due, inviting>>

\* delete_after passes: weeks, which no request is under way (one begun at
\* their end may as well begin after it).
DeletionDue(p) ==
  /\ user[p] = "pending" /\ ~due[p] /\ late = {} /\ inviting = {}
  /\ due' = [due EXCEPT ![p] = TRUE]
  /\ UNCHANGED <<user, team, member, invitation, doomed, requests>>

\* execute_next and _physical_cleanup: the listed workspace goes with all its
\* memberships and invitations, whoever is in it by now.
Cleanup(p) ==
  LET stays == team /\ ~doomed[p] IN
  /\ user[p] = "pending" /\ due[p]
  /\ user' = [user EXCEPT ![p] = "deleted"]
  /\ team' = stays
  /\ member' = [m \in Person |-> IF stays /\ m # p THEN member[m] ELSE NoMember]
  /\ invitation' = [a \in Person |-> IF stays /\ a # p THEN invitation[a] ELSE NoInvitation]
  /\ UNCHANGED <<doomed, due, requests>>

TeamNext ==
  \E p \in Person :
    \/ \E q \in Person, role \in GrantedRole :
         \/ \E status \in {"active", "suspended", "revoked"} : UpdateMembership(p, q, role, status)
         \/ TransferOwnership(p, q, role)
         \/ Invite(p, q, role)
    \/ LookUpInviter(p) \/ EndRequests(p)
    \/ LeaveWorkspace(p) \/ AcceptInvitation(p) \/ EndInvitation(p)
    \/ RequestDeletion(p) \/ CancelDeletion(p) \/ DeletionDue(p) \/ Cleanup(p)

TeamSpec == TeamInit /\ [][TeamNext]_teamVars

-----------------------------------------------------------------------------
TeamTypeOK ==
  /\ user \in [Person -> {"active", "pending", "deleted"}] /\ team \in BOOLEAN
  /\ member \in [Person -> {NoMember} \cup [role : GrantedRole \cup {"owner"},
                                           status : {"active", "suspended", "revoked"}]]
  /\ invitation \in [Person -> {NoInvitation} \cup [by : Person, role : GrantedRole, late : BOOLEAN]]
  /\ doomed \in [Person -> BOOLEAN] /\ due \in [Person -> BOOLEAN]
  /\ late \subseteq Person /\ inviting \subseteq Person

\* A workspace has one owner, who is an active member, however the ownership
\* is handed on, members leave and accounts go.  It is without one only after
\* the cleanup of an account that was given the ownership when its deletion
\* was already requested: transfer_ownership does not look at the account.
OneOwner ==
  /\ Cardinality(Owners) <= 1 /\ Owners \subseteq Insiders
  /\ team /\ Owners = {} => \E p \in Person : user[p] = "deleted" /\ ~doomed[p]
\* An invitation signed by somebody whose account is going is not open: it
\* would let a guest into a workspace that is about to be removed.  The one that
\* is was being made when the deletion was requested: create reads the account
\* and the permission before it locks the workspace, and the deletion request
\* revokes only what it sees.
HostsAreHere ==
  \A a \in Person : invitation[a] # NoInvitation =>
    user[invitation[a].by] = "active" \/ invitation[a].late
\* What is left of a deleted account is in no workspace and on no guest list.
DeletedLeaveNothing == \A p \in Person : user[p] = "deleted" => member[p] = NoMember /\ invitation[p] = NoInvitation

\* The three of them: what members, invitations and deletions owe a workspace.
TeamIsOwned == OneOwner /\ HostsAreHere /\ DeletedLeaveNothing

\* The cleanup of an account removes no workspace under another active member
\* (docs/security/account-deletion-threat-model.md:20).
NobodyLosesTheirTeam ==
  [][\A p \in Person : Cleanup(p) /\ doomed[p] => Insiders \subseteq {p}]_teamVars
=============================================================================
