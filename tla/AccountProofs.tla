--------------------------- MODULE AccountProofs ----------------------------
(***************************************************************************)
(* Theorems about the components an account lives in: the workspace it     *)
(* belongs to (Teams), for every set of people, its session in the tabs of *)
(* a browser (Sessions), for any number of tabs and losses, and the mail   *)
(* of its address (AccountMail), for any number of workers, mails,         *)
(* attempts, crashes and suspended senders.                                *)
(***************************************************************************)
EXTENDS Teams, Sessions, AccountMail, FiniteSetTheorems, TLAPS

\* A sequence mapped element by element keeps its length.
LEMMA MappedSeq ==
  ASSUME NEW S, NEW T, NEW s \in Seq(S), NEW f \in [DOMAIN s -> T]
  PROVE  f \in Seq(T) /\ Len(f) = Len(s) /\ DOMAIN f = DOMAIN s
  OBVIOUS

-----------------------------------------------------------------------------
(* Teams.                                                                  *)

\* OneOwner without counting: there are never two owners to choose from.
OnlyOwner == \A p, q \in Owners : p = q
OwnerIsLost == \E p \in Person : user[p] = "deleted" /\ ~doomed[p]

\* A request that was let in is of an account that was active then: it is, or
\* its deletion is within the grace period, which ends after the request.
RequestsAreOfPeople ==
  /\ \A p \in late : user[p] = "pending" /\ ~due[p]
  /\ \A p \in inviting : user[p] = "active" \/ p \in late

TeamInv ==
  /\ TeamTypeOK
  /\ OnlyOwner
  /\ Owners \subseteq Insiders
  /\ team /\ Owners = {} => OwnerIsLost
  /\ HostsAreHere
  /\ DeletedLeaveNothing
  /\ RequestsAreOfPeople

\* The founder owns the workspace alone.
LEMMA TeamInvInit == TeamInit => TeamInv
<1> SUFFICES ASSUME TeamInit PROVE TeamInv
  OBVIOUS
<1> USE DEF TeamInit
<1>1. TeamTypeOK
  BY DEF TeamTypeOK, NoMember, NoInvitation
<1>2. Owners = {Founder} /\ Founder \in Insiders
  BY TeamConstants DEF Owners, Insiders, NoMember
<1>3. HostsAreHere /\ DeletedLeaveNothing /\ RequestsAreOfPeople
  BY DEF HostsAreHere, DeletedLeaveNothing, RequestsAreOfPeople
<1> QED
  BY <1>1, <1>2, <1>3 DEF TeamInv, OnlyOwner

\* What a change of memberships owes the invariant when accounts and
\* invitations stay: it takes nobody's ownership and gives deleted accounts
\* nothing.
LEMMA MembersChange ==
  ASSUME TeamInv, NEW q \in Person, TeamTypeOK', member[q].role # "owner", user[q] # "deleted",
         member'[q].role # "owner", \A p \in Person \ {q} : member'[p] = member[p],
         \A p \in Person : invitation'[p] \in {invitation[p], NoInvitation},
         UNCHANGED <<user, team, doomed, due, requests>>
  PROVE  TeamInv'
<1>1. Owners' = Owners
  BY DEF TeamInv, Owners
<1>2. Owners \subseteq Insiders'
  BY DEF TeamInv, Owners, Insiders
<1>3. HostsAreHere' /\ DeletedLeaveNothing' /\ RequestsAreOfPeople'
  BY DEF TeamInv, HostsAreHere, DeletedLeaveNothing, RequestsAreOfPeople, requests
<1> QED
  BY <1>1, <1>2, <1>3 DEF TeamInv, OnlyOwner, OwnerIsLost

\* Every step keeps the invariant.
LEMMA TeamInvStep == TeamInv /\ [TeamNext]_teamVars => TeamInv'
<1> SUFFICES ASSUME TeamInv, [TeamNext]_teamVars PROVE TeamInv'
  OBVIOUS
<1>t. TeamTypeOK
  BY DEF TeamInv
<1>1. ASSUME NEW p \in Person, NEW q \in Person, NEW role \in GrantedRole,
             NEW status \in {"active", "suspended", "revoked"},
             UpdateMembership(p, q, role, status)
      PROVE  TeamInv'
  <2>1. member[q].role # "owner"
    BY <1>1, <1>t DEF UpdateMembership, MayManage, Rank, NoMember, TeamTypeOK, GrantedRole
  <2>2. user[q] # "deleted"
    BY <1>1 DEF UpdateMembership, TeamInv, DeletedLeaveNothing
  <2>3. TeamTypeOK' /\ member'[q] = [role |-> role, status |-> status]
    BY <1>1, <1>t DEF UpdateMembership, TeamTypeOK, requests
  <2> QED
    BY <1>1, <1>t, <2>1, <2>2, <2>3, MembersChange DEF UpdateMembership, GrantedRole, TeamTypeOK
<1>2. ASSUME NEW p \in Person, NEW q \in Person, NEW role \in GrantedRole,
             TransferOwnership(p, q, role)
      PROVE  TeamInv'
  <2>1. member[p].role = "owner" /\ p # q /\ q \in Insiders /\ p \in Insiders
    BY <1>2, <1>t
    DEF TransferOwnership, MayAct, Rank, TeamTypeOK, NoMember, GrantedRole, Owners, Insiders
  <2>2. \A o \in Owners : o = p
    BY <2>1 DEF TeamInv, OnlyOwner, Owners
  <2>3. /\ member' \in [Person -> {NoMember} \cup [role : GrantedRole \cup {"owner"},
                                                   status : {"active", "suspended", "revoked"}]]
        /\ member'[q].role = "owner" /\ member'[p].role = role
        /\ member'[q].status = "active"
        /\ \A o \in Person \ {p, q} : member'[o] = member[o]
    BY <1>2, <1>t, <2>1 DEF TransferOwnership, TeamTypeOK, NoMember, Insiders, GrantedRole
  <2>4. TeamTypeOK'
    BY <1>2, <1>t, <2>3 DEF TransferOwnership, TeamTypeOK, requests
  <2>5. Owners' = {q}
    BY <2>1, <2>2, <2>3 DEF Owners, GrantedRole
  <2>6. q \in Insiders'
    BY <2>3 DEF Insiders
  <2>7. HostsAreHere'
    BY <1>2 DEF TransferOwnership, TeamInv, HostsAreHere
  <2>8. user[p] # "deleted" /\ user[q] # "deleted"
    BY <2>1 DEF TeamInv, DeletedLeaveNothing, Insiders, NoMember
  <2>9. DeletedLeaveNothing' /\ RequestsAreOfPeople'
    BY <1>2, <2>3, <2>8 DEF TransferOwnership, TeamInv, DeletedLeaveNothing, RequestsAreOfPeople, requests
  <2> QED
    BY <2>4, <2>5, <2>6, <2>7, <2>9 DEF TeamInv, OnlyOwner
<1>3. ASSUME NEW p \in Person, NEW q \in Person, NEW role \in GrantedRole, Invite(p, q, role)
      PROVE  TeamInv'
  <2>1. TeamTypeOK'
    BY <1>3, <1>t DEF Invite, TeamTypeOK
  <2>2. (user[p] = "active" \/ p \in late) /\ user[q] # "deleted"
    BY <1>3 DEF Invite, TeamInv, RequestsAreOfPeople
  <2>3. /\ invitation'[q].by = p /\ invitation'[q].late = (p \in late)
        /\ \A a \in Person \ {q} : invitation'[a] = invitation[a]
    BY <1>3, <1>t DEF Invite, TeamTypeOK
  <2>4. HostsAreHere' /\ DeletedLeaveNothing'
    BY <1>3, <2>2, <2>3 DEF Invite, TeamInv, HostsAreHere, DeletedLeaveNothing
  <2>5. RequestsAreOfPeople'
    BY <1>3 DEF Invite, TeamInv, RequestsAreOfPeople
  <2> QED
    BY <1>3, <2>1, <2>4, <2>5 DEF Invite, TeamInv, OnlyOwner, Owners, Insiders, OwnerIsLost
<1>4. ASSUME NEW p \in Person, LeaveWorkspace(p) PROVE TeamInv'
  <2>1. TeamTypeOK' /\ member'[p].role = member[p].role
    BY <1>4, <1>t DEF LeaveWorkspace, TeamTypeOK, NoMember, requests
  <2> QED
    BY <1>4, <1>t, <2>1, MembersChange
    DEF LeaveWorkspace, Authenticated, TeamTypeOK, TeamInv, RequestsAreOfPeople
<1>5. ASSUME NEW p \in Person, AcceptInvitation(p) PROVE TeamInv'
  <2>1. invitation[p].role \in GrantedRole
    BY <1>5, <1>t DEF AcceptInvitation, TeamTypeOK
  <2>2. TeamTypeOK' /\ member'[p].role \in GrantedRole
    BY <1>5, <1>t, <2>1 DEF AcceptInvitation, TeamTypeOK, requests
  <2>3. \A a \in Person : invitation'[a] \in {invitation[a], NoInvitation}
    BY <1>5, <1>t DEF AcceptInvitation, TeamTypeOK
  <2>4. user[p] # "deleted"
    BY <1>5 DEF AcceptInvitation, Authenticated, TeamInv, RequestsAreOfPeople
  <2> QED
    BY <1>5, <1>t, <2>2, <2>3, <2>4, MembersChange
    DEF AcceptInvitation, TeamTypeOK, GrantedRole, NoMember
<1>6. ASSUME NEW p \in Person, EndInvitation(p) PROVE TeamInv'
  <2>1. TeamTypeOK'
    BY <1>6, <1>t DEF EndInvitation, TeamTypeOK, requests
  <2>2. \A a \in Person : invitation'[a] \in {invitation[a], NoInvitation}
    BY <1>6, <1>t DEF EndInvitation, TeamTypeOK
  <2>3. HostsAreHere' /\ DeletedLeaveNothing' /\ RequestsAreOfPeople'
    BY <1>6, <2>2 DEF EndInvitation, TeamInv, HostsAreHere, DeletedLeaveNothing, RequestsAreOfPeople, requests
  <2> QED
    BY <1>6, <2>1, <2>3 DEF EndInvitation, TeamInv, OnlyOwner, Owners, Insiders, OwnerIsLost
<1>7. ASSUME NEW p \in Person, RequestDeletion(p) PROVE TeamInv'
  <2>1. TeamTypeOK'
    BY <1>7, <1>t DEF RequestDeletion, TeamTypeOK
  <2>2. /\ user'[p] = "pending" /\ \A a \in Person \ {p} : user'[a] = user[a]
        /\ \A a \in Person \ {p} : doomed'[a] = doomed[a]
        /\ \A a \in Person : invitation'[a] # NoInvitation =>
             invitation'[a] = invitation[a] /\ invitation[a].by # p
    BY <1>7, <1>t DEF RequestDeletion, TeamTypeOK
  <2>3. \A a \in Person : invitation[a] # NoInvitation => invitation[a].by \in Person
    BY <1>t DEF TeamTypeOK
  <2>4. HostsAreHere'
    BY <2>2, <2>3 DEF TeamInv, HostsAreHere
  <2>5. DeletedLeaveNothing'
    BY <1>7, <2>2 DEF RequestDeletion, TeamInv, DeletedLeaveNothing
  <2>6. OwnerIsLost => OwnerIsLost'
    BY <1>7, <2>2 DEF RequestDeletion, OwnerIsLost
  <2>7. RequestsAreOfPeople'
    <3>1. late' = late \cup {p} \/ (late' = late /\ p \notin inviting')
      BY <1>7 DEF RequestDeletion
    <3>2. inviting' \subseteq inviting /\ ~due'[p] /\ \A a \in Person \ {p} : due'[a] = due[a]
      BY <1>7, <1>t DEF RequestDeletion, TeamTypeOK
    <3>3. late \subseteq Person /\ inviting \subseteq Person /\ p \notin late
      BY <1>7 DEF RequestDeletion, TeamInv, TeamTypeOK, RequestsAreOfPeople
    <3> QED
      BY <2>2, <3>1, <3>2, <3>3 DEF TeamInv, RequestsAreOfPeople
  <2> QED
    BY <1>7, <2>1, <2>4, <2>5, <2>6, <2>7 DEF RequestDeletion, TeamInv, OnlyOwner, Owners, Insiders
<1>8. ASSUME NEW p \in Person, CancelDeletion(p) PROVE TeamInv'
  <2>1. TeamTypeOK'
    BY <1>8, <1>t DEF CancelDeletion, TeamTypeOK
  <2>2. /\ user'[p] = "active" /\ \A a \in Person \ {p} : user'[a] = user[a]
        /\ \A a \in Person \ {p} : doomed'[a] = doomed[a]
    BY <1>8, <1>t DEF CancelDeletion, TeamTypeOK
  <2>3. \A a \in Person : invitation[a] # NoInvitation => invitation[a].by \in Person
    BY <1>t DEF TeamTypeOK
  <2>4. HostsAreHere' /\ DeletedLeaveNothing'
    BY <1>8, <2>2, <2>3 DEF CancelDeletion, TeamInv, HostsAreHere, DeletedLeaveNothing
  <2>5. OwnerIsLost => OwnerIsLost'
    BY <1>8, <2>2 DEF CancelDeletion, OwnerIsLost
  <2>6. RequestsAreOfPeople'
    BY <1>8, <1>t, <2>2 DEF CancelDeletion, TeamInv, TeamTypeOK, RequestsAreOfPeople
  <2> QED
    BY <1>8, <2>1, <2>4, <2>5, <2>6 DEF CancelDeletion, TeamInv, OnlyOwner, Owners, Insiders
<1>9. ASSUME NEW p \in Person, DeletionDue(p) PROVE TeamInv'
  <2>1. TeamTypeOK'
    BY <1>9, <1>t DEF DeletionDue, TeamTypeOK, requests
  <2> QED
    BY <1>9, <2>1 DEF DeletionDue, TeamInv, OnlyOwner, Owners, Insiders, OwnerIsLost,
                      HostsAreHere, DeletedLeaveNothing, RequestsAreOfPeople, requests
<1>10. ASSUME NEW p \in Person, Cleanup(p) PROVE TeamInv'
  <2> DEFINE stays == team /\ ~doomed[p]
  <2>1. /\ user'[p] = "deleted" /\ \A a \in Person \ {p} : user'[a] = user[a]
        /\ doomed' = doomed /\ (team' <=> stays)
        /\ \A m \in Person : member'[m] = IF stays /\ m # p THEN member[m] ELSE NoMember
        /\ \A a \in Person : invitation'[a] = IF stays /\ a # p THEN invitation[a] ELSE NoInvitation
    BY <1>10, <1>t DEF Cleanup, TeamTypeOK
  <2>2. TeamTypeOK'
    <3>1. user' \in [Person -> {"active", "pending", "deleted"}] /\ team' \in BOOLEAN
      BY <1>10, <1>t DEF Cleanup, TeamTypeOK
    <3>2. member' \in [Person -> {NoMember} \cup [role : GrantedRole \cup {"owner"},
                                                  status : {"active", "suspended", "revoked"}]]
      BY <1>10, <1>t DEF Cleanup, TeamTypeOK
    <3>3. invitation' \in [Person -> {NoInvitation} \cup [by : Person, role : GrantedRole, late : BOOLEAN]]
      BY <1>10, <1>t DEF Cleanup, TeamTypeOK
    <3> QED
      BY <1>10, <1>t, <3>1, <3>2, <3>3 DEF Cleanup, TeamTypeOK, requests
  <2>3. Owners' \subseteq Owners \ {p} /\ (stays => Owners' = Owners \ {p})
    BY <2>1 DEF Owners, NoMember
  <2>4. Owners' \subseteq Insiders'
    BY <2>1, <2>3 DEF TeamInv, Owners, Insiders, NoMember
  <2>5. \A a \in Person : invitation[a] # NoInvitation /\ invitation[a].by = p => invitation[a].late
    BY <1>10 DEF Cleanup, TeamInv, HostsAreHere
  <2>9. RequestsAreOfPeople'
    <3>1. UNCHANGED <<late, inviting, due>> /\ user[p] = "pending" /\ due[p]
      BY <1>10 DEF Cleanup, requests
    <3>2. p \notin late /\ p \notin inviting /\ late \subseteq Person /\ inviting \subseteq Person
      BY <3>1, <1>t DEF TeamInv, RequestsAreOfPeople, TeamTypeOK
    <3> QED
      BY <2>1, <3>1, <3>2 DEF TeamInv, RequestsAreOfPeople
  <2>6. HostsAreHere'
    BY <2>1, <2>5, <1>t DEF TeamInv, HostsAreHere, TeamTypeOK
  <2>7. DeletedLeaveNothing'
    BY <2>1 DEF TeamInv, DeletedLeaveNothing
  <2>8. ASSUME team', Owners' = {} PROVE OwnerIsLost'
    BY <2>1, <2>8 DEF OwnerIsLost
  <2> QED
    BY <2>2, <2>3, <2>4, <2>6, <2>7, <2>8, <2>9 DEF TeamInv, OnlyOwner
<1>11. ASSUME NEW p \in Person, LookUpInviter(p) \/ EndRequests(p) PROVE TeamInv'
  <2>1. /\ UNCHANGED teamRows /\ late' \subseteq late
        /\ inviting' \subseteq inviting \cup {p}
        /\ p \in inviting' => user[p] = "active" \/ p \in late'
        /\ \A q \in inviting : q # p => (q \in late => q \in late')
    BY <1>11 DEF LookUpInviter, EndRequests, MayAct, Authenticated
  <2>2. RequestsAreOfPeople'
    BY <2>1, <1>t DEF TeamInv, RequestsAreOfPeople, teamRows, TeamTypeOK
  <2> QED
    BY <2>1, <2>2, <1>t DEF teamRows, TeamInv, TeamTypeOK, OnlyOwner, Owners, Insiders, OwnerIsLost,
                            HostsAreHere, DeletedLeaveNothing
<1>12. CASE UNCHANGED teamVars
  BY <1>12 DEF teamVars, teamRows, requests, TeamInv, TeamTypeOK, OnlyOwner, Owners, Insiders,
               OwnerIsLost, HostsAreHere, DeletedLeaveNothing, RequestsAreOfPeople
<1> QED
  BY <1>1, <1>2, <1>3, <1>4, <1>5, <1>6, <1>7, <1>8, <1>9, <1>10, <1>11, <1>12 DEF TeamNext

\* Members, invitations and accounts that come and go leave a workspace one
\* active owner, no invitation of somebody who is going but those that were
\* being made when the deletion was requested, and nothing of whoever has
\* gone, for any number of people and of requests under way.
THEOREM TeamHasItsOwner == TeamSpec => []TeamIsOwned
<1>1. TeamInv => TeamIsOwned
  <2> SUFFICES ASSUME TeamInv PROVE Cardinality(Owners) <= 1
    BY DEF TeamInv, TeamIsOwned, OneOwner, OwnerIsLost
  <2>1. Owners = {} \/ \E p : Owners = {p}
    BY DEF TeamInv, OnlyOwner
  <2> QED
    BY <2>1, FS_EmptySet, FS_Singleton
<1> QED
  BY <1>1, TeamInvInit, TeamInvStep, PTL DEF TeamSpec

-----------------------------------------------------------------------------
(* Sessions.                                                               *)

Token == [status : TokenStatus, inGrace : BOOLEAN]
SessionRow ==
  [counter : Nat, expired : BOOLEAN, over : BOOLEAN,
   revoked : {"no", "expired", "refresh_reuse", "device_revoked", "logout"}]
Newest == Len(refresh)

\* With navigator.locks, one tab at a time asks and waits.
OneInside == \A t, u \in BrowserTab : InLock(t) /\ InLock(u) => t = u

\* While no answer was lost, a tab in the lock works on the newest token, and
\* so does its request.
Unhurt ==
  /\ session.revoked # "refresh_reuse"
  /\ \A r \in wire : tab[r.tab].step = "wait" /\ ~r.lost
  /\ \A r, s \in wire : r.tab = s.tab => r = s
  /\ SessionLives => /\ wire = {} => jar.refresh = Newest
             /\ \A r \in wire : \/ r.answer = "none" /\ r.token = Newest
                                \/ r.answer = "issued" /\ r.new = Newest

SessionInv ==
  /\ SessionTypeOK
  /\ OneActiveToken
  /\ \A r \in wire : r.lost => r.answer = "none"
  /\ WebLocks => OneInside
  /\ WebLocks /\ lost = 0 => Unhurt

\* The tabs have read the session they were given.
LEMMA SessionInvInit == SessionInit => SessionInv
<1> SUFFICES ASSUME SessionInit PROVE SessionInv
  OBVIOUS
<1> USE DEF SessionInit
<1>1. SessionTypeOK
  BY SessionConstants DEF SessionTypeOK, NewToken, TokenStatus
<1>2. OneActiveToken
  <2>1. Active = {1} /\ Len(refresh) = 1
    BY DEF Active, NewToken
  <2> QED
    BY <2>1 DEF OneActiveToken, SessionLives
<1>3. OneInside
  BY DEF OneInside, InLock
<1>4. Unhurt
  BY DEF Unhurt, Newest
<1> QED
  BY <1>1, <1>2, <1>3, <1>4 DEF SessionInv

\* Ending a session ends its tokens and nothing else.
LEMMA RevokeSessionEnds ==
  ASSUME SessionTypeOK, OneActiveToken, NEW reason \in {"expired", "refresh_reuse", "logout"},
         RevokeSession(reason)
  PROVE  /\ refresh' \in Seq(Token) /\ Len(refresh') = Len(refresh) /\ DOMAIN refresh' = DOMAIN refresh
         /\ session'.revoked = IF SessionLives THEN reason ELSE session.revoked
         /\ session' \in SessionRow
         /\ ~SessionLives' /\ OneActiveToken'
<1>1. refresh \in Seq(Token)
  BY DEF SessionTypeOK, Token
<1>2. /\ refresh' \in [DOMAIN refresh -> Token]
      /\ \A i \in DOMAIN refresh : refresh'[i].status # "active"
  <2> DEFINE ended(i) == IF refresh[i].status = "active"
                         THEN [refresh[i] EXCEPT !.status = "revoked"] ELSE refresh[i]
  <2>1. refresh' = [i \in DOMAIN refresh |-> ended(i)]
    BY DEF RevokeSession
  <2>2. \A i \in DOMAIN refresh : refresh[i] \in Token
    BY <1>1
  <2>3. \A i \in DOMAIN refresh : ended(i) \in Token /\ ended(i).status # "active"
    BY <2>2 DEF Token, TokenStatus
  <2> HIDE DEF ended
  <2> QED
    BY <2>1, <2>3
<1>3. refresh' \in Seq(Token) /\ Len(refresh') = Len(refresh) /\ DOMAIN refresh' = DOMAIN refresh
  BY <1>1, <1>2, MappedSeq
<1>4. /\ session'.revoked = IF SessionLives THEN reason ELSE session.revoked
      /\ session'.counter = session.counter
      /\ session' \in SessionRow
  BY DEF RevokeSession, SessionTypeOK, SessionRow
<1>5. Active' = {}
  BY <1>2, <1>3 DEF Active
<1> QED
  BY <1>3, <1>4, <1>5 DEF OneActiveToken, SessionLives

\* A rotation makes the new token the only active one.
LEMMA RotateIssues ==
  ASSUME SessionTypeOK, OneActiveToken, SessionLives, NEW i \in DOMAIN refresh, Rotate(i),
         i = Newest
  PROVE  /\ refresh' \in Seq(Token) /\ Len(refresh') = Len(refresh) + 1
         /\ session'.counter = session.counter + 1 /\ session'.revoked = session.revoked
         /\ session' \in SessionRow
         /\ OneActiveToken'
<1> DEFINE marked == [refresh EXCEPT ![i].status = "rotated", ![i].inGrace = TRUE]
<1>1. refresh \in Seq(Token) /\ NewToken \in Token
  BY DEF SessionTypeOK, Token, NewToken, TokenStatus
<1>2. /\ marked \in [DOMAIN refresh -> Token]
      /\ marked[i].status = "rotated"
      /\ \A j \in DOMAIN refresh : j # i => marked[j] = refresh[j]
  <2>1. refresh \in [DOMAIN refresh -> Token] /\ refresh[i] \in Token
    BY <1>1
  <2> DEFINE row == [refresh[i] EXCEPT !.status = "rotated", !.inGrace = TRUE]
  <2>2. marked = [refresh EXCEPT ![i] = row]
    BY <2>1
  <2>3. row \in Token /\ row.status = "rotated"
    BY <2>1 DEF Token, TokenStatus
  <2> QED
    BY <2>1, <2>2, <2>3
<1>4. refresh' = Append(marked, NewToken)
  BY DEF Rotate
<1> HIDE DEF marked
<1>5. marked \in Seq(Token) /\ Len(marked) = Len(refresh) /\ DOMAIN marked = DOMAIN refresh
  BY <1>1, <1>2, MappedSeq
<1>6. /\ refresh' \in Seq(Token) /\ Len(refresh') = Len(refresh) + 1
      /\ refresh'[Len(refresh) + 1] = NewToken
      /\ DOMAIN refresh' = DOMAIN refresh \cup {Len(refresh) + 1}
      /\ \A j \in DOMAIN refresh : refresh'[j] = marked[j]
  BY <1>1, <1>4, <1>5, SMTT(30)
<1>7. /\ session'.counter = session.counter + 1 /\ session'.revoked = session.revoked
      /\ session' \in SessionRow
  <2>1. session \in SessionRow
    BY DEF SessionTypeOK, SessionRow
  <2>2. session' = [session EXCEPT !.counter = session.counter + 1, !.expired = FALSE]
    BY DEF Rotate
  <2>3. session.counter + 1 \in Nat
    BY <2>1 DEF SessionRow
  <2> QED
    BY <2>1, <2>2, <2>3 DEF SessionRow
<1>8. \A j \in DOMAIN refresh : j # i => refresh[j].status # "active"
  BY DEF OneActiveToken, Active, Newest
<1>9. Active' = {Len(refresh')}
  BY <1>2, <1>6, <1>8 DEF Active, NewToken
<1> QED
  BY <1>6, <1>7, <1>9 DEF OneActiveToken, SessionLives

\* What is rotated in a live session is its newest token, also when an older
\* one is presented in its grace; the newest is never refused.
LEMMA NewestIsRotated ==
  ASSUME SessionTypeOK, OneActiveToken, SessionLives, NEW i \in DOMAIN refresh
  PROVE  /\ RotationToken(i) # 0 => RotationToken(i) = Newest /\ Newest \in DOMAIN refresh
         /\ i = Newest => RotationToken(i) # 0
<1>1. Active = {Newest} /\ Newest \in DOMAIN refresh /\ DOMAIN refresh \subseteq Nat \ {0}
  BY DEF OneActiveToken, Active, Newest, SessionTypeOK
<1>2. (CHOOSE a \in Active : TRUE) = Newest
  BY <1>1
<1>3. i = Newest <=> refresh[i].status = "active"
  BY <1>1 DEF Active
<1> QED
  BY <1>1, <1>2, <1>3 DEF RotationToken

TabRow ==
  [step : {"idle", "lock", "check", "refresh", "wait", "anonymous"}, observed : Nat, expected : Nat]
RequestRow(d, n) ==
  [tab : BrowserTab, token : d, answer : RefreshAnswers, new : 0..n, access : Nat, lost : BOOLEAN]

\* A tab that is not waiting moves, and into the lock only when it is free.
LEMMA TabMoves ==
  ASSUME SessionInv, NEW t \in BrowserTab, NEW row \in TabRow, tab' = [tab EXCEPT ![t] = row],
         UNCHANGED <<refresh, session, jar, wire, lost>>, tab[t].step # "wait",
         row.step \in {"check", "refresh", "wait"} =>
           InLock(t) \/ (WebLocks => \A u \in BrowserTab : ~InLock(u))
  PROVE  SessionInv'
<1>1. tab \in [BrowserTab -> TabRow]
  BY DEF SessionInv, SessionTypeOK, TabRow
<1>2. tab' \in [BrowserTab -> TabRow] /\ tab'[t] = row /\ \A u \in BrowserTab \ {t} : tab'[u] = tab[u]
  BY <1>1
<1>3. SessionTypeOK'
  BY <1>2 DEF SessionInv, SessionTypeOK, TabRow
<1>4. WebLocks => OneInside'
  BY <1>2 DEF SessionInv, OneInside, InLock
<1>5. \A r \in wire : r.tab \in BrowserTab
  BY DEF SessionInv, SessionTypeOK
<1>6. Unhurt => Unhurt'
  BY <1>2, <1>5 DEF Unhurt, SessionLives, Newest
<1> QED
  BY <1>3, <1>4, <1>6 DEF SessionInv, OneActiveToken, Active, SessionLives

\* The server answers, or cannot, one request; the tabs do not notice.
LEMMA HandleRefreshKeeps ==
  ASSUME SessionInv, NEW r, HandleRefresh(r) PROVE SessionInv'
<1>1. /\ r \in wire /\ r \in RequestRow(DOMAIN refresh, Len(refresh)) /\ r.answer = "none"
      /\ r.tab \in BrowserTab /\ r.token \in DOMAIN refresh
      /\ jar \in [refresh : 0..Len(refresh), access : Nat]
      /\ wire \subseteq RequestRow(DOMAIN refresh, Len(refresh))
      /\ Len(refresh) \in Nat /\ session.counter \in Nat
      /\ tab' = tab /\ jar' = jar /\ lost' = lost
  BY DEF HandleRefresh, SessionInv, SessionTypeOK, RequestRow
<1> DEFINE answered(answer, token, access) ==
             [r EXCEPT !.answer = answer, !.new = token, !.access = access]
\* Whatever the answer is, it replaces the request, unless nobody will read it.
<1>2. ASSUME NEW answer \in RefreshAnswers \ {"none"}, NEW token \in 0..Len(refresh'), NEW access \in Nat,
             Outcome(r, answer, token, access),
             refresh' \in Seq(Token), DOMAIN refresh \subseteq DOMAIN refresh',
             Len(refresh) <= Len(refresh'), session' \in SessionRow, OneActiveToken',
             WebLocks /\ lost = 0 =>
               /\ session'.revoked # "refresh_reuse"
               /\ SessionLives' => answer = "issued" /\ token = Newest'
      PROVE  SessionInv'
  <2> DEFINE new == answered(answer, token, access)
  <2>1. /\ new \in RequestRow(DOMAIN refresh', Len(refresh')) /\ new.answer = answer
        /\ new.new = token /\ new.tab = r.tab /\ new.lost = r.lost
    BY <1>1, <1>2 DEF RequestRow
  <2>2. wire' = (wire \ {r}) \cup (IF r.lost THEN {} ELSE {new})
    BY <1>2 DEF Outcome
  <2> HIDE DEF new, answered
  <2>3. wire' \subseteq RequestRow(DOMAIN refresh', Len(refresh'))
    BY <1>1, <1>2, <2>1, <2>2 DEF RequestRow
  <2>4. jar' \in [refresh : 0..Len(refresh'), access : Nat]
    BY <1>1, <1>2
  <2>5. SessionTypeOK'
    BY <1>1, <1>2, <2>3, <2>4 DEF SessionInv, SessionTypeOK, Token, SessionRow, RequestRow
  <2>6. \A s \in wire' : s.lost => s.answer = "none"
    BY <2>1, <2>2 DEF SessionInv
  <2>7. ASSUME WebLocks, lost = 0, Unhurt, OneInside PROVE Unhurt'
    <3>1. wire = {r} /\ ~r.lost /\ tab[r.tab].step = "wait"
      BY <1>1, <2>7 DEF Unhurt, OneInside, InLock, SessionInv, SessionTypeOK
    <3>2. wire' = {new}
      BY <2>2, <3>1
    <3> QED
      BY <1>1, <1>2, <2>1, <2>7, <3>1, <3>2 DEF Unhurt
  <2> QED
    BY <1>1, <1>2, <2>5, <2>6, <2>7 DEF SessionInv, OneInside, InLock
<1>3. CASE Refusable
  <2>1. RevokeSession("expired") /\ Outcome(r, "denied", 0, 0)
    BY <1>3 DEF HandleRefresh
  <2>2. /\ refresh' \in Seq(Token) /\ Len(refresh') = Len(refresh) /\ DOMAIN refresh' = DOMAIN refresh
        /\ session'.revoked \in {session.revoked, "expired"}
        /\ session' \in SessionRow /\ ~SessionLives' /\ OneActiveToken'
    BY <2>1, RevokeSessionEnds DEF SessionInv
  <2> QED
    BY <1>1, <1>2, <2>1, <2>2 DEF RefreshAnswers, SessionInv, Unhurt
<1>4. CASE ~Refusable /\ RotationToken(r.token) = 0
  <2>1. RevokeSession("refresh_reuse") /\ Outcome(r, "denied", 0, 0)
    BY <1>4 DEF HandleRefresh
  <2>2. /\ refresh' \in Seq(Token) /\ Len(refresh') = Len(refresh) /\ DOMAIN refresh' = DOMAIN refresh
        /\ session' \in SessionRow /\ ~SessionLives' /\ OneActiveToken'
    BY <1>4, <2>1, RevokeSessionEnds DEF SessionInv
  <2>3. ~(WebLocks /\ lost = 0)
    BY <1>1, <1>4, NewestIsRotated DEF SessionInv, Unhurt, Refusable
  <2> QED
    BY <1>1, <1>2, <2>1, <2>2, <2>3 DEF RefreshAnswers
<1>5. CASE ~Refusable /\ RotationToken(r.token) # 0
  <2>1. Rotate(Newest) /\ Newest \in DOMAIN refresh
        /\ Outcome(r, "issued", Len(refresh) + 1, session.counter + 1)
    BY <1>1, <1>5, NewestIsRotated DEF HandleRefresh, Refusable, SessionInv
  <2>2. /\ refresh' \in Seq(Token) /\ Len(refresh') = Len(refresh) + 1
        /\ session'.revoked = session.revoked /\ session' \in SessionRow /\ OneActiveToken'
    BY <1>5, <2>1, RotateIssues DEF SessionInv, Refusable
  <2>3. DOMAIN refresh \subseteq DOMAIN refresh' /\ Len(refresh) + 1 \in 0..Len(refresh')
    BY <2>2 DEF SessionInv, SessionTypeOK
  <2> QED
    BY <1>1, <1>2, <1>5, <2>1, <2>2, <2>3 DEF RefreshAnswers, Newest, SessionInv, Unhurt, Refusable
<1> QED
  BY <1>3, <1>4, <1>5

\* The request leaves with the cookie of the moment, from the only tab inside.
LEMMA SendRefreshKeeps ==
  ASSUME SessionInv, NEW t \in BrowserTab, SendRefresh(t) PROVE SessionInv'
<1>1. /\ tab \in [BrowserTab -> TabRow] /\ tab[t].step = "refresh"
      /\ jar \in [refresh : 0..Len(refresh), access : Nat] /\ Len(refresh) \in Nat
      /\ DOMAIN refresh = 1..Len(refresh)
      /\ wire \subseteq RequestRow(DOMAIN refresh, Len(refresh))
      /\ UNCHANGED <<refresh, session, jar, lost>>
  BY DEF SendRefresh, SessionInv, SessionTypeOK, TabRow, RequestRow
<1>2. CASE jar.refresh = 0
  <2> DEFINE row == [tab[t] EXCEPT !.step = "anonymous"]
  <2>1. tab' = [tab EXCEPT ![t] = row] /\ wire' = wire
    BY <1>2 DEF SendRefresh
  <2>2. row \in TabRow /\ row.step = "anonymous"
    BY <1>1 DEF TabRow
  <2> HIDE DEF row
  <2> QED
    BY <1>1, <2>1, <2>2, TabMoves
<1>3. CASE jar.refresh # 0
  <2> DEFINE row == [tab[t] EXCEPT !.step = "wait"]
             new == [tab |-> t, token |-> jar.refresh, answer |-> "none",
                     new |-> 0, access |-> 0, lost |-> FALSE]
  <2>1. tab' = [tab EXCEPT ![t] = row] /\ wire' = wire \cup {new}
    BY <1>3 DEF SendRefresh
  <2>2. row \in TabRow /\ row.step = "wait"
    BY <1>1 DEF TabRow
  <2>3. /\ new \in RequestRow(DOMAIN refresh, Len(refresh)) /\ new.tab = t
        /\ new.answer = "none" /\ new.token = jar.refresh /\ ~new.lost
    BY <1>1, <1>3 DEF RequestRow, RefreshAnswers
  <2> HIDE DEF row, new
  <2>4. /\ tab' \in [BrowserTab -> TabRow] /\ tab'[t].step = "wait"
        /\ \A u \in BrowserTab \ {t} : tab'[u] = tab[u]
    BY <1>1, <2>1, <2>2
  <2>5. SessionTypeOK'
    BY <1>1, <2>1, <2>3, <2>4 DEF SessionInv, SessionTypeOK, TabRow, RequestRow
  <2>6. WebLocks => OneInside'
    BY <1>1, <2>4 DEF SessionInv, OneInside, InLock
  <2>7. ASSUME WebLocks, lost = 0, Unhurt, OneInside PROVE Unhurt'
    <3>1. wire = {}
      BY <1>1, <2>7 DEF Unhurt, OneInside, InLock, RequestRow
    <3> QED
      BY <1>1, <2>1, <2>3, <2>4, <2>7, <3>1 DEF Unhurt, SessionLives, Newest
  <2> QED
    BY <1>1, <2>1, <2>3, <2>5, <2>6, <2>7 DEF SessionInv, OneActiveToken, Active, SessionLives
<1> QED
  BY <1>2, <1>3

\* The answer fills or clears the cookie jar.
LEMMA ReceiveRefreshKeeps ==
  ASSUME SessionInv, NEW r, ReceiveRefresh(r) PROVE SessionInv'
<1>1. /\ tab \in [BrowserTab -> TabRow] /\ r \in wire /\ r.tab \in BrowserTab
      /\ r \in RequestRow(DOMAIN refresh, Len(refresh)) /\ r.answer # "none"
      /\ wire \subseteq RequestRow(DOMAIN refresh, Len(refresh))
      /\ wire' = wire \ {r} /\ jar' = [refresh |-> r.new, access |-> r.access]
      /\ UNCHANGED <<refresh, session, lost>>
  BY DEF ReceiveRefresh, SessionInv, SessionTypeOK, TabRow, RequestRow
<1>2. PICK row \in TabRow : /\ tab' = [tab EXCEPT ![r.tab] = row]
                            /\ row.step \in {"idle", "anonymous"}
  <2>1. CASE r.answer = "issued"
    <3> DEFINE row == [step |-> "idle", observed |-> r.access, expected |-> 0]
    <3>1. row \in TabRow
      BY <1>1 DEF RequestRow, TabRow
    <3> QED
      BY <2>1, <3>1 DEF ReceiveRefresh
  <2>2. CASE r.answer # "issued"
    <3> DEFINE row == [tab[r.tab] EXCEPT !.step = "anonymous"]
    <3>1. row \in TabRow /\ row.step = "anonymous"
      BY <1>1 DEF TabRow
    <3>2. tab' = [tab EXCEPT ![r.tab] = row]
      BY <2>2 DEF ReceiveRefresh
    <3> QED
      BY <3>1, <3>2
  <2> QED
    BY <2>1, <2>2
<1>3. /\ tab' \in [BrowserTab -> TabRow] /\ tab'[r.tab] = row
      /\ \A u \in BrowserTab \ {r.tab} : tab'[u] = tab[u]
  BY <1>1, <1>2
<1>4. SessionTypeOK'
  <2>1. jar' \in [refresh : 0..Len(refresh), access : Nat]
    BY <1>1 DEF RequestRow
  <2> QED
    BY <1>1, <1>3, <2>1 DEF SessionInv, SessionTypeOK, TabRow, RequestRow
<1>5. WebLocks => OneInside'
  BY <1>2, <1>3 DEF SessionInv, OneInside, InLock
<1>6. ASSUME WebLocks, lost = 0, Unhurt, OneInside PROVE Unhurt'
  <2>1. wire = {r}
    BY <1>1, <1>6 DEF Unhurt, OneInside, InLock, RequestRow
  <2> QED
    BY <1>1, <1>6, <2>1 DEF Unhurt, SessionLives, Newest
<1> QED
  BY <1>1, <1>4, <1>5, <1>6 DEF SessionInv, OneActiveToken, Active, SessionLives

\* A tab gives a request up; from now on one was lost.
LEMMA GiveUpKeeps ==
  ASSUME SessionInv, NEW r, r \in wire, GiveUp(r) PROVE SessionInv'
<1>1. /\ tab \in [BrowserTab -> TabRow] /\ r.tab \in BrowserTab
      /\ r \in RequestRow(DOMAIN refresh, Len(refresh))
      /\ wire \subseteq RequestRow(DOMAIN refresh, Len(refresh))
      /\ UNCHANGED <<refresh, session, jar>>
      /\ lost \in 0..MaxLost /\ lost < MaxLost /\ lost' = lost + 1
  BY DEF GiveUp, SessionInv, SessionTypeOK, TabRow, RequestRow
<1>0. lost' \in 0..MaxLost /\ lost' # 0
  BY <1>1, SessionConstants
<1> DEFINE given == [r EXCEPT !.lost = TRUE]
           row == [tab[r.tab] EXCEPT !.step = "idle", !.observed = 0]
<1>2. given \in RequestRow(DOMAIN refresh, Len(refresh)) /\ given.answer = r.answer
  BY <1>1 DEF RequestRow
<1>3. row \in TabRow /\ row.step = "idle"
  BY <1>1 DEF TabRow
<1>4. /\ wire' = (wire \ {r}) \cup (IF r.answer = "none" THEN {given} ELSE {})
      /\ tab' = [tab EXCEPT ![r.tab] = row]
  BY <1>1 DEF GiveUp
<1> HIDE DEF given, row
<1>5. tab' \in [BrowserTab -> TabRow] /\ tab'[r.tab] = row
      /\ \A u \in BrowserTab \ {r.tab} : tab'[u] = tab[u]
  BY <1>1, <1>3, <1>4
<1>6. SessionTypeOK'
  BY <1>0, <1>1, <1>2, <1>4, <1>5 DEF SessionInv, SessionTypeOK, TabRow, RequestRow
<1>7. WebLocks => OneInside'
  BY <1>3, <1>5 DEF SessionInv, OneInside, InLock
<1> QED
  BY <1>0, <1>1, <1>2, <1>4, <1>6, <1>7 DEF SessionInv, OneActiveToken, Active, SessionLives

\* A session that ends while nothing is answered: by logout or elsewhere.
LEMMA LogoutKeeps ==
  ASSUME SessionInv, NEW t \in BrowserTab, Logout(t) PROVE SessionInv'
<1>1. /\ tab \in [BrowserTab -> TabRow] /\ tab[t].step = "idle" /\ SessionLives
      /\ jar' = [refresh |-> 0, access |-> 0] /\ Len(refresh) \in Nat
      /\ \A s \in wire : s.tab \in BrowserTab
      /\ UNCHANGED <<wire, lost>> /\ RevokeSession("logout")
  BY DEF Logout, AccessAccepted, SessionInv, SessionTypeOK, TabRow
<1> DEFINE row == [tab[t] EXCEPT !.step = "anonymous"]
<1>2. row \in TabRow /\ row.step = "anonymous" /\ tab' = [tab EXCEPT ![t] = row]
  BY <1>1 DEF Logout, TabRow
<1> HIDE DEF row
<1>3. tab' \in [BrowserTab -> TabRow] /\ tab'[t] = row
      /\ \A u \in BrowserTab \ {t} : tab'[u] = tab[u]
  BY <1>1, <1>2
<1>4. /\ refresh' \in Seq(Token) /\ Len(refresh') = Len(refresh) /\ DOMAIN refresh' = DOMAIN refresh
      /\ session'.revoked = "logout" /\ session' \in SessionRow /\ ~SessionLives' /\ OneActiveToken'
  BY <1>1, RevokeSessionEnds DEF SessionInv
<1>5. SessionTypeOK'
  BY <1>1, <1>3, <1>4 DEF SessionInv, SessionTypeOK, TabRow, Token, SessionRow
<1>6. WebLocks => OneInside'
  BY <1>2, <1>3 DEF SessionInv, OneInside, InLock
<1>7. Unhurt => Unhurt'
  BY <1>1, <1>3, <1>4 DEF Unhurt
<1> QED
  BY <1>1, <1>4, <1>5, <1>6, <1>7 DEF SessionInv

\* Every step keeps the invariant.
LEMMA SessionInvStep == SessionInv /\ [SessionNext]_sessionVars => SessionInv'
<1> SUFFICES ASSUME SessionInv, [SessionNext]_sessionVars PROVE SessionInv'
  OBVIOUS
<1>t. /\ tab \in [BrowserTab -> TabRow] /\ refresh \in Seq(Token) /\ session \in SessionRow
  BY DEF SessionInv, SessionTypeOK, TabRow, Token, SessionRow
<1>1. ASSUME NEW t \in BrowserTab, AskRefresh(t) PROVE SessionInv'
  <2> DEFINE row == [tab[t] EXCEPT !.step = "lock", !.expected = tab[t].observed]
  <2>1. row \in TabRow /\ row.step = "lock"
    BY <1>t DEF TabRow
  <2>2. tab' = [tab EXCEPT ![t] = row]
    BY <1>1 DEF AskRefresh
  <2> HIDE DEF row
  <2> QED
    BY <1>1, <2>1, <2>2, TabMoves DEF AskRefresh
<1>2. ASSUME NEW t \in BrowserTab, EnterLock(t) PROVE SessionInv'
  <2> DEFINE row == [tab[t] EXCEPT !.step = "check"]
  <2>1. row \in TabRow /\ row.step = "check"
    BY <1>t DEF TabRow
  <2>2. tab' = [tab EXCEPT ![t] = row]
    BY <1>2 DEF EnterLock
  <2> HIDE DEF row
  <2> QED
    BY <1>2, <2>1, <2>2, TabMoves DEF EnterLock, MayEnter
<1>3. ASSUME NEW t \in BrowserTab, CheckSession(t) PROVE SessionInv'
  <2> DEFINE seen == [step |-> "idle", observed |-> session.counter, expected |-> 0]
             asks == [tab[t] EXCEPT !.step = "refresh"]
  <2>1. seen \in TabRow /\ asks \in TabRow /\ asks.step = "refresh"
    BY <1>t DEF TabRow, SessionRow
  <2>2. tab' = [tab EXCEPT ![t] = seen] \/ tab' = [tab EXCEPT ![t] = asks]
    BY <1>3 DEF CheckSession
  <2>3. tab[t].step = "check" /\ InLock(t) /\ UNCHANGED <<refresh, session, jar, wire, lost>>
    BY <1>3 DEF CheckSession, InLock
  <2> HIDE DEF asks
  <2> QED
    BY <2>1, <2>2, <2>3, TabMoves
<1>4. ASSUME NEW t \in BrowserTab, SendRefresh(t) PROVE SessionInv'
  BY <1>4, SendRefreshKeeps
<1>5. ASSUME NEW r \in wire, HandleRefresh(r) PROVE SessionInv'
  BY <1>5, HandleRefreshKeeps
<1>6. ASSUME NEW r \in wire, ReceiveRefresh(r) PROVE SessionInv'
  BY <1>6, ReceiveRefreshKeeps
<1>7. ASSUME NEW t \in BrowserTab, Logout(t) PROVE SessionInv'
  BY <1>7, LogoutKeeps
<1>8. ASSUME NEW r \in wire, GiveUp(r) PROVE SessionInv'
  BY <1>8, GiveUpKeeps
<1>9. ASSUME NEW i \in DOMAIN refresh, GraceEnds(i) PROVE SessionInv'
  <2> DEFINE row == [refresh[i] EXCEPT !.inGrace = FALSE]
  <2>1. refresh[i] \in Token
    BY <1>t
  <2>a. row \in Token /\ row.status = refresh[i].status
    BY <2>1 DEF Token
  <2>2. refresh' = [refresh EXCEPT ![i] = row]
    BY <1>9 DEF GraceEnds
  <2> HIDE DEF row
  <2>3. refresh' \in [DOMAIN refresh -> Token] /\ \A j \in DOMAIN refresh : refresh'[j].status = refresh[j].status
    BY <1>t, <2>a, <2>2
  <2>4. refresh' \in Seq(Token) /\ Len(refresh') = Len(refresh) /\ DOMAIN refresh' = DOMAIN refresh
    BY <1>t, <2>3, MappedSeq
  <2>5. Active' = Active
    BY <2>3, <2>4 DEF Active
  <2>6. UNCHANGED <<session, jar, tab, wire, lost>>
    BY <1>9 DEF GraceEnds
  <2> QED
    BY <2>4, <2>5, <2>6 DEF SessionInv, SessionTypeOK, Token, OneActiveToken, SessionLives, OneInside,
                            InLock, Unhurt, Newest
<1>10. ASSUME AccessExpires \/ SessionLapses \/ RevokedElsewhere PROVE SessionInv'
  <2>1. /\ session' \in SessionRow /\ session'.counter = session.counter
        /\ \/ session'.revoked = session.revoked
           \/ SessionLives /\ session'.revoked = "device_revoked"
    <3>1. ASSUME NEW f \in BOOLEAN PROVE [session EXCEPT !.expired = f] \in SessionRow
      BY <1>t DEF SessionRow
    <3>2. [session EXCEPT !.revoked = "device_revoked"] \in SessionRow
      BY <1>t DEF SessionRow
    <3>3. [session EXCEPT !.over = TRUE, !.expired = TRUE] \in SessionRow
      BY <1>t DEF SessionRow
    <3> QED
      BY <1>10, <1>t, <3>1, <3>2, <3>3 DEF AccessExpires, SessionLapses, RevokedElsewhere, SessionRow
  <2>2. UNCHANGED <<refresh, jar, tab, wire, lost>>
    BY <1>10 DEF AccessExpires, SessionLapses, RevokedElsewhere
  <2>3. SessionTypeOK'
    BY <2>1, <2>2 DEF SessionInv, SessionTypeOK, SessionRow
  <2>4. OneActiveToken' /\ (SessionLives' => SessionLives)
    BY <2>1, <2>2 DEF SessionInv, OneActiveToken, Active, SessionLives
  <2> QED
    BY <2>1, <2>2, <2>3, <2>4 DEF SessionInv, OneInside, InLock, Unhurt, Newest
<1>11. CASE UNCHANGED sessionVars
  BY <1>11 DEF sessionVars, SessionInv, SessionTypeOK, OneActiveToken, Active, SessionLives, OneInside,
               InLock, Unhurt, Newest
<1> QED
  BY <1>1, <1>2, <1>3, <1>4, <1>5, <1>6, <1>7, <1>8, <1>9, <1>10, <1>11 DEF SessionNext, TabStep

\* With or without navigator.locks, however many tabs ask and answers are
\* lost, a live session has one active refresh token, its newest, and a
\* session its browser ended has none.
THEOREM NewestTokenIsActive == SessionSpec => []OneActiveToken
<1>1. SessionInv => OneActiveToken
  BY DEF SessionInv
<1> QED
  BY <1>1, SessionInvInit, SessionInvStep, PTL DEF SessionSpec

\* With navigator.locks any number of tabs keep one session alive: it ends as
\* a reuse only after an answer was lost, and the cookie jar is never left
\* with a token that was rotated.
THEOREM TabsKeepOneSession == ASSUME WebLocks PROVE SessionSpec => []TabsShareOneSession
<1>1. SessionInv => TabsShareOneSession
  <2> SUFFICES ASSUME SessionInv PROVE ReuseNeedsALoss /\ JarHoldsActiveToken
    BY DEF SessionInv, TabsShareOneSession
  <2>1. ReuseNeedsALoss
    BY DEF SessionInv, SessionTypeOK, ReuseNeedsALoss, Unhurt
  <2>2. ASSUME lost = 0, SessionLives, wire = {} PROVE jar.refresh \in Active
    BY <2>2 DEF SessionInv, OneActiveToken, Unhurt, Newest
  <2> QED
    BY <2>1, <2>2 DEF JarHoldsActiveToken
<1> QED
  BY <1>1, SessionInvInit, SessionInvStep, PTL DEF SessionSpec

\* A step on a revoked session changes neither the reason nor the counter:
\* nothing is issued on it, whatever was on its way.
THEOREM RevocationIsFinal == SessionSpec => [][RevokedStaysRevoked]_sessionVars
<1>1. SessionInv /\ [SessionNext]_sessionVars => [RevokedStaysRevoked]_sessionVars
  <2> SUFFICES ASSUME SessionInv, SessionNext, session.revoked # "no"
               PROVE  session'.revoked = session.revoked /\ session'.counter = session.counter
    BY DEF RevokedStaysRevoked
  <2>1. ~SessionLives /\ session \in SessionRow
    BY DEF SessionLives, SessionInv, SessionTypeOK, SessionRow
  <2>2. ASSUME NEW r \in wire, HandleRefresh(r)
        PROVE  session' = [session EXCEPT !.revoked = session.revoked]
    BY <2>1, <2>2 DEF HandleRefresh, Refusable, RevokeSession
  <2>3. ASSUME NEW t \in BrowserTab, Logout(t) PROVE FALSE
    BY <2>1, <2>3 DEF Logout, AccessAccepted
  <2>4. ASSUME AccessExpires \/ SessionLapses
        PROVE  session'.revoked = session.revoked /\ session'.counter = session.counter
    BY <2>1, <2>4 DEF AccessExpires, SessionLapses, SessionRow
  <2> QED
    BY <2>1, <2>2, <2>3, <2>4
    DEF SessionNext, TabStep, SessionRow, SessionLives, RevokedElsewhere, AskRefresh, EnterLock, CheckSession,
        SendRefresh, ReceiveRefresh, GiveUp, GraceEnds
<1> QED
  BY <1>1, SessionInvInit, SessionInvStep, PTL DEF SessionSpec

-----------------------------------------------------------------------------
(* Mail: each step either ends or begins actions, with their mails in the  *)
(* same transaction (ActionsKeep), or delivers one mail (DeliveryKeeps).   *)

TokenT == [purpose : Purpose, state : {"live", "used", "revoked"},
           expired : BOOLEAN, failures : 0..MaxFailures]
InviteT == [status : {"pending", "accepted", "revoked", "expired"},
            expired : BOOLEAN, mailed : BOOLEAN]
MailT == [purpose : Purpose \cup {"security_notification", "workspace_invitation"},
          ref : Nat, status : {"pending", "leased"} \cup FinalStatus,
          attempts : Nat, due : BOOLEAN, lapsed : BOOLEAN, accepted : Nat, lapses : Nat]
Replies == {"none", "accepted", "retryable", "refused"}

\* What a mail is about exists; it can still be taken; it has ended.
Exists(p, r) ==
  /\ p \in Purpose => r \in DOMAIN tokens /\ tokens[r].purpose = p
  /\ p = "workspace_invitation" => r \in DOMAIN invites
  /\ p = "security_notification" => r = 0
Deliverable(p, r) ==
  /\ p \in Purpose => r \in LiveTokens(p) /\ ~tokens[r].expired
  /\ p = "workspace_invitation" => r \in LiveInvites
Ended(p, r) ==
  \/ p \in Purpose /\ tokens[r].state # "live"
  \/ p = "workspace_invitation" /\ invites[r].status # "pending"

\* The attempts a mail had, and the outcome it has when its action ended.
RowIsSound(row) ==
  /\ Exists(row.purpose, row.ref)
  /\ row.status = "pending" => row.attempts < MaxAttempts
  /\ row.lapsed => row.status = "leased" /\ row.attempts < MaxAttempts + row.lapses
  /\ row.attempts <= MaxAttempts + row.lapses
  /\ Ended(row.purpose, row.ref) => row.status \in FinalStatus

\* A mail the provider took, or may still take from a worker that holds it,
\* took a lapsed lease each time but once, and that one is spent by a lease.
Trying(m) == {w \in Sender : sender[w].mail = m /\ sender[w].answer # "accepted"}
Spare(row) == IF row.status = "pending" \/ row.lapsed THEN 0 ELSE 1
SentOnce(m) == mails[m].accepted + Cardinality(Trying(m)) <= mails[m].lapses + Spare(mails[m])

OneLive ==
  /\ \A s, t \in DOMAIN tokens :
       tokens[s].state = "live" /\ tokens[t].state = "live" /\ tokens[s].purpose = tokens[t].purpose
         => s = t
  /\ \A i, j \in LiveInvites : i = j
  /\ \A t \in DOMAIN tokens : tokens[t].state = "live" => tokens[t].failures < MaxFailures

MailTypes ==
  /\ account \in {"none", "unverified", "verified"}
  /\ membership \in {"none", "active", "revoked"}
  /\ tokens \in Seq(TokenT) /\ invites \in Seq(InviteT) /\ mails \in Seq(MailT)
  /\ sender \in [Sender -> [mail : 0..Len(mails), answer : Replies]]
  /\ faults \in 0..MaxFaults

MailInv ==
  /\ MailTypes
  /\ OneLive
  /\ \A m \in DOMAIN mails : RowIsSound(mails[m]) /\ SentOnce(m)
  /\ \A m \in DOMAIN mails \ Unreadable :
       mails[m].status = "dead" => ~Deliverable(mails[m].purpose, mails[m].ref)
  /\ \A w \in Sender : sender[w].mail = 0 => sender[w].answer = "none"

-----------------------------------------------------------------------------
(* Rows.                                                                   *)

\* A sequence mapped element by element keeps its length.
LEMMA Mapped ==
  ASSUME NEW S, NEW T, NEW s \in Seq(S), NEW f \in [DOMAIN s -> T]
  PROVE  f \in Seq(T) /\ Len(f) = Len(s) /\ DOMAIN f = DOMAIN s
  OBVIOUS

\* A row added at the end of a table is its only new one.
LEMMA Appended ==
  ASSUME NEW T, NEW s \in Seq(T), NEW x \in T
  PROVE  /\ Append(s, x) \in Seq(T) /\ Len(Append(s, x)) = Len(s) + 1 /\ Len(s) \in Nat
         /\ DOMAIN Append(s, x) = DOMAIN s \cup {Len(s) + 1} /\ Len(s) + 1 \notin DOMAIN s
         /\ \A i \in DOMAIN s : Append(s, x)[i] = s[i]
         /\ Append(s, x)[Len(s) + 1] = x
  OBVIOUS

\* A mail that is dead is what it was about, and terminal.
LEMMA DeadRow ==
  ASSUME NEW row \in MailT
  PROVE  /\ Dead(row) \in MailT
         /\ Dead(row).status = "dead" /\ Dead(row).lapsed = FALSE
         /\ Dead(row).purpose = row.purpose /\ Dead(row).ref = row.ref
         /\ Dead(row).attempts = row.attempts /\ Dead(row).accepted = row.accepted
         /\ Dead(row).lapses = row.lapses
  BY DEF Dead, MailT, FinalStatus

\* The mails of an ended action are dead, the others are what they were.
KilledSet(p, refs) == {m \in MailsFor(p, refs) : mails[m].status \in {"pending", "leased"}}
LEMMA KilledRows ==
  ASSUME mails \in Seq(MailT), NEW p, NEW refs
  PROVE  /\ Killed(p, refs) \in Seq(MailT) /\ Len(Killed(p, refs)) = Len(mails)
         /\ DOMAIN Killed(p, refs) = DOMAIN mails
         /\ \A m \in DOMAIN mails :
              Killed(p, refs)[m] = IF m \in KilledSet(p, refs) THEN Dead(mails[m]) ELSE mails[m]
<1> DEFINE row(m) == IF m \in MailsFor(p, refs) /\ mails[m].status \in {"pending", "leased"}
                     THEN Dead(mails[m]) ELSE mails[m]
           f == [m \in DOMAIN mails |-> row(m)]
<1>1. \A m \in DOMAIN mails : row(m) \in MailT
  <2>1. \A m \in DOMAIN mails : mails[m] \in MailT
    OBVIOUS
  <2>2. \A m \in DOMAIN mails : Dead(mails[m]) \in MailT
    BY <2>1, DeadRow
  <2> QED
    BY <2>1, <2>2
<1>2. Killed(p, refs) = f
  BY DEF Killed
<1>3. \A m \in DOMAIN mails : row(m) = IF m \in KilledSet(p, refs) THEN Dead(mails[m]) ELSE mails[m]
  BY DEF KilledSet
<1> HIDE DEF row
<1>4. f \in [DOMAIN mails -> MailT]
  BY <1>1
<1>5. f \in Seq(MailT) /\ Len(f) = Len(mails) /\ DOMAIN f = DOMAIN mails
  BY <1>4, Mapped
<1>6. \A m \in DOMAIN mails : f[m] = row(m)
  OBVIOUS
<1> HIDE DEF f
<1> QED
  BY <1>2, <1>3, <1>5, <1>6

\* A new mail has not been tried.
LEMMA NewMail ==
  ASSUME NEW p \in Purpose \cup {"security_notification", "workspace_invitation"}, NEW r \in Nat
  PROVE  /\ MailRow(p, r) \in MailT
         /\ MailRow(p, r).purpose = p /\ MailRow(p, r).ref = r /\ MailRow(p, r).status = "pending"
         /\ MailRow(p, r).attempts = 0 /\ MailRow(p, r).lapsed = FALSE
         /\ MailRow(p, r).accepted = 0 /\ MailRow(p, r).lapses = 0
  BY DEF MailRow, MailT, FinalStatus

LEMMA DeliverableIs ==
  ASSUME NEW row \in MailT
  PROVE  ActionIsDeliverable(row) <=> Deliverable(row.purpose, row.ref)
  BY DEF ActionIsDeliverable, Deliverable, MailT, Purpose

\* The workers at a mail are finitely many.
LEMMA TryingIsFinite == \A m : IsFiniteSet(Trying(m)) /\ Cardinality(Trying(m)) \in Nat
  BY MailConstants, FS_Subset, FS_CardinalityType DEF Trying

\* No account, or one that has none of this yet.
LEMMA MailInvInit == MailInit => MailInv
<1> SUFFICES ASSUME MailInit PROVE MailInv
  OBVIOUS
<1>1. InviteRow(FALSE) \in InviteT
  BY DEF InviteRow, InviteT
<1>2. invites \in Seq(InviteT) /\ Len(invites) <= 1 /\ mails = <<>> /\ tokens = <<>>
  <2> DEFINE x == InviteRow(FALSE)
  <2>1. x \in InviteT /\ invites \in {<<>>, <<x>>} /\ mails = <<>> /\ tokens = <<>>
    BY <1>1 DEF MailInit
  <2> HIDE DEF x
  <2>2. <<x>> \in Seq(InviteT) /\ Len(<<x>>) = 1
    BY <2>1
  <2>3. <<>> \in Seq(InviteT) /\ Len(<<>>) = 0
    OBVIOUS
  <2>4. CASE invites = <<>>
    BY <2>1, <2>3, <2>4
  <2>5. CASE invites = <<x>>
    BY <2>1, <2>2, <2>5
  <2>6. invites = <<>> \/ invites = <<x>>
    BY <2>1
  <2> QED
    BY <2>4, <2>5, <2>6
<1>3. sender \in [Sender -> [mail : 0..Len(mails), answer : Replies]]
  BY <1>2 DEF MailInit, Free, Replies
<1>4. MailTypes
  BY <1>2, <1>3, MailConstants DEF MailInit, MailTypes
<1>5. OneLive
  BY <1>2 DEF OneLive, LiveInvites
<1> QED
  BY <1>2, <1>4, <1>5 DEF MailInv, MailInit, Free

-----------------------------------------------------------------------------
(* Steps.                                                                  *)

LEMMA AtMostOneMore ==
  ASSUME NEW a \in Nat, NEW c \in Nat, NEW l \in Nat, NEW s \in {0, 1}, a + c <= l + s
  PROVE  a + c <= l + 1
  OBVIOUS

\* What registration, recovery, invitations and time do: they end or begin
\* actions, kill the mails of those they end and write mails for those they
\* begin.
LEMMA ActionsKeep ==
  ASSUME MailInv, UNCHANGED <<sender, faults>>,
         account' \in {"none", "unverified", "verified"},
         membership' \in {"none", "active", "revoked"},
         tokens' \in Seq(TokenT), invites' \in Seq(InviteT), OneLive',
         DOMAIN tokens \subseteq DOMAIN tokens', DOMAIN invites \subseteq DOMAIN invites',
         \A t \in DOMAIN tokens : tokens'[t].purpose = tokens[t].purpose,
         mails' \in Seq(MailT), Len(mails) <= Len(mails'),
         NEW killed \in SUBSET DOMAIN mails,
         \A m \in DOMAIN mails : mails'[m] = IF m \in killed THEN Dead(mails[m]) ELSE mails[m],
         \A m \in DOMAIN mails : \A p, r : p = mails[m].purpose /\ r = mails[m].ref =>
           /\ m \in killed => ~Deliverable(p, r)'
           /\ Deliverable(p, r)' => Deliverable(p, r)
           /\ m \notin killed /\ Ended(p, r)' => mails[m].status \in FinalStatus,
         \A m \in DOMAIN mails' \ DOMAIN mails :
           \E p \in Purpose \cup {"security_notification", "workspace_invitation"}, r \in Nat :
             mails'[m] = MailRow(p, r) /\ Exists(p, r)' /\ ~Ended(p, r)'
  PROVE  MailInv'
<1>0. /\ mails \in Seq(MailT) /\ tokens \in Seq(TokenT) /\ Len(mails) \in Nat /\ Len(mails') \in Nat
      /\ DOMAIN mails = 1..Len(mails) /\ DOMAIN mails' = 1..Len(mails')
      /\ \A m \in DOMAIN mails : mails[m] \in MailT
      /\ DOMAIN mails \subseteq DOMAIN mails'
  BY DEF MailInv, MailTypes
<1>1. MailTypes'
  <2>1. sender' \in [Sender -> [mail : 0..Len(mails'), answer : Replies]]
    BY <1>0 DEF MailInv, MailTypes
  <2> QED
    BY <2>1 DEF MailInv, MailTypes
<1>2. \A m : Trying(m)' = Trying(m)
  BY DEF Trying
<1>3. ASSUME NEW m \in DOMAIN mails
      PROVE  /\ mails'[m].purpose = mails[m].purpose /\ mails'[m].ref = mails[m].ref
             /\ \A p, r : p = mails[m].purpose /\ r = mails[m].ref => Exists(p, r)'
             /\ RowIsSound(mails[m]) /\ SentOnce(m)
  <2>1. RowIsSound(mails[m]) /\ SentOnce(m)
    BY DEF MailInv
  <2>2. \A p, r : p = mails[m].purpose /\ r = mails[m].ref => Exists(p, r)'
    BY <2>1 DEF RowIsSound, Exists
  <2>3. mails'[m].purpose = mails[m].purpose /\ mails'[m].ref = mails[m].ref
    BY <1>0, DeadRow
  <2> QED
    BY <2>1, <2>2, <2>3
<1>4. ASSUME NEW m \in DOMAIN mails', m \in killed PROVE RowIsSound(mails[m])' /\ SentOnce(m)'
  <2>1. mails'[m] = Dead(mails[m]) /\ mails[m] \in MailT
    BY <1>0, <1>4
  <2> DEFINE d == Dead(mails[m])
  <2>2. /\ d.status = "dead" /\ d.lapsed = FALSE /\ d.attempts = mails[m].attempts
        /\ d.accepted = mails[m].accepted /\ d.lapses = mails[m].lapses
    BY <2>1, DeadRow
  <2>3. mails[m].attempts <= MaxAttempts + mails[m].lapses
    BY <1>3, <1>4 DEF RowIsSound
  <2>4. mails[m].accepted + Cardinality(Trying(m)) <= mails[m].lapses + 1
    <3>1. mails[m].accepted + Cardinality(Trying(m)) <= mails[m].lapses + Spare(mails[m])
      BY <1>3, <1>4 DEF SentOnce
    <3>2. Spare(mails[m]) \in {0, 1}
      BY DEF Spare
    <3>3. mails[m].accepted \in Nat /\ mails[m].lapses \in Nat /\ Cardinality(Trying(m)) \in Nat
      BY <2>1, TryingIsFinite DEF MailT
    <3> QED
      BY <3>1, <3>2, <3>3, AtMostOneMore
  <2>5. mails'[m] = d
    BY <2>1
  <2>6. \A p, r : p = mails'[m].purpose /\ r = mails'[m].ref => Exists(p, r)'
    BY <1>3, <1>4, <2>5
  <2> HIDE DEF d
  <2>7. RowIsSound(mails[m])'
    BY <2>2, <2>3, <2>5, <2>6 DEF RowIsSound, FinalStatus, Exists
  <2>8. SentOnce(m)'
    BY <1>2, <2>2, <2>4, <2>5 DEF SentOnce, Spare
  <2> QED
    BY <2>7, <2>8
<1>5. ASSUME NEW m \in DOMAIN mails \ killed PROVE RowIsSound(mails[m])' /\ SentOnce(m)'
  <2>1. mails'[m] = mails[m]
    OBVIOUS
  <2>2. RowIsSound(mails[m])'
    BY <1>3, <2>1 DEF RowIsSound
  <2>3. SentOnce(m)'
    BY <1>2, <1>3, <2>1 DEF SentOnce, Spare
  <2> QED
    BY <2>2, <2>3
<1>6. ASSUME NEW m \in DOMAIN mails' \ DOMAIN mails PROVE RowIsSound(mails[m])' /\ SentOnce(m)'
  <2>1. PICK p \in Purpose \cup {"security_notification", "workspace_invitation"}, r \in Nat :
          mails'[m] = MailRow(p, r) /\ Exists(p, r)' /\ ~Ended(p, r)'
    OBVIOUS
  <2> DEFINE n == MailRow(p, r)
  <2>2. /\ n.purpose = p /\ n.ref = r /\ n.status = "pending" /\ n.attempts = 0
        /\ n.lapsed = FALSE /\ n.accepted = 0 /\ n.lapses = 0
    BY DEF MailRow
  <2>3. mails'[m] = n
    BY <2>1
  <2> HIDE DEF n
  <2>4. RowIsSound(mails[m])'
    BY <2>1, <2>2, <2>3, MailConstants DEF RowIsSound, Exists, Ended
  <2>5. Trying(m) = {}
    BY <1>0 DEF Trying, MailInv, MailTypes
  <2>6. Trying(m)' = {} /\ Cardinality({}) = 0
    BY <1>2, <2>5, FS_EmptySet
  <2>7. SentOnce(m)'
    BY <2>2, <2>3, <2>6 DEF SentOnce, Spare
  <2> QED
    BY <2>4, <2>7
<1>7. \A m \in DOMAIN mails' : RowIsSound(mails[m])' /\ SentOnce(m)'
  BY <1>4, <1>5, <1>6
<1>8. ASSUME NEW m \in DOMAIN mails' \ Unreadable, mails'[m].status = "dead"
      PROVE  \A p, r : p = mails'[m].purpose /\ r = mails'[m].ref => ~Deliverable(p, r)'
  <2>1. m \in DOMAIN mails
    <3>1. SUFFICES ASSUME m \notin DOMAIN mails PROVE FALSE
      OBVIOUS
    <3>2. PICK p \in Purpose \cup {"security_notification", "workspace_invitation"}, r \in Nat :
            mails'[m] = MailRow(p, r)
      BY <3>1
    <3>3. MailRow(p, r).status = "pending"
      BY DEF MailRow
    <3> QED
      BY <1>8, <3>2, <3>3
  <2>2. CASE m \in killed
    BY <1>3, <2>1, <2>2
  <2>3. CASE m \notin killed
    <3>1. mails'[m] = mails[m] /\ mails[m].status = "dead"
      BY <1>8, <2>1, <2>3
    <3>2. ~Deliverable(mails[m].purpose, mails[m].ref)
      BY <1>8, <2>1, <3>1 DEF MailInv
    <3> QED
      BY <2>1, <3>1, <3>2
  <2> QED
    BY <2>2, <2>3
<1>9. \A w \in Sender : sender'[w].mail = 0 => sender'[w].answer = "none"
  BY DEF MailInv
<1> QED
  BY <1>1, <1>7, <1>8, <1>9 DEF MailInv, Deliverable

\* The step ends the actions endedT or endedI, of which refs were live.
EndsActions(p, refs, endedT, endedI) ==
  /\ DOMAIN tokens \subseteq DOMAIN tokens' /\ DOMAIN invites \subseteq DOMAIN invites'
  /\ p \in Purpose \cup {"workspace_invitation"}
  /\ \A t \in DOMAIN tokens :
       /\ tokens'[t].purpose = tokens[t].purpose
       /\ t \in endedT => tokens'[t].state # "live"
       /\ t \notin endedT => /\ tokens'[t].state = tokens[t].state
                             /\ tokens[t].expired => tokens'[t].expired
  /\ \A i \in DOMAIN invites :
       /\ i \in endedI => invites'[i].status # "pending"
       /\ i \notin endedI => /\ invites'[i].status = invites[i].status
                             /\ invites[i].expired => invites'[i].expired
  /\ p \in Purpose => /\ endedI = {} /\ refs \subseteq endedT
                      /\ \A t \in endedT :
                           tokens[t].state = "live" => t \in refs /\ tokens[t].purpose = p
  /\ p = "workspace_invitation" => endedT = {} /\ refs = endedI

\* Its mails are killed, and one may be written for an action that is open.
MailsFollow(p, refs) ==
  \/ mails' = Killed(p, refs)
  \/ \E q \in Purpose \cup {"security_notification", "workspace_invitation"}, r \in Nat :
       mails' = Append(Killed(p, refs), MailRow(q, r)) /\ Exists(q, r)' /\ ~Ended(q, r)'

RowsFit ==
  /\ account \in {"none", "unverified", "verified"}
  /\ membership \in {"none", "active", "revoked"}
  /\ tokens \in Seq(TokenT) /\ invites \in Seq(InviteT) /\ OneLive

LEMMA ActionStep ==
  ASSUME MailInv, UNCHANGED <<sender, faults>>, RowsFit', NEW p, NEW refs, NEW endedT, NEW endedI,
         EndsActions(p, refs, endedT, endedI), MailsFollow(p, refs)
  PROVE  MailInv'
<1> DEFINE killed == KilledSet(p, refs)
           old == Killed(p, refs)
<1>1. /\ mails \in Seq(MailT) /\ \A m \in DOMAIN mails : mails[m] \in MailT
      /\ tokens \in Seq(TokenT) /\ invites \in Seq(InviteT)
  BY DEF MailInv, MailTypes
<1>2. /\ old \in Seq(MailT) /\ Len(old) = Len(mails) /\ DOMAIN old = DOMAIN mails /\ Len(mails) \in Nat
      /\ \A m \in DOMAIN mails : old[m] = IF m \in killed THEN Dead(mails[m]) ELSE mails[m]
  BY <1>1, KilledRows
<1>3. killed \in SUBSET DOMAIN mails
  BY DEF KilledSet, MailsFor
<1>4. ASSUME NEW m \in DOMAIN mails, NEW q, NEW r, q = mails[m].purpose, r = mails[m].ref
      PROVE  /\ m \in killed => ~Deliverable(q, r)'
             /\ Deliverable(q, r)' => Deliverable(q, r)
             /\ m \notin killed /\ Ended(q, r)' => mails[m].status \in FinalStatus
  <2>1. /\ RowIsSound(mails[m]) /\ Exists(q, r) /\ mails[m] \in MailT
        /\ Ended(q, r) => mails[m].status \in FinalStatus
    BY <1>1, <1>4 DEF MailInv, RowIsSound
  <2>2. m \in killed <=> q = p /\ r \in refs /\ mails[m].status \in {"pending", "leased"}
    BY <1>4 DEF KilledSet, MailsFor
  <2>3. mails[m].status \in {"pending", "leased"} \/ mails[m].status \in FinalStatus
    BY <2>1 DEF MailT
  <2> HIDE DEF killed
  <2>4. CASE q \in Purpose
    <3>1. r \in DOMAIN tokens /\ tokens[r].purpose = q /\ q # "workspace_invitation"
      BY <2>1, <2>4 DEF Exists, Purpose
    <3>2. Deliverable(q, r)' <=> r \in DOMAIN tokens' /\ tokens'[r].purpose = q
                                 /\ tokens'[r].state = "live" /\ ~tokens'[r].expired
      BY <2>4, <3>1 DEF Deliverable, LiveTokens
    <3>3. Deliverable(q, r) <=> tokens[r].state = "live" /\ ~tokens[r].expired
      BY <2>4, <3>1 DEF Deliverable, LiveTokens
    <3>4. /\ Ended(q, r)' <=> tokens'[r].state # "live"
          /\ Ended(q, r) <=> tokens[r].state # "live"
      BY <2>4, <3>1 DEF Ended
    <3> QED
      BY <2>1, <2>2, <2>3, <2>4, <3>1, <3>2, <3>3, <3>4 DEF EndsActions
  <2>5. CASE q = "workspace_invitation"
    <3>1. r \in DOMAIN invites /\ q \notin Purpose
      BY <2>1, <2>5 DEF Exists, Purpose
    <3>2. Deliverable(q, r)' <=> r \in DOMAIN invites' /\ invites'[r].status = "pending"
                                 /\ ~invites'[r].expired
      BY <2>5, <3>1 DEF Deliverable, LiveInvites
    <3>3. Deliverable(q, r) <=> invites[r].status = "pending" /\ ~invites[r].expired
      BY <2>5, <3>1 DEF Deliverable, LiveInvites
    <3>4. /\ Ended(q, r)' <=> invites'[r].status # "pending"
          /\ Ended(q, r) <=> invites[r].status # "pending"
      BY <2>5, <3>1 DEF Ended
    <3> QED
      BY <2>1, <2>2, <2>3, <2>5, <3>1, <3>2, <3>3, <3>4 DEF EndsActions
  <2>6. CASE q = "security_notification"
    <3>1. q \notin Purpose /\ q # "workspace_invitation"
      BY <2>6 DEF Purpose
    <3>2. Deliverable(q, r) /\ ~Ended(q, r)'
      BY <3>1 DEF Deliverable, Ended
    <3> QED
      BY <2>2, <2>6, <3>1, <3>2 DEF EndsActions
  <2> QED
    BY <1>4, <2>1, <2>4, <2>5, <2>6 DEF MailT
<1>5. /\ \A t \in DOMAIN tokens : tokens'[t].purpose = tokens[t].purpose
      /\ DOMAIN tokens \subseteq DOMAIN tokens' /\ DOMAIN invites \subseteq DOMAIN invites'
      /\ account' \in {"none", "unverified", "verified"}
      /\ membership' \in {"none", "active", "revoked"}
      /\ tokens' \in Seq(TokenT) /\ invites' \in Seq(InviteT) /\ OneLive'
  BY DEF EndsActions, RowsFit
<1> HIDE DEF old, killed
<1>8. Len(mails) <= Len(old)
  BY <1>2
<1>6. CASE mails' = old
  <2>1. \A m \in DOMAIN mails' \ DOMAIN mails : FALSE
    BY <1>2, <1>6
  <2>2. mails' \in Seq(MailT) /\ Len(mails) <= Len(mails')
    BY <1>2, <1>6, <1>8, Zenon
  <2>3. \A m \in DOMAIN mails : mails'[m] = IF m \in killed THEN Dead(mails[m]) ELSE mails[m]
    BY <1>2, <1>6, Zenon
  <2> QED
    BY <1>3, <1>4, <1>5, <2>1, <2>2, <2>3, ActionsKeep, Zenon
<1>7. ASSUME NEW q \in Purpose \cup {"security_notification", "workspace_invitation"}, NEW r \in Nat,
             mails' = Append(old, MailRow(q, r)), Exists(q, r)', ~Ended(q, r)'
      PROVE  MailInv'
  <2>1. MailRow(q, r) \in MailT
    BY NewMail
  <2> DEFINE row == MailRow(q, r)
  <2>2. row \in MailT /\ mails' = Append(old, row)
    BY <1>7, <2>1
  <2> HIDE DEF row
  <2>3. /\ mails' \in Seq(MailT) /\ Len(mails') = Len(mails) + 1
        /\ DOMAIN mails' = DOMAIN mails \cup {Len(mails) + 1}
        /\ \A m \in DOMAIN mails : mails'[m] = old[m]
        /\ mails'[Len(mails) + 1] = row
    BY <1>2, <2>2, Appended
  <2>4. \A m \in DOMAIN mails' \ DOMAIN mails : mails'[m] = MailRow(q, r)
    BY <2>3 DEF row
  <2>5. Len(mails) <= Len(mails')
    BY <1>2, <2>3
  <2>6. \A m \in DOMAIN mails : mails'[m] = IF m \in killed THEN Dead(mails[m]) ELSE mails[m]
    BY <1>2, <2>3
  <2> QED
    BY <1>3, <1>4, <1>5, <1>7, <2>3, <2>4, <2>5, <2>6, ActionsKeep
<1> QED
  BY <1>6, <1>7 DEF old, MailsFollow

-----------------------------------------------------------------------------
(* Actions.                                                                *)

\* A row of a table that is written in place.
LEMMA Updated ==
  ASSUME NEW T, NEW s \in Seq(T), NEW i \in DOMAIN s, NEW x \in T
  PROVE  /\ [s EXCEPT ![i] = x] \in Seq(T) /\ Len([s EXCEPT ![i] = x]) = Len(s)
         /\ DOMAIN [s EXCEPT ![i] = x] = DOMAIN s
         /\ \A j \in DOMAIN s : [s EXCEPT ![i] = x][j] = IF j = i THEN x ELSE s[j]
  OBVIOUS

LEMMA KillsNothing == ASSUME mails \in Seq(MailT), NEW p PROVE Killed(p, {}) = mails
<1>1. MailsFor(p, {}) = {}
  BY DEF MailsFor
<1>2. Killed(p, {}) = [m \in DOMAIN mails |-> mails[m]]
  BY <1>1 DEF Killed
<1>3. mails = [m \in DOMAIN mails |-> mails[m]]
  OBVIOUS
<1> QED
  BY <1>2, <1>3

LEMMA RevokedTokens ==
  ASSUME tokens \in Seq(TokenT), NEW ts
  PROVE  /\ Revoked(ts) \in Seq(TokenT) /\ Len(Revoked(ts)) = Len(tokens)
         /\ DOMAIN Revoked(ts) = DOMAIN tokens
         /\ \A t \in DOMAIN tokens :
              /\ Revoked(ts)[t].state = IF t \in ts THEN "revoked" ELSE tokens[t].state
              /\ Revoked(ts)[t].purpose = tokens[t].purpose
              /\ Revoked(ts)[t].expired = tokens[t].expired
              /\ Revoked(ts)[t].failures = tokens[t].failures
<1> DEFINE row(t) == IF t \in ts THEN [tokens[t] EXCEPT !.state = "revoked"] ELSE tokens[t]
           f == [t \in DOMAIN tokens |-> row(t)]
<1>1. \A t \in DOMAIN tokens :
        /\ row(t) \in TokenT
        /\ row(t).state = IF t \in ts THEN "revoked" ELSE tokens[t].state
        /\ row(t).purpose = tokens[t].purpose
        /\ row(t).expired = tokens[t].expired
        /\ row(t).failures = tokens[t].failures
  <2>1. \A t \in DOMAIN tokens : tokens[t] \in TokenT
    OBVIOUS
  <2> QED
    BY <2>1 DEF TokenT
<1>2. Revoked(ts) = f
  BY DEF Revoked
<1> HIDE DEF row
<1>3. f \in [DOMAIN tokens -> TokenT] /\ \A t \in DOMAIN tokens : f[t] = row(t)
  BY <1>1
<1>4. f \in Seq(TokenT) /\ Len(f) = Len(tokens) /\ DOMAIN f = DOMAIN tokens
  BY <1>3, Mapped
<1> HIDE DEF f
<1> QED
  BY <1>1, <1>2, <1>3, <1>4

\* A new action of a purpose ends the one before, with its mail.
LEMMA StartActionKeeps ==
  ASSUME MailInv, NEW p \in Purpose, StartAction(p),
         account' \in {"none", "unverified", "verified"},
         UNCHANGED <<invites, membership, sender, faults>>
  PROVE  MailInv'
<1> DEFINE live == LiveTokens(p)
           rev == Revoked(live)
           row == TokenRow(p)
           n == Len(tokens) + 1
<1>1. /\ tokens' = Append(rev, row) /\ mails' = Append(Killed(p, live), MailRow(p, n))
      /\ membership' \in {"none", "active", "revoked"}
      /\ tokens \in Seq(TokenT) /\ invites \in Seq(InviteT) /\ invites' = invites
  BY DEF StartAction, MailInv, MailTypes
<1>2. /\ row \in TokenT /\ row.purpose = p /\ row.state = "live" /\ row.failures = 0
  BY MailConstants DEF TokenRow, TokenT
<1>3. /\ rev \in Seq(TokenT) /\ Len(rev) = Len(tokens) /\ DOMAIN rev = DOMAIN tokens
      /\ \A t \in DOMAIN tokens :
           /\ rev[t].state = IF t \in live THEN "revoked" ELSE tokens[t].state
           /\ rev[t].purpose = tokens[t].purpose
           /\ rev[t].expired = tokens[t].expired
           /\ rev[t].failures = tokens[t].failures
  BY <1>1, RevokedTokens
<1>4. \A t \in DOMAIN tokens : t \in live <=> tokens[t].purpose = p /\ tokens[t].state = "live"
  BY DEF LiveTokens
<1> HIDE DEF rev, row, live
<1>5. /\ tokens' \in Seq(TokenT) /\ DOMAIN tokens' = DOMAIN tokens \cup {n} /\ n \notin DOMAIN tokens
      /\ n \in Nat /\ tokens'[n] = row /\ \A t \in DOMAIN tokens : tokens'[t] = rev[t]
  BY <1>1, <1>2, <1>3, Appended
<1>6. OneLive'
  <2>1. ASSUME NEW s \in DOMAIN tokens', NEW t \in DOMAIN tokens', tokens'[s].state = "live",
               tokens'[t].state = "live", tokens'[s].purpose = tokens'[t].purpose
        PROVE  s = t
    <3>1. \A x \in DOMAIN tokens : tokens'[x].state = "live" =>
            x \notin live /\ tokens[x].state = "live" /\ tokens'[x].purpose = tokens[x].purpose
      BY <1>3, <1>5
    <3>2. \A x \in DOMAIN tokens : tokens'[x].state = "live" => tokens'[x].purpose # p
      BY <1>4, <3>1
    <3>3. CASE s \in DOMAIN tokens /\ t \in DOMAIN tokens
      BY <2>1, <3>1, <3>3 DEF MailInv, OneLive
    <3> QED
      BY <1>2, <1>5, <2>1, <3>2, <3>3
  <2>2. \A i, j \in LiveInvites' : i = j
    BY <1>1 DEF MailInv, OneLive, LiveInvites
  <2>3. ASSUME NEW t \in DOMAIN tokens', tokens'[t].state = "live" PROVE tokens'[t].failures < MaxFailures
    BY <1>2, <1>3, <1>5, <2>3, MailConstants DEF MailInv, OneLive
  <2> QED
    BY <2>1, <2>2, <2>3 DEF OneLive
<1>7. PICK k \in Nat : k = n
  BY <1>5
<1>8. Exists(p, k)' /\ ~Ended(p, k)'
  BY <1>2, <1>5, <1>7 DEF Exists, Ended, Purpose
<1>9. /\ p \in Purpose /\ p # "workspace_invitation" /\ DOMAIN tokens \subseteq DOMAIN tokens'
      /\ p \in Purpose \cup {"workspace_invitation"}
      /\ p \in Purpose \cup {"security_notification", "workspace_invitation"}
  BY <1>5 DEF Purpose
<1>10. EndsActions(p, live, live, {})
  <2>1. \A t \in DOMAIN tokens :
          /\ tokens'[t].purpose = tokens[t].purpose
          /\ t \in live => tokens'[t].state # "live"
          /\ t \notin live => tokens'[t].state = tokens[t].state /\ tokens'[t].expired = tokens[t].expired
    BY <1>3, <1>5
  <2>2. live \subseteq DOMAIN tokens
    BY DEF live, LiveTokens
  <2> QED
    BY <1>1, <1>4, <1>9, <2>1, <2>2 DEF EndsActions
<1>11. MailsFollow(p, live)
  BY <1>1, <1>7, <1>8, <1>9 DEF MailsFollow
<1>12. RowsFit'
  BY <1>1, <1>5, <1>6 DEF RowsFit
<1> QED
  BY <1>10, <1>11, <1>12, ActionStep

\* A token that is used is the only one of its purpose.
LEMMA ConfirmKeeps == ASSUME MailInv, NEW t \in DOMAIN tokens, Confirm(t) PROVE MailInv'
<1> DEFINE p == "email_verification"
           live == LiveTokens(p)
           rev == Revoked(live)
           row == [rev[t] EXCEPT !.state = "used"]
<1>1. /\ tokens \in Seq(TokenT) /\ invites' = invites /\ account' = "verified" /\ t \in live
      /\ invites \in Seq(InviteT) /\ membership' \in {"none", "active", "revoked"}
      /\ mails' = Killed(p, {t}) /\ tokens' = [rev EXCEPT ![t].state = "used"]
      /\ UNCHANGED <<sender, faults>>
  BY DEF Confirm, Usable, MailInv, MailTypes
<1>2. /\ rev \in Seq(TokenT) /\ DOMAIN rev = DOMAIN tokens
      /\ \A s \in DOMAIN tokens :
           /\ rev[s].state = IF s \in live THEN "revoked" ELSE tokens[s].state
           /\ rev[s].purpose = tokens[s].purpose
           /\ rev[s].expired = tokens[s].expired
           /\ rev[s].failures = tokens[s].failures
  BY <1>1, RevokedTokens
<1>3. \A s \in DOMAIN tokens : s \in live <=> s = t
  BY <1>1 DEF LiveTokens, MailInv, OneLive
<1> HIDE DEF rev, live
<1>4. rev[t] \in TokenT
  BY <1>2
<1>5. /\ row \in TokenT /\ row.state = "used" /\ row.purpose = rev[t].purpose
      /\ row.expired = rev[t].expired /\ row.failures = rev[t].failures
      /\ tokens' = [rev EXCEPT ![t] = row]
  <2>1. tokens' = [rev EXCEPT ![t] = row]
    BY <1>1, <1>2
  <2> QED
    BY <1>4, <2>1 DEF TokenT
<1> HIDE DEF row
<1>6. /\ tokens' \in Seq(TokenT) /\ DOMAIN tokens' = DOMAIN tokens
      /\ \A s \in DOMAIN tokens : tokens'[s] = IF s = t THEN row ELSE rev[s]
  BY <1>2, <1>5, Updated
<1>7. \A s \in DOMAIN tokens :
        /\ tokens'[s].purpose = tokens[s].purpose /\ tokens'[s].expired = tokens[s].expired
        /\ tokens'[s].failures = tokens[s].failures
        /\ s = t => tokens'[s].state = "used"
        /\ s # t => tokens'[s].state = tokens[s].state
  BY <1>2, <1>3, <1>5, <1>6
<1>8. OneLive'
  <2>1. \A s \in DOMAIN tokens' :
          tokens'[s].state = "live" => /\ tokens[s].state = "live" /\ s \in DOMAIN tokens
                                       /\ tokens'[s].purpose = tokens[s].purpose
                                       /\ tokens'[s].failures = tokens[s].failures
    BY <1>6, <1>7
  <2>2. LiveInvites' = LiveInvites
    BY <1>1 DEF LiveInvites
  <2> QED
    BY <2>1, <2>2 DEF MailInv, OneLive
<1>9. RowsFit'
  BY <1>1, <1>6, <1>8 DEF RowsFit
<1>10. EndsActions(p, {t}, {t}, {})
  <2>1. tokens[t].purpose = p
    BY <1>1 DEF live, LiveTokens
  <2> QED
    BY <1>1, <1>6, <1>7, <2>1 DEF EndsActions, Purpose
<1>11. MailsFollow(p, {t})
  BY <1>1 DEF MailsFollow
<1> QED
  BY <1>1, <1>9, <1>10, <1>11, ActionStep

\* A recovery that is used, or not used for a last time, ends with its mail.
LEMMA RecoveryEnds ==
  ASSUME MailInv, NEW t \in LiveTokens("password_recovery"), NEW row \in TokenT,
         row.state # "live", row.purpose = "password_recovery",
         tokens' = [tokens EXCEPT ![t] = row],
         \/ mails' = Killed("password_recovery", {t})
         \/ mails' = Append(Killed("password_recovery", {t}), MailRow("security_notification", 0)),
         UNCHANGED <<account, invites, membership, sender, faults>>
  PROVE  MailInv'
<1>1. /\ tokens \in Seq(TokenT) /\ invites \in Seq(InviteT) /\ t \in DOMAIN tokens
      /\ tokens[t].purpose = "password_recovery"
  BY DEF MailInv, MailTypes, LiveTokens
<1>2. /\ tokens' \in Seq(TokenT) /\ DOMAIN tokens' = DOMAIN tokens
      /\ \A s \in DOMAIN tokens : tokens'[s] = IF s = t THEN row ELSE tokens[s]
  BY <1>1, Updated
<1>3. OneLive'
  BY <1>1, <1>2 DEF MailInv, OneLive, LiveInvites
<1>4. RowsFit'
  BY <1>1, <1>2, <1>3 DEF RowsFit, MailInv, MailTypes
<1>5. EndsActions("password_recovery", {t}, {t}, {})
  BY <1>1, <1>2 DEF EndsActions, Purpose
<1>6. MailsFollow("password_recovery", {t})
  <2>1. Exists("security_notification", 0)' /\ ~Ended("security_notification", 0)'
    BY DEF Exists, Ended, Purpose
  <2> QED
    BY <2>1 DEF MailsFollow
<1> QED
  BY <1>4, <1>5, <1>6, ActionStep

\* A token that stays open.
LEMMA TokenStays ==
  ASSUME MailInv, NEW t \in DOMAIN tokens, NEW row \in TokenT,
         row.purpose = tokens[t].purpose, row.state = tokens[t].state,
         tokens[t].expired => row.expired, tokens[t].state = "live" => row.failures < MaxFailures,
         tokens' = [tokens EXCEPT ![t] = row],
         UNCHANGED <<account, invites, membership, mails, sender, faults>>
  PROVE  MailInv'
<1>1. tokens \in Seq(TokenT) /\ invites \in Seq(InviteT) /\ mails \in Seq(MailT)
  BY DEF MailInv, MailTypes
<1>2. /\ tokens' \in Seq(TokenT) /\ DOMAIN tokens' = DOMAIN tokens
      /\ \A s \in DOMAIN tokens : tokens'[s] = IF s = t THEN row ELSE tokens[s]
  BY <1>1, Updated
<1>3. OneLive'
  BY <1>1, <1>2 DEF MailInv, OneLive, LiveInvites
<1>4. RowsFit'
  BY <1>1, <1>2, <1>3 DEF RowsFit, MailInv, MailTypes
<1>5. EndsActions("password_recovery", {}, {}, {})
  BY <1>1, <1>2 DEF EndsActions, Purpose
<1>6. MailsFollow("password_recovery", {})
  BY <1>1, KillsNothing DEF MailsFollow
<1> QED
  BY <1>4, <1>5, <1>6, ActionStep

LEMMA CompleteKeeps == ASSUME MailInv, NEW t \in DOMAIN tokens, CompletePasswordRecovery(t) PROVE MailInv'
<1>1. /\ t \in LiveTokens("password_recovery") /\ tokens[t].state = "live"
      /\ tokens[t].purpose = "password_recovery" /\ tokens[t] \in TokenT
      /\ UNCHANGED <<account, invites, membership, sender, faults>>
      /\ tokens[t].failures < MaxFailures /\ tokens \in Seq(TokenT)
  BY DEF CompletePasswordRecovery, LiveTokens, MailInv, MailTypes, OneLive
<1>2. ASSUME NEW state \in {"used", "revoked"}, NEW notified \in BOOLEAN,
             EndRecovery(t, state, notified)
      PROVE  MailInv'
  <2> DEFINE k == IF notified /\ state = "revoked" THEN tokens[t].failures + 1 ELSE tokens[t].failures
             row == [tokens[t] EXCEPT !.state = state, !.failures = k]
  <2>1. k \in 0..MaxFailures
    BY <1>1, MailConstants DEF TokenT
  <2>2. tokens' = [tokens EXCEPT ![t] = row]
    BY <1>1, <1>2 DEF EndRecovery
  <2> HIDE DEF k
  <2>3. row \in TokenT /\ row.state = state /\ row.purpose = "password_recovery"
    BY <1>1, <2>1 DEF TokenT
  <2> HIDE DEF row
  <2>4. \/ mails' = Killed("password_recovery", {t})
        \/ mails' = Append(Killed("password_recovery", {t}), MailRow("security_notification", 0))
    BY <1>2 DEF EndRecovery, Notify
  <2> QED
    BY <1>1, <2>2, <2>3, <2>4, RecoveryEnds
<1>3. ASSUME WrongFactor(t), tokens[t].failures + 1 < MaxFailures PROVE MailInv'
  <2> DEFINE k == tokens[t].failures + 1
             row == [tokens[t] EXCEPT !.failures = k]
  <2>1. tokens' = [tokens EXCEPT ![t] = row] /\ UNCHANGED mails
    BY <1>1, <1>3 DEF WrongFactor
  <2>2. k \in 0..MaxFailures /\ k < MaxFailures
    BY <1>1, <1>3, MailConstants DEF TokenT
  <2> HIDE DEF k
  <2>3. /\ row \in TokenT /\ row.state = tokens[t].state /\ row.purpose = tokens[t].purpose
        /\ row.expired = tokens[t].expired /\ row.failures < MaxFailures
    BY <1>1, <2>2 DEF TokenT
  <2> HIDE DEF row
  <2> QED
    BY <1>1, <2>1, <2>3, TokenStays
<1> QED
  BY <1>2, <1>3 DEF CompletePasswordRecovery, WrongFactor

LEMMA TokenExpiresKeeps == ASSUME MailInv, NEW t \in DOMAIN tokens, TokenExpires(t) PROVE MailInv'
<1> DEFINE row == [tokens[t] EXCEPT !.expired = TRUE]
<1>1. /\ tokens \in Seq(TokenT) /\ tokens[t] \in TokenT /\ tokens' = [tokens EXCEPT ![t] = row]
      /\ UNCHANGED <<account, invites, membership, mails, sender, faults>>
      /\ tokens[t].state = "live" => tokens[t].failures < MaxFailures
  BY DEF TokenExpires, MailInv, MailTypes, OneLive
<1>2. /\ row \in TokenT /\ row.state = tokens[t].state /\ row.purpose = tokens[t].purpose
      /\ row.failures = tokens[t].failures /\ row.expired = TRUE
  BY <1>1 DEF TokenT
<1> HIDE DEF row
<1> QED
  BY <1>1, <1>2, TokenStays

\* Tokens do not change with invitations.
LEMMA OnlyInvites ==
  ASSUME MailInv, UNCHANGED tokens, invites' \in Seq(InviteT), \A i, j \in LiveInvites' : i = j,
         account' = account, membership' \in {"none", "active", "revoked"}
  PROVE  RowsFit'
  BY DEF MailInv, MailTypes, OneLive, RowsFit

LEMMA EndInviteKeeps ==
  ASSUME MailInv, NEW i \in DOMAIN invites, NEW status \in {"accepted", "revoked", "expired"},
         EndInvite(i, status), UNCHANGED <<account, tokens, sender, faults>>,
         membership' \in {"none", "active", "revoked"}
  PROVE  MailInv'
<1> DEFINE row == [invites[i] EXCEPT !.status = status]
<1>1. /\ invites \in Seq(InviteT) /\ invites[i] \in InviteT /\ invites' = [invites EXCEPT ![i] = row]
      /\ mails' = Killed("workspace_invitation", {i})
  BY DEF MailInv, MailTypes, EndInvite
<1>2. row \in InviteT /\ row.status = status
  BY <1>1 DEF InviteT
<1> HIDE DEF row
<1>3. /\ invites' \in Seq(InviteT) /\ DOMAIN invites' = DOMAIN invites
      /\ \A j \in DOMAIN invites : invites'[j] = IF j = i THEN row ELSE invites[j]
  BY <1>1, <1>2, Updated
<1>4. LiveInvites' \subseteq LiveInvites
  BY <1>2, <1>3 DEF LiveInvites
<1>5. RowsFit'
  BY <1>3, <1>4, OnlyInvites DEF MailInv, OneLive
<1>6. EndsActions("workspace_invitation", {i}, {}, {i})
  BY <1>2, <1>3 DEF EndsActions, Purpose
<1>7. MailsFollow("workspace_invitation", {i})
  BY <1>1 DEF MailsFollow
<1> QED
  BY <1>5, <1>6, <1>7, ActionStep

LEMMA AcceptKeeps == ASSUME MailInv, NEW i \in DOMAIN invites, AcceptInvite(i) PROVE MailInv'
<1>1. /\ EndInvite(i, "expired") \/ EndInvite(i, "accepted")
      /\ UNCHANGED <<account, tokens, sender, faults>>
      /\ membership' \in {"none", "active", "revoked"}
  BY DEF AcceptInvite, MailInv, MailTypes
<1> QED
  BY <1>1, EndInviteKeeps

LEMMA RevokeInviteKeeps == ASSUME MailInv, NEW i \in DOMAIN invites, RevokeInvite(i) PROVE MailInv'
<1>1. EndInvite(i, "revoked") /\ UNCHANGED <<account, tokens, membership, sender, faults>>
  BY DEF RevokeInvite
<1>2. membership' \in {"none", "active", "revoked"}
  BY <1>1 DEF MailInv, MailTypes
<1> QED
  BY <1>1, <1>2, EndInviteKeeps

LEMMA InviteExpiresKeeps == ASSUME MailInv, NEW i \in DOMAIN invites, InviteExpires(i) PROVE MailInv'
<1> DEFINE row == [invites[i] EXCEPT !.expired = TRUE]
<1>1. /\ invites \in Seq(InviteT) /\ invites[i] \in InviteT /\ invites' = [invites EXCEPT ![i] = row]
      /\ UNCHANGED <<account, tokens, membership, mails, sender, faults>> /\ mails \in Seq(MailT)
  BY DEF MailInv, MailTypes, InviteExpires
<1>2. row \in InviteT /\ row.status = invites[i].status /\ row.expired = TRUE
  BY <1>1 DEF InviteT
<1> HIDE DEF row
<1>3. /\ invites' \in Seq(InviteT) /\ DOMAIN invites' = DOMAIN invites
      /\ \A j \in DOMAIN invites : invites'[j] = IF j = i THEN row ELSE invites[j]
  BY <1>1, <1>2, Updated
<1>4. LiveInvites' \subseteq LiveInvites
  BY <1>2, <1>3 DEF LiveInvites
<1>5. RowsFit'
  BY <1>1, <1>3, <1>4, OnlyInvites DEF MailInv, MailTypes, OneLive
<1>6. EndsActions("workspace_invitation", {}, {}, {})
  BY <1>1, <1>2, <1>3 DEF EndsActions, Purpose
<1>7. MailsFollow("workspace_invitation", {})
  BY <1>1, KillsNothing DEF MailsFollow
<1> QED
  BY <1>1, <1>5, <1>6, <1>7, ActionStep

LEMMA RevokeMemberKeeps == ASSUME MailInv, RevokeMember PROVE MailInv'
<1>1. /\ UNCHANGED <<account, tokens, invites, mails, sender, faults>> /\ membership' = "revoked"
      /\ invites \in Seq(InviteT) /\ mails \in Seq(MailT)
  BY DEF MailInv, MailTypes, RevokeMember
<1>2. RowsFit'
  BY <1>1, OnlyInvites DEF MailInv, OneLive, LiveInvites
<1>3. EndsActions("workspace_invitation", {}, {}, {})
  BY <1>1 DEF EndsActions, Purpose
<1>4. MailsFollow("workspace_invitation", {})
  BY <1>1, KillsNothing DEF MailsFollow
<1> QED
  BY <1>1, <1>2, <1>3, <1>4, ActionStep

\* An invitation is written, or written anew, when no other one is open.
LEMMA CreateInviteKeeps == ASSUME MailInv, CreateInvite PROVE MailInv'
<1> DEFINE row == InviteRow(TRUE)
           n == Len(invites) + 1
<1>1. /\ invites \in Seq(InviteT) /\ mails \in Seq(MailT) /\ UNCHANGED <<account, tokens, sender, faults>>
      /\ membership' \in {"none", "active", "revoked"}
      /\ mails = Killed("workspace_invitation", {})
  BY KillsNothing DEF MailInv, MailTypes, CreateInvite
<1>2. row \in InviteT /\ row.status = "pending" /\ row.expired = FALSE
  BY DEF InviteRow, InviteT
<1>3. ASSUME LiveInvites = {}, invites' = Append(invites, row), mails' = Append(mails, InviteMail(n))
      PROVE  MailInv'
  <2> HIDE DEF row
  <2>1. /\ invites' \in Seq(InviteT) /\ DOMAIN invites' = DOMAIN invites \cup {n} /\ n \in Nat
        /\ invites'[n] = row /\ \A j \in DOMAIN invites : invites'[j] = invites[j]
    BY <1>1, <1>2, <1>3, Appended
  <2>2. \A i, j \in LiveInvites' : i = j
    BY <1>3, <2>1 DEF LiveInvites
  <2>3. RowsFit'
    BY <1>1, <2>1, <2>2, OnlyInvites
  <2>4. EndsActions("workspace_invitation", {}, {}, {})
    BY <1>1, <2>1 DEF EndsActions, Purpose
  <2>5. PICK k \in Nat : k = n
    BY <2>1
  <2>6. Exists("workspace_invitation", k)' /\ ~Ended("workspace_invitation", k)'
    BY <1>2, <2>1, <2>5 DEF Exists, Ended, Purpose
  <2>7. MailsFollow("workspace_invitation", {})
    BY <1>1, <1>3, <2>5, <2>6 DEF MailsFollow, InviteMail
  <2> QED
    BY <1>1, <2>3, <2>4, <2>7, ActionStep
<1>4. ASSUME NEW i \in LiveInvites, invites' = [invites EXCEPT ![i] = row],
             mails' = Append(mails, InviteMail(i))
      PROVE  MailInv'
  <2> HIDE DEF row
  <2>1. i \in DOMAIN invites /\ i \in Nat /\ invites[i].status = "pending" /\ ~invites[i].expired
    BY <1>1 DEF LiveInvites
  <2>2. /\ invites' \in Seq(InviteT) /\ DOMAIN invites' = DOMAIN invites
        /\ \A j \in DOMAIN invites : invites'[j] = IF j = i THEN row ELSE invites[j]
    BY <1>1, <1>2, <1>4, <2>1, Updated
  <2>3. LiveInvites' \subseteq LiveInvites
    BY <2>1, <2>2 DEF LiveInvites
  <2>4. RowsFit'
    BY <1>1, <2>2, <2>3, OnlyInvites DEF MailInv, OneLive
  <2>5. EndsActions("workspace_invitation", {}, {}, {})
    BY <1>1, <1>2, <2>1, <2>2 DEF EndsActions, Purpose
  <2>6. Exists("workspace_invitation", i)' /\ ~Ended("workspace_invitation", i)'
    BY <1>2, <2>1, <2>2 DEF Exists, Ended, Purpose
  <2>7. MailsFollow("workspace_invitation", {})
    BY <1>1, <1>4, <2>1, <2>6 DEF MailsFollow, InviteMail
  <2> QED
    BY <1>1, <2>4, <2>5, <2>7, ActionStep
<1> QED
  BY <1>3, <1>4 DEF CreateInvite

-----------------------------------------------------------------------------
(* Delivery.                                                               *)

\* A step of one mail.
LEMMA DeliveryKeeps ==
  ASSUME MailInv, UNCHANGED actionVars, NEW m \in DOMAIN mails, NEW row \in MailT,
         row.purpose = mails[m].purpose, row.ref = mails[m].ref, RowIsSound(row),
         m \notin Unreadable /\ row.status = "dead" => ~Deliverable(row.purpose, row.ref),
         mails' = [mails EXCEPT ![m] = row],
         sender' \in [Sender -> [mail : 0..Len(mails), answer : Replies]], faults' \in 0..MaxFaults,
         \A w \in Sender : sender'[w].mail = 0 => sender'[w].answer = "none",
         \A x \in DOMAIN mails : x # m => Trying(x)' = Trying(x),
         row.accepted + Cardinality(Trying(m)') <= row.lapses + Spare(row)
  PROVE  MailInv'
<1>1. /\ mails \in Seq(MailT) /\ mails' \in Seq(MailT) /\ Len(mails') = Len(mails)
      /\ DOMAIN mails' = DOMAIN mails
      /\ \A x \in DOMAIN mails : mails'[x] = IF x = m THEN row ELSE mails[x]
  <2>1. mails \in Seq(MailT)
    BY DEF MailInv, MailTypes
  <2> QED
    BY <2>1, Updated
<1>2. tokens' = tokens /\ invites' = invites /\ account' = account /\ membership' = membership
  BY DEF actionVars
<1>3. MailTypes'
  <2>1. sender' \in [Sender -> [mail : 0..Len(mails'), answer : Replies]]
    BY <1>1
  <2> QED
    BY <1>1, <1>2, <2>1 DEF MailInv, MailTypes
<1>4. OneLive'
  BY <1>2 DEF MailInv, OneLive, LiveInvites
<1>5. ASSUME NEW x \in DOMAIN mails' PROVE RowIsSound(mails[x])' /\ SentOnce(x)'
  <2>1. CASE x = m
    <3>1. mails'[x] = row
      BY <1>1, <2>1
    <3>2. RowIsSound(mails[x])'
      BY <1>2, <3>1 DEF RowIsSound, Exists, Ended
    <3>3. SentOnce(x)'
      BY <2>1, <3>1 DEF SentOnce, Spare
    <3> QED
      BY <3>2, <3>3
  <2>2. CASE x # m
    <3>1. mails'[x] = mails[x] /\ x \in DOMAIN mails /\ Trying(x)' = Trying(x)
      BY <1>1, <2>2
    <3>2. RowIsSound(mails[x]) /\ SentOnce(x)
      BY <3>1 DEF MailInv
    <3>3. RowIsSound(mails[x])'
      BY <1>2, <3>1, <3>2 DEF RowIsSound, Exists, Ended
    <3>4. SentOnce(x)'
      BY <3>1, <3>2 DEF SentOnce, Spare
    <3> QED
      BY <3>3, <3>4
  <2> QED
    BY <2>1, <2>2
<1>6. ASSUME NEW x \in DOMAIN mails' \ Unreadable, mails'[x].status = "dead"
      PROVE  ~Deliverable(mails[x].purpose, mails[x].ref)'
  <2>1. ~Deliverable(mails'[x].purpose, mails'[x].ref)
    BY <1>1, <1>6 DEF MailInv
  <2> QED
    BY <1>2, <2>1 DEF Deliverable, LiveTokens, LiveInvites
<1> QED
  BY <1>3, <1>4, <1>5, <1>6 DEF MailInv

\* A worker that leaves its mail as it is.
LEMMA SendersLeave ==
  ASSUME MailInv, UNCHANGED <<actionVars, mails>>, NEW w \in Sender,
         sender' = [sender EXCEPT ![w] = Free], faults' \in 0..MaxFaults
  PROVE  MailInv'
<1>1. /\ tokens' = tokens /\ invites' = invites /\ account' = account /\ membership' = membership
      /\ mails' = mails /\ mails \in Seq(MailT)
      /\ sender \in [Sender -> [mail : 0..Len(mails), answer : Replies]]
  BY DEF actionVars, MailInv, MailTypes
<1>2. Free \in [mail : 0..Len(mails), answer : Replies] /\ Free.mail = 0 /\ Free.answer = "none"
  BY <1>1 DEF Free, Replies
<1>3. \A v \in Sender : sender'[v] = IF v = w THEN Free ELSE sender[v]
  BY <1>1
<1>4. MailTypes' /\ OneLive'
  <2>1. sender' \in [Sender -> [mail : 0..Len(mails), answer : Replies]]
    BY <1>1, <1>2
  <2> QED
    BY <1>1, <2>1 DEF MailInv, MailTypes, OneLive, LiveInvites
<1>5. ASSUME NEW x \in DOMAIN mails' PROVE RowIsSound(mails[x])' /\ SentOnce(x)'
  <2>1. RowIsSound(mails[x]) /\ SentOnce(x) /\ x # 0 /\ mails[x] \in MailT
    BY <1>1 DEF MailInv
  <2>2. Trying(x)' \subseteq Trying(x)
    BY <1>2, <1>3, <2>1 DEF Trying
  <2>3. /\ IsFiniteSet(Trying(x)') /\ Cardinality(Trying(x)') \in Nat
        /\ Cardinality(Trying(x)') <= Cardinality(Trying(x)) /\ Cardinality(Trying(x)) \in Nat
    BY <2>2, TryingIsFinite, FS_Subset, FS_CardinalityType
  <2>4. SentOnce(x)'
    <3> DEFINE a == mails[x].accepted
               l == mails[x].lapses + Spare(mails[x])
    <3>1. a \in Nat /\ l \in Nat /\ a + Cardinality(Trying(x)) <= l
      BY <2>1 DEF MailT, SentOnce, Spare
    <3> HIDE DEF a, l
    <3>2. a + Cardinality(Trying(x)') <= l
      BY <2>3, <3>1
    <3> QED
      BY <1>1, <3>2 DEF SentOnce, Spare, a, l
  <2>5. RowIsSound(mails[x])'
    BY <1>1, <2>1 DEF RowIsSound, Exists, Ended
  <2> QED
    BY <2>4, <2>5
<1>6. ASSUME NEW x \in DOMAIN mails' \ Unreadable, mails'[x].status = "dead"
      PROVE  ~Deliverable(mails[x].purpose, mails[x].ref)'
  BY <1>1, <1>6 DEF MailInv, Deliverable, LiveTokens, LiveInvites
<1>7. \A v \in Sender : sender'[v].mail = 0 => sender'[v].answer = "none"
  BY <1>2, <1>3 DEF MailInv
<1> QED
  BY <1>4, <1>5, <1>6, <1>7 DEF MailInv

\* What is known of a mail that is there.
LEMMA MailFacts ==
  ASSUME MailInv, NEW m \in DOMAIN mails
  PROVE  /\ mails \in Seq(MailT) /\ mails[m] \in MailT /\ m \in 1..Len(mails) /\ m # 0
         /\ RowIsSound(mails[m]) /\ SentOnce(m)
         /\ mails[m].accepted \in Nat /\ mails[m].lapses \in Nat /\ mails[m].attempts \in Nat
         /\ IsFiniteSet(Trying(m)) /\ Cardinality(Trying(m)) \in Nat
         /\ sender \in [Sender -> [mail : 0..Len(mails), answer : Replies]]
         /\ \A w \in Sender : sender[w].mail = 0 => sender[w].answer = "none"
<1>1. mails \in Seq(MailT) /\ sender \in [Sender -> [mail : 0..Len(mails), answer : Replies]]
  BY DEF MailInv, MailTypes
<1>2. mails[m] \in MailT /\ m \in 1..Len(mails) /\ m # 0
  BY <1>1
<1>3. mails[m].accepted \in Nat /\ mails[m].lapses \in Nat /\ mails[m].attempts \in Nat
  BY <1>2 DEF MailT
<1> QED
  BY <1>1, <1>2, <1>3, TryingIsFinite DEF MailInv

LEMMA LeaseKeeps ==
  ASSUME MailInv, NEW w \in Sender, NEW m \in DOMAIN mails, LeaseNext(w, m) PROVE MailInv'
<1>1. /\ mails \in Seq(MailT) /\ mails[m] \in MailT /\ m \in 1..Len(mails) /\ m # 0
      /\ RowIsSound(mails[m]) /\ SentOnce(m)
      /\ mails[m].accepted \in Nat /\ mails[m].lapses \in Nat /\ mails[m].attempts \in Nat
      /\ IsFiniteSet(Trying(m)) /\ Cardinality(Trying(m)) \in Nat
      /\ sender \in [Sender -> [mail : 0..Len(mails), answer : Replies]]
      /\ \A v \in Sender : sender[v].mail = 0 => sender[v].answer = "none"
  BY MailFacts
<1>2. /\ sender[w] = Free /\ Leasable(m) /\ UNCHANGED <<actionVars, faults>> /\ faults \in 0..MaxFaults
  BY DEF LeaseNext, MailInv, MailTypes
<1>3. ASSUME ActionIsDeliverable(mails[m]),
             mails' = [mails EXCEPT ![m].status = "leased", ![m].lapsed = FALSE,
                                    ![m].attempts = @ + 1],
             sender' = [sender EXCEPT ![w] = [mail |-> m, answer |-> "none"]]
      PROVE  MailInv'
  <2> DEFINE k == mails[m].attempts + 1
             row == [mails[m] EXCEPT !.status = "leased", !.lapsed = FALSE, !.attempts = k]
             held == [mail |-> m, answer |-> "none"]
  <2>1. mails' = [mails EXCEPT ![m] = row]
    BY <1>1, <1>3
  <2>2. k \in Nat
    BY <1>1
  <2>3. k <= MaxAttempts + mails[m].lapses
    <3>1. mails[m].attempts < MaxAttempts + mails[m].lapses
      BY <1>1, <1>2, MailConstants DEF Leasable, RowIsSound
    <3> QED
      BY <1>1, <3>1, MailConstants
  <2> HIDE DEF k
  <2>4. /\ row \in MailT /\ row.purpose = mails[m].purpose /\ row.ref = mails[m].ref
        /\ row.status = "leased" /\ row.lapsed = FALSE /\ row.attempts = k
        /\ row.accepted = mails[m].accepted /\ row.lapses = mails[m].lapses
    BY <1>1, <2>2 DEF MailT
  <2> HIDE DEF row
  <2>5. ~Ended(mails[m].purpose, mails[m].ref)
    BY <1>1, <1>3, DeliverableIs DEF Deliverable, Ended, LiveTokens, LiveInvites
  <2>6. RowIsSound(row)
    BY <1>1, <2>3, <2>4, <2>5 DEF RowIsSound
  <2>7. held \in [mail : 0..Len(mails), answer : Replies] /\ held.mail = m /\ held.answer = "none"
    BY <1>1 DEF Replies
  <2> HIDE DEF held
  <2>8. /\ sender' \in [Sender -> [mail : 0..Len(mails), answer : Replies]]
        /\ \A v \in Sender : sender'[v] = IF v = w THEN held ELSE sender[v]
    BY <1>1, <1>3, <2>7 DEF held
  <2>9. sender[w].mail = 0
    BY <1>2 DEF Free
  <2>10. Trying(m)' = Trying(m) \cup {w} /\ w \notin Trying(m)
    BY <1>1, <2>7, <2>8, <2>9 DEF Trying
  <2>11. \A x \in DOMAIN mails : x # m => Trying(x)' = Trying(x)
    <3>1. ASSUME NEW x \in DOMAIN mails, x # m, NEW v \in Sender
          PROVE  (sender'[v].mail = x /\ sender'[v].answer # "accepted")
                   <=> (sender[v].mail = x /\ sender[v].answer # "accepted")
      <4>1. CASE v = w
        <5>1. sender'[v].mail = m /\ sender[v].mail = 0
          BY <2>7, <2>8, <2>9, <4>1
        <5>2. x # 0
          BY <1>1, <3>1
        <5> QED
          BY <3>1, <5>1, <5>2
      <4>2. CASE v # w
        BY <2>8, <4>2
      <4> QED
        BY <4>1, <4>2
    <3> QED
      BY <3>1 DEF Trying
  <2>12. Cardinality(Trying(m)') = Cardinality(Trying(m)) + 1
    BY <1>1, <2>10, FS_AddElement
  <2>13. row.accepted + Cardinality(Trying(m)') <= row.lapses + Spare(row)
    <3>1. Spare(row) = 1 /\ Spare(mails[m]) = 0
      BY <1>1, <1>2, <2>4 DEF Spare, Leasable, RowIsSound
    <3> QED
      BY <1>1, <2>4, <2>12, <3>1 DEF SentOnce
  <2>14. \A v \in Sender : sender'[v].mail = 0 => sender'[v].answer = "none"
    BY <1>1, <2>7, <2>8
  <2> QED
    BY <1>2, <2>1, <2>4, <2>6, <2>8, <2>11, <2>13, <2>14, DeliveryKeeps
<1>4. ASSUME ~(ActionIsDeliverable(mails[m]) /\ m \notin Unreadable),
             mails' = [mails EXCEPT ![m] = Dead(@)], UNCHANGED sender
      PROVE  MailInv'
  <2> DEFINE row == Dead(mails[m])
  <2>1. mails' = [mails EXCEPT ![m] = row]
    BY <1>1, <1>4
  <2>2. /\ row \in MailT /\ row.purpose = mails[m].purpose /\ row.ref = mails[m].ref
        /\ row.status = "dead" /\ row.lapsed = FALSE /\ row.attempts = mails[m].attempts
        /\ row.accepted = mails[m].accepted /\ row.lapses = mails[m].lapses
    BY <1>1, DeadRow
  <2> HIDE DEF row
  <2>3. RowIsSound(row)
    BY <1>1, <2>2 DEF RowIsSound, FinalStatus
  <2>4. m \notin Unreadable => ~Deliverable(row.purpose, row.ref)
    BY <1>1, <1>4, <2>2, DeliverableIs
  <2>5. \A x : Trying(x)' = Trying(x)
    BY <1>4 DEF Trying
  <2>6. row.accepted + Cardinality(Trying(m)') <= row.lapses + Spare(row)
    <3>1. Spare(row) = 1 /\ Spare(mails[m]) \in {0, 1}
      BY <2>2 DEF Spare
    <3> QED
      BY <1>1, <2>2, <2>5, <3>1, AtMostOneMore DEF SentOnce
  <2> QED
    BY <1>1, <1>2, <1>4, <2>1, <2>2, <2>3, <2>4, <2>5, <2>6, DeliveryKeeps
<1> QED
  BY <1>3, <1>4 DEF LeaseNext

LEMMA SendKeeps ==
  ASSUME MailInv, NEW w \in Sender, NEW answer \in {"accepted", "retryable", "refused"},
         Send(w, answer), NEW m, m = sender[w].mail
  PROVE  MailInv'
<1> DEFINE k == IF answer = "accepted" THEN mails[m].accepted + 1 ELSE mails[m].accepted
           row == [mails[m] EXCEPT !.accepted = k]
           held == [sender[w] EXCEPT !.answer = answer]
<1>1. m \in DOMAIN mails
  BY DEF Send, MailInv, MailTypes
<1>2. /\ mails \in Seq(MailT) /\ mails[m] \in MailT /\ m \in 1..Len(mails) /\ m # 0
      /\ RowIsSound(mails[m]) /\ SentOnce(m)
      /\ mails[m].accepted \in Nat /\ mails[m].lapses \in Nat /\ mails[m].attempts \in Nat
      /\ IsFiniteSet(Trying(m)) /\ Cardinality(Trying(m)) \in Nat
      /\ sender \in [Sender -> [mail : 0..Len(mails), answer : Replies]]
      /\ \A v \in Sender : sender[v].mail = 0 => sender[v].answer = "none"
  BY <1>1, MailFacts
<1>3. /\ sender[w].answer = "none" /\ UNCHANGED <<actionVars, faults>> /\ faults \in 0..MaxFaults
      /\ sender' = [sender EXCEPT ![w] = held] /\ mails' = [mails EXCEPT ![m] = row]
  BY <1>1, <1>2 DEF Send, MailInv, MailTypes
<1>4. k \in Nat
  BY <1>2
<1> HIDE DEF k
<1>5. /\ row \in MailT /\ row.purpose = mails[m].purpose /\ row.ref = mails[m].ref
      /\ row.status = mails[m].status /\ row.lapsed = mails[m].lapsed /\ row.attempts = mails[m].attempts
      /\ row.accepted = k /\ row.lapses = mails[m].lapses
  BY <1>2, <1>4 DEF MailT
<1>6. held \in [mail : 0..Len(mails), answer : Replies] /\ held.mail = m /\ held.answer = answer
  BY <1>2 DEF Replies
<1> HIDE DEF row, held
<1>7. RowIsSound(row)
  BY <1>2, <1>5 DEF RowIsSound
<1>8. m \notin Unreadable /\ row.status = "dead" => ~Deliverable(row.purpose, row.ref)
  BY <1>1, <1>5 DEF MailInv
<1>9. /\ sender' \in [Sender -> [mail : 0..Len(mails), answer : Replies]]
      /\ \A v \in Sender : sender'[v] = IF v = w THEN held ELSE sender[v]
  BY <1>2, <1>3, <1>6
<1>10. \A v \in Sender : sender'[v].mail = 0 => sender'[v].answer = "none"
  BY <1>2, <1>6, <1>9
<1>11. w \in Trying(m) /\ \A x : x # m => Trying(x)' = Trying(x)
  BY <1>3, <1>6, <1>9 DEF Trying
<1>12. row.accepted + Cardinality(Trying(m)') <= row.lapses + Spare(row)
  <2>1. Spare(row) = Spare(mails[m])
    BY <1>5 DEF Spare
  <2>2. mails[m].accepted + Cardinality(Trying(m)) <= mails[m].lapses + Spare(mails[m])
    BY <1>2 DEF SentOnce
  <2>3. CASE answer = "accepted"
    <3>1. Trying(m)' = Trying(m) \ {w}
      BY <1>3, <1>6, <1>9, <1>11, <2>3 DEF Trying
    <3>2. Cardinality(Trying(m)') = Cardinality(Trying(m)) - 1
      <4>1. \A T : IsFiniteSet(T) /\ w \in T => Cardinality(T \ {w}) = Cardinality(T) - 1
        BY FS_RemoveElement
      <4>2. Cardinality(Trying(m) \ {w}) = Cardinality(Trying(m)) - 1
        BY <1>2, <1>11, <4>1
      <4> QED
        BY <3>1, <4>2
    <3>3. k = mails[m].accepted + 1
      BY <2>3 DEF k
    <3>4. k + Cardinality(Trying(m)') = mails[m].accepted + Cardinality(Trying(m))
      <4> DEFINE a == mails[m].accepted
                 c == Cardinality(Trying(m))
                 d == Cardinality(Trying(m)')
      <4>1. a \in Nat /\ c \in Nat /\ k = a + 1 /\ d = c - 1
        BY <1>2, <3>2, <3>3
      <4> HIDE DEF a, c, d
      <4>2. k + d = a + c
        BY <4>1
      <4> QED
        BY <4>2 DEF a, c, d
    <3> QED
      BY <1>5, <2>1, <2>2, <3>4
  <2>4. CASE answer # "accepted"
    <3>1. Trying(m)' = Trying(m)
      BY <1>3, <1>6, <1>9, <1>11, <2>4 DEF Trying
    <3>2. k = mails[m].accepted
      BY <2>4 DEF k
    <3> QED
      BY <1>5, <2>1, <2>2, <3>1, <3>2
  <2> QED
    BY <2>3, <2>4
<1> QED
  BY <1>1, <1>3, <1>5, <1>7, <1>8, <1>9, <1>10, <1>11, <1>12, DeliveryKeeps

LEMMA FinishKeeps ==
  ASSUME MailInv, NEW w \in Sender, Finish(w), NEW m, m = sender[w].mail PROVE MailInv'
<1> DEFINE answer == sender[w].answer
<1>1. m \in DOMAIN mails
  BY DEF Finish, MailInv, MailTypes
<1>2. /\ mails \in Seq(MailT) /\ mails[m] \in MailT /\ m \in 1..Len(mails) /\ m # 0
      /\ RowIsSound(mails[m]) /\ SentOnce(m)
      /\ mails[m].accepted \in Nat /\ mails[m].lapses \in Nat /\ mails[m].attempts \in Nat
      /\ IsFiniteSet(Trying(m)) /\ Cardinality(Trying(m)) \in Nat
      /\ sender \in [Sender -> [mail : 0..Len(mails), answer : Replies]]
      /\ \A v \in Sender : sender[v].mail = 0 => sender[v].answer = "none"
  BY <1>1, MailFacts
<1>3. /\ answer \in {"accepted", "retryable", "refused"} /\ UNCHANGED <<actionVars, faults>>
      /\ faults \in 0..MaxFaults /\ sender' = [sender EXCEPT ![w] = Free]
  BY <1>2 DEF Finish, MailInv, MailTypes, Replies
<1>4. CASE mails[m].status # "leased"
  <2>1. UNCHANGED mails
    BY <1>4 DEF Finish
  <2> QED
    BY <1>3, <2>1, SendersLeave
<1>5. CASE mails[m].status = "leased"
  <2> DEFINE row == Settled(mails[m], answer)
  <2>1. mails' = [mails EXCEPT ![m] = row]
    BY <1>2, <1>5 DEF Finish
  <2>2. /\ row \in MailT /\ row.purpose = mails[m].purpose /\ row.ref = mails[m].ref
        /\ row.lapsed = FALSE /\ row.attempts = mails[m].attempts
        /\ row.accepted = mails[m].accepted /\ row.lapses = mails[m].lapses
        /\ row.status \in {"pending", "sent", "failed"}
        /\ row.status = "pending" => answer # "accepted" /\ mails[m].attempts < MaxAttempts
    BY <1>2, <1>3 DEF Settled, MailT, FinalStatus
  <2> HIDE DEF row
  <2>3. ~Ended(mails[m].purpose, mails[m].ref)
    BY <1>2, <1>5 DEF RowIsSound, FinalStatus
  <2>4. RowIsSound(row)
    BY <1>2, <2>2, <2>3 DEF RowIsSound
  <2>5. Free \in [mail : 0..Len(mails), answer : Replies] /\ Free.mail = 0 /\ Free.answer = "none"
    BY <1>2 DEF Free, Replies
  <2>6. /\ sender' \in [Sender -> [mail : 0..Len(mails), answer : Replies]]
        /\ \A v \in Sender : sender'[v] = IF v = w THEN Free ELSE sender[v]
    BY <1>2, <1>3, <2>5
  <2>7. \A x \in DOMAIN mails : x # m => Trying(x)' = Trying(x)
    <3>1. \A x \in DOMAIN mails : x # 0
      BY <1>2
    <3> QED
      BY <2>5, <2>6, <3>1 DEF Trying
  <2>8. Trying(m)' = Trying(m) \ {w} /\ (answer # "accepted" => w \in Trying(m))
    BY <1>2, <2>5, <2>6 DEF Trying
  <2>9. row.accepted + Cardinality(Trying(m)') <= row.lapses + Spare(row)
    <3> DEFINE a == mails[m].accepted
               l == mails[m].lapses
               c == Cardinality(Trying(m))
               d == Cardinality(Trying(m)')
               s == Spare(mails[m])
               z == Spare(row)
    <3>1. a \in Nat /\ l \in Nat /\ c \in Nat /\ a + c <= l + s /\ s \in {0, 1} /\ z \in {0, 1}
      BY <1>2 DEF SentOnce, Spare
    <3>2. z = 0 => row.status = "pending"
      BY <2>2 DEF Spare
    <3>3. d \in Nat /\ d <= c /\ (answer # "accepted" => d = c - 1)
      <4>1. \A T : IsFiniteSet(T) =>
              /\ w \in T => Cardinality(T \ {w}) = Cardinality(T) - 1
              /\ w \notin T => Cardinality(T \ {w}) = Cardinality(T)
        BY FS_RemoveElement
      <4>2. \A T : IsFiniteSet(T) => IsFiniteSet(T \ {w}) /\ Cardinality(T \ {w}) \in Nat
        BY FS_RemoveElement, FS_CardinalityType
      <4>3. d = Cardinality(Trying(m) \ {w})
        BY <2>8
      <4>4. d \in Nat /\ (w \in Trying(m) => d = c - 1) /\ (w \notin Trying(m) => d = c)
        BY <1>2, <4>1, <4>2, <4>3
      <4> HIDE DEF c, d
      <4> QED
        BY <2>8, <3>1, <4>4
    <3> HIDE DEF a, l, c, d, s, z
    <3>4. a + d <= l + z
      BY <2>2, <3>1, <3>2, <3>3
    <3> QED
      BY <2>2, <3>4 DEF a, l, c, d, s, z
  <2>10. row.status # "dead"
    BY <2>2
  <2>11. \A v \in Sender : sender'[v].mail = 0 => sender'[v].answer = "none"
    BY <1>2, <2>5, <2>6
  <2>12. faults' \in 0..MaxFaults /\ UNCHANGED actionVars
    BY <1>3
  <2> QED
    BY <1>1, <2>1, <2>2, <2>4, <2>6, <2>7, <2>9, <2>10, <2>11, <2>12, DeliveryKeeps
<1> QED
  BY <1>4, <1>5

\* A mail comes due, or its lease runs out.
LEMMA TimeKeeps ==
  ASSUME MailInv, NEW m \in DOMAIN mails, MailComesDue(m) \/ LeaseExpires(m) PROVE MailInv'
<1>1. /\ mails \in Seq(MailT) /\ mails[m] \in MailT /\ m \in 1..Len(mails) /\ m # 0
      /\ RowIsSound(mails[m]) /\ SentOnce(m)
      /\ mails[m].accepted \in Nat /\ mails[m].lapses \in Nat /\ mails[m].attempts \in Nat
      /\ IsFiniteSet(Trying(m)) /\ Cardinality(Trying(m)) \in Nat
      /\ sender \in [Sender -> [mail : 0..Len(mails), answer : Replies]]
      /\ \A v \in Sender : sender[v].mail = 0 => sender[v].answer = "none"
  BY MailFacts
<1>2. /\ UNCHANGED <<actionVars, sender>> /\ faults' \in 0..MaxFaults
      /\ \A x : Trying(x)' = Trying(x)
  BY MailConstants DEF MailComesDue, LeaseExpires, MailInv, MailTypes, Trying
<1>3. ASSUME NEW row \in MailT, mails' = [mails EXCEPT ![m] = row],
             row.purpose = mails[m].purpose, row.ref = mails[m].ref, RowIsSound(row),
             row.status \in {"pending", "leased"},
             row.accepted + Cardinality(Trying(m)) <= row.lapses + Spare(row)
      PROVE  MailInv'
  BY <1>1, <1>2, <1>3, DeliveryKeeps
<1>4. CASE MailComesDue(m)
  <2> DEFINE row == [mails[m] EXCEPT !.due = TRUE]
  <2>1. mails' = [mails EXCEPT ![m] = row] /\ mails[m].status = "pending"
    BY <1>4 DEF MailComesDue
  <2>2. /\ row \in MailT /\ row.purpose = mails[m].purpose /\ row.ref = mails[m].ref
        /\ row.status = mails[m].status /\ row.lapsed = mails[m].lapsed
        /\ row.attempts = mails[m].attempts /\ row.accepted = mails[m].accepted
        /\ row.lapses = mails[m].lapses
    BY <1>1 DEF MailT
  <2> HIDE DEF row
  <2> QED
    BY <1>1, <1>3, <2>1, <2>2 DEF RowIsSound, SentOnce, Spare
<1>5. CASE LeaseExpires(m)
  <2> DEFINE k == mails[m].lapses + 1
             row == [mails[m] EXCEPT !.lapsed = TRUE, !.lapses = k]
  <2>1. /\ mails' = [mails EXCEPT ![m] = row] /\ mails[m].status = "leased" /\ ~mails[m].lapsed
    BY <1>1, <1>5 DEF LeaseExpires
  <2>2. k \in Nat /\ k = mails[m].lapses + 1
    BY <1>1
  <2> HIDE DEF k
  <2>3. /\ row \in MailT /\ row.purpose = mails[m].purpose /\ row.ref = mails[m].ref
        /\ row.status = mails[m].status /\ row.lapsed = TRUE
        /\ row.attempts = mails[m].attempts /\ row.accepted = mails[m].accepted
        /\ row.lapses = k
    BY <1>1, <2>2 DEF MailT
  <2> HIDE DEF row
  <2>4. row.attempts < MaxAttempts + row.lapses
    BY <1>1, <2>2, <2>3, MailConstants DEF RowIsSound
  <2>5. row.accepted + Cardinality(Trying(m)) <= row.lapses + Spare(row)
    <3>1. Spare(mails[m]) = 1 /\ Spare(row) = 0
      BY <2>1, <2>3 DEF Spare
    <3>2. mails[m].accepted + Cardinality(Trying(m)) <= mails[m].lapses + 1
      BY <1>1, <3>1 DEF SentOnce
    <3> QED
      BY <1>1, <2>2, <2>3, <3>1, <3>2
  <2>6. RowIsSound(row)
    <3>1. row.attempts <= MaxAttempts + row.lapses
      BY <1>1, <2>2, <2>3, <2>4, MailConstants
    <3> QED
      BY <1>1, <2>1, <2>3, <2>4, <3>1 DEF RowIsSound
  <2> QED
    BY <1>3, <2>1, <2>3, <2>5, <2>6
<1> QED
  BY <1>4, <1>5

\* Every step keeps the invariant.
LEMMA MailInvStep == ASSUME MailInv, [MailNext]_mailVars PROVE MailInv'
<1>1. ASSUME StartRegistration PROVE MailInv'
  BY <1>1, StartActionKeeps DEF StartRegistration, Purpose
<1>2. ASSUME StartPasswordRecovery PROVE MailInv'
  <2>1. account' \in {"none", "unverified", "verified"}
    BY <1>2 DEF StartPasswordRecovery, MailInv, MailTypes
  <2> QED
    BY <1>2, <2>1, StartActionKeeps DEF StartPasswordRecovery, Purpose
<1>3. ASSUME NEW t \in DOMAIN tokens, Confirm(t) \/ CompletePasswordRecovery(t) PROVE MailInv'
  BY <1>3, ConfirmKeeps, CompleteKeeps
<1>4. ASSUME CreateInvite \/ RevokeMember PROVE MailInv'
  BY <1>4, CreateInviteKeeps, RevokeMemberKeeps
<1>5. ASSUME NEW i \in DOMAIN invites, AcceptInvite(i) \/ RevokeInvite(i) PROVE MailInv'
  BY <1>5, AcceptKeeps, RevokeInviteKeeps
<1>6. ASSUME NEW w \in Sender, Deliver(w) PROVE MailInv'
  <2>1. PICK m : m = sender[w].mail
    OBVIOUS
  <2> QED
    BY <1>6, <2>1, LeaseKeeps, SendKeeps, FinishKeeps DEF Deliver
<1>7. ASSUME NEW w \in Sender, SenderCrash(w) PROVE MailInv'
  <2>1. faults' \in 0..MaxFaults
    BY <1>7, MailConstants DEF SenderCrash, MailInv, MailTypes
  <2> QED
    BY <1>7, <2>1, SendersLeave DEF SenderCrash
<1>8. ASSUME TimePasses PROVE MailInv'
  BY <1>8, TokenExpiresKeeps, InviteExpiresKeeps, TimeKeeps DEF TimePasses
<1>9. ASSUME UNCHANGED mailVars PROVE MailInv'
  <2>1. UNCHANGED <<account, tokens, invites, membership, mails, sender, faults>>
    BY <1>9 DEF mailVars
  <2>2. MailTypes' /\ OneLive'
    BY <2>1 DEF MailInv, MailTypes, OneLive, LiveInvites
  <2>3. ASSUME NEW m \in DOMAIN mails' PROVE RowIsSound(mails[m])' /\ SentOnce(m)'
    BY <2>1 DEF MailInv, RowIsSound, SentOnce, Exists, Ended, Trying, Spare
  <2> QED
    BY <2>1, <2>2, <2>3 DEF MailInv, Deliverable, LiveTokens, LiveInvites
<1> QED
  BY <1>1, <1>2, <1>3, <1>4, <1>5, <1>6, <1>7, <1>8, <1>9 DEF MailNext

-----------------------------------------------------------------------------
(* Notifications of recoveries.                                            *)

Notified == MailsFor("security_notification", {0})
Recovered == {t \in DOMAIN tokens :
                /\ tokens[t].purpose = "password_recovery"
                /\ tokens[t].state = "used" \/ tokens[t].failures = MaxFailures}

\* Two sets that grow by one element each.
LEMMA GrowAlike ==
  ASSUME NEW S, IsFiniteSet(S), NEW T, IsFiniteSet(T), Cardinality(S) = Cardinality(T),
         NEW x, x \notin S, NEW y, y \notin T
  PROVE  Cardinality(S \cup {x}) = Cardinality(T \cup {y})
  BY FS_AddElement

LEMMA RowsAreFinite == ASSUME MailInv PROVE IsFiniteSet(Notified) /\ IsFiniteSet(Recovered)
<1>1. IsFiniteSet(DOMAIN mails) /\ IsFiniteSet(DOMAIN tokens)
  BY FS_Interval DEF MailInv, MailTypes
<1> QED
  BY <1>1, FS_Subset DEF Notified, Recovered, MailsFor

\* Killed mails are still about the same.
LEMMA KilledTells ==
  ASSUME mails \in Seq(MailT), NEW p, NEW refs,
         \/ mails' = Killed(p, refs)
         \/ \E q \in Purpose \cup {"workspace_invitation"}, r \in Nat :
              mails' = Append(Killed(p, refs), MailRow(q, r))
  PROVE  Notified' = Notified
<1> DEFINE old == Killed(p, refs)
<1>1. /\ old \in Seq(MailT) /\ DOMAIN old = DOMAIN mails
      /\ \A m \in DOMAIN mails : old[m].purpose = mails[m].purpose /\ old[m].ref = mails[m].ref
  <2>1. \A m \in DOMAIN mails : mails[m] \in MailT
    OBVIOUS
  <2>2. \A m \in DOMAIN mails : Dead(mails[m]).purpose = mails[m].purpose /\ Dead(mails[m]).ref = mails[m].ref
    BY <2>1, DeadRow
  <2>3. \A m \in DOMAIN mails : old[m] = Dead(mails[m]) \/ old[m] = mails[m]
    BY KilledRows
  <2>4. \A m \in DOMAIN mails : old[m].purpose = mails[m].purpose /\ old[m].ref = mails[m].ref
    BY <2>2, <2>3
  <2>5. old \in Seq(MailT) /\ Len(old) = Len(mails) /\ DOMAIN old = DOMAIN mails
    BY KilledRows
  <2> QED
    BY <2>4, <2>5
<1> HIDE DEF old
<1>2. CASE mails' = old
  BY <1>1, <1>2 DEF Notified, MailsFor
<1>3. ASSUME NEW q \in Purpose \cup {"workspace_invitation"}, NEW r \in Nat,
             mails' = Append(old, MailRow(q, r))
      PROVE  Notified' = Notified
  <2> DEFINE row == MailRow(q, r)
  <2>1. row \in MailT /\ row.purpose # "security_notification"
    BY NewMail DEF Purpose
  <2>2. mails' = Append(old, row)
    BY <1>3
  <2> HIDE DEF row
  <2>3. /\ DOMAIN mails' = DOMAIN old \cup {Len(old) + 1} /\ mails'[Len(old) + 1] = row
        /\ \A m \in DOMAIN old : mails'[m] = old[m]
    BY <1>1, <2>1, <2>2, Appended
  <2> QED
    BY <1>1, <2>1, <2>3 DEF Notified, MailsFor
<1> QED
  BY <1>2, <1>3 DEF old

LEMMA KilledAndNotified ==
  ASSUME mails \in Seq(MailT), NEW p, NEW refs,
         mails' = Append(Killed(p, refs), MailRow("security_notification", 0))
  PROVE  Len(mails) + 1 \notin Notified /\ Notified' = Notified \cup {Len(mails) + 1}
<1> DEFINE old == Killed(p, refs)
           row == MailRow("security_notification", 0)
<1>1. /\ old \in Seq(MailT) /\ DOMAIN old = DOMAIN mails /\ Len(old) = Len(mails)
      /\ \A m \in DOMAIN mails : old[m].purpose = mails[m].purpose /\ old[m].ref = mails[m].ref
  <2>1. \A m \in DOMAIN mails : mails[m] \in MailT
    OBVIOUS
  <2>2. \A m \in DOMAIN mails : Dead(mails[m]).purpose = mails[m].purpose /\ Dead(mails[m]).ref = mails[m].ref
    BY <2>1, DeadRow
  <2>3. \A m \in DOMAIN mails : old[m] = Dead(mails[m]) \/ old[m] = mails[m]
    BY KilledRows
  <2>4. \A m \in DOMAIN mails : old[m].purpose = mails[m].purpose /\ old[m].ref = mails[m].ref
    BY <2>2, <2>3
  <2>5. old \in Seq(MailT) /\ Len(old) = Len(mails) /\ DOMAIN old = DOMAIN mails
    BY KilledRows
  <2> QED
    BY <2>4, <2>5
<1>2. row \in MailT /\ row.purpose = "security_notification" /\ row.ref = 0
  BY DEF MailRow, MailT, FinalStatus
<1> HIDE DEF old, row
<1>3. /\ DOMAIN mails' = DOMAIN old \cup {Len(old) + 1} /\ mails'[Len(old) + 1] = row
      /\ \A m \in DOMAIN old : mails'[m] = old[m] /\ Len(old) + 1 \notin DOMAIN old
  BY <1>1, <1>2, Appended DEF old, row
<1> QED
  BY <1>1, <1>2, <1>3 DEF Notified, MailsFor

\* Delivery changes no mail's subject.
LEMMA DeliveryTells ==
  ASSUME MailInv, NEW m \in DOMAIN mails, UNCHANGED actionVars,
         NEW row, mails' = [mails EXCEPT ![m] = row],
         row.purpose = mails[m].purpose, row.ref = mails[m].ref
  PROVE  Notified' = Notified /\ Recovered' = Recovered
<1>1. mails \in Seq(MailT) /\ tokens' = tokens
  BY DEF MailInv, MailTypes, actionVars
<1>2. /\ DOMAIN mails' = DOMAIN mails
      /\ \A x \in DOMAIN mails : mails'[x].purpose = mails[x].purpose /\ mails'[x].ref = mails[x].ref
  BY <1>1
<1> QED
  BY <1>1, <1>2 DEF Notified, MailsFor, Recovered

LEMMA DeliverTells ==
  ASSUME MailInv, NEW w \in Sender, Deliver(w) PROVE Notified' = Notified /\ Recovered' = Recovered
<1>0. mails \in Seq(MailT)
  BY DEF MailInv, MailTypes
<1>1. ASSUME NEW m \in DOMAIN mails, LeaseNext(w, m)
      PROVE  Notified' = Notified /\ Recovered' = Recovered
  <2>1. mails[m] \in MailT /\ UNCHANGED actionVars
    BY <1>0, <1>1 DEF LeaseNext
  <2>2. CASE ActionIsDeliverable(mails[m]) /\ m \notin Unreadable
    <3> DEFINE k == mails[m].attempts + 1
               row == [mails[m] EXCEPT !.status = "leased", !.lapsed = FALSE, !.attempts = k]
    <3>1. mails' = [mails EXCEPT ![m] = row]
      BY <1>0, <1>1, <2>2 DEF LeaseNext
    <3> HIDE DEF k
    <3>2. row.purpose = mails[m].purpose /\ row.ref = mails[m].ref
      BY <2>1 DEF MailT
    <3> HIDE DEF row
    <3> QED
      BY <2>1, <3>1, <3>2, DeliveryTells
  <2>3. CASE ~(ActionIsDeliverable(mails[m]) /\ m \notin Unreadable)
    <3>1. mails' = [mails EXCEPT ![m] = Dead(mails[m])]
      BY <1>0, <1>1, <2>3 DEF LeaseNext
    <3> QED
      BY <2>1, <3>1, DeadRow, DeliveryTells
  <2> QED
    BY <2>2, <2>3
<1>2. ASSUME NEW answer \in {"accepted", "retryable", "refused"}, Send(w, answer)
      PROVE  Notified' = Notified /\ Recovered' = Recovered
  <2> DEFINE m == sender[w].mail
             k == IF answer = "accepted" THEN mails[m].accepted + 1 ELSE mails[m].accepted
             row == [mails[m] EXCEPT !.accepted = k]
  <2>1. m \in DOMAIN mails /\ UNCHANGED actionVars
    BY <1>2 DEF Send, MailInv, MailTypes
  <2>2. mails' = [mails EXCEPT ![m] = row] /\ mails[m] \in MailT
    BY <1>0, <1>2, <2>1 DEF Send
  <2> HIDE DEF k, m
  <2>3. row.purpose = mails[m].purpose /\ row.ref = mails[m].ref
    BY <2>2 DEF MailT
  <2> HIDE DEF row
  <2> QED
    BY <2>1, <2>2, <2>3, DeliveryTells
<1>3. ASSUME Finish(w) PROVE Notified' = Notified /\ Recovered' = Recovered
  <2> DEFINE m == sender[w].mail
             row == Settled(mails[m], sender[w].answer)
  <2>1. m \in DOMAIN mails /\ UNCHANGED actionVars
    BY <1>3 DEF Finish, MailInv, MailTypes
  <2>2. CASE mails[m].status = "leased"
    <3>1. mails' = [mails EXCEPT ![m] = row] /\ mails[m] \in MailT
      BY <1>0, <1>3, <2>1, <2>2 DEF Finish
    <3>2. row.purpose = mails[m].purpose /\ row.ref = mails[m].ref
      BY <3>1 DEF Settled, MailT
    <3> HIDE DEF row, m
    <3> QED
      BY <2>1, <3>1, <3>2, DeliveryTells
  <2>3. CASE mails[m].status # "leased"
    BY <1>3, <2>1, <2>3 DEF Finish, Notified, MailsFor, Recovered, actionVars
  <2> QED
    BY <2>2, <2>3
<1> QED
  BY <1>1, <1>2, <1>3 DEF Deliver

\* Every step that ends a recovery for good notifies of it, and no other does.
LEMMA NotifiedStep ==
  ASSUME MailInv, MailInv', [MailNext]_mailVars, RecoveryIsNotified PROVE RecoveryIsNotified'
<1>0. /\ mails \in Seq(MailT) /\ tokens \in Seq(TokenT)
      /\ \A t \in DOMAIN tokens : tokens[t] \in TokenT
  BY DEF MailInv, MailTypes
<1>1. /\ RecoveryIsNotified <=> Cardinality(Notified) = Cardinality(Recovered)
      /\ RecoveryIsNotified' <=> Cardinality(Notified') = Cardinality(Recovered')
  BY DEF RecoveryIsNotified, Notified, Recovered
<1>2. ASSUME Notified' = Notified, Recovered' = Recovered PROVE RecoveryIsNotified'
  BY <1>1, <1>2
<1>3. ASSUME NEW p \in Purpose, StartAction(p) PROVE RecoveryIsNotified'
  <2> DEFINE live == LiveTokens(p)
             rev == Revoked(live)
             row == TokenRow(p)
  <2>1. Len(tokens) + 1 \in Nat
    BY <1>0
  <2>2. Notified' = Notified
    BY <1>0, <1>3, <2>1, KilledTells DEF StartAction
  <2>3. /\ rev \in Seq(TokenT) /\ DOMAIN rev = DOMAIN tokens
        /\ \A t \in DOMAIN tokens :
             /\ rev[t].state = IF t \in live THEN "revoked" ELSE tokens[t].state
             /\ rev[t].purpose = tokens[t].purpose
             /\ rev[t].failures = tokens[t].failures
    BY <1>0, RevokedTokens
  <2>4. row \in TokenT /\ row.state = "live" /\ row.failures # MaxFailures
    BY MailConstants DEF TokenRow, TokenT
  <2>5. \A t \in live : tokens[t].state = "live" /\ tokens[t].failures # MaxFailures
    BY <1>0, MailConstants DEF MailInv, OneLive, LiveTokens, TokenT
  <2>6. tokens' = Append(rev, row)
    BY <1>3 DEF StartAction
  <2> HIDE DEF rev, row, live
  <2>7. /\ DOMAIN tokens' = DOMAIN rev \cup {Len(rev) + 1} /\ tokens'[Len(rev) + 1] = row
        /\ \A t \in DOMAIN rev : tokens'[t] = rev[t]
    BY <2>3, <2>4, <2>6, Appended
  <2>8. Recovered' = Recovered
    BY <2>3, <2>4, <2>5, <2>7 DEF Recovered
  <2> QED
    BY <1>2, <2>2, <2>8
<1>4. ASSUME NEW t \in DOMAIN tokens, Confirm(t) PROVE RecoveryIsNotified'
  <2> DEFINE live == LiveTokens("email_verification")
             rev == Revoked(live)
  <2>1. Notified' = Notified
    BY <1>0, <1>4, KilledTells DEF Confirm
  <2>2. /\ rev \in Seq(TokenT) /\ DOMAIN rev = DOMAIN tokens
        /\ \A s \in DOMAIN tokens :
             /\ rev[s].state = IF s \in live THEN "revoked" ELSE tokens[s].state
             /\ rev[s].purpose = tokens[s].purpose
             /\ rev[s].failures = tokens[s].failures
    BY <1>0, RevokedTokens
  <2>3. tokens' = [rev EXCEPT ![t].state = "used"] /\ t \in live
    BY <1>4 DEF Confirm, Usable
  <2>4. \A s \in live : s \in DOMAIN tokens /\ tokens[s].purpose # "password_recovery"
    BY DEF LiveTokens
  <2> HIDE DEF rev, live
  <2>5. /\ DOMAIN tokens' = DOMAIN tokens
        /\ \A s \in DOMAIN tokens :
             /\ tokens'[s].purpose = tokens[s].purpose
             /\ tokens'[s].failures = tokens[s].failures
             /\ s \notin live => tokens'[s].state = tokens[s].state
    <3>1. rev[t] \in TokenT /\ DOMAIN tokens' = DOMAIN tokens
      BY <2>2, <2>3, <2>4
    <3>2. \A s \in DOMAIN tokens : s # t => tokens'[s] = rev[s]
      BY <2>2, <2>3
    <3>3. tokens'[t] = [rev[t] EXCEPT !.state = "used"]
      BY <2>2, <2>3, <2>4
    <3>4. tokens'[t].purpose = rev[t].purpose /\ tokens'[t].failures = rev[t].failures
      BY <3>1, <3>3 DEF TokenT
    <3> QED
      BY <2>2, <2>3, <3>1, <3>2, <3>4
  <2>6. Recovered' = Recovered
    BY <2>4, <2>5 DEF Recovered
  <2> QED
    BY <1>2, <2>1, <2>6
<1>5. ASSUME NEW t \in DOMAIN tokens, CompletePasswordRecovery(t) PROVE RecoveryIsNotified'
  <2>1. /\ tokens[t].purpose = "password_recovery" /\ tokens[t].state = "live"
        /\ tokens[t].failures \in Nat /\ tokens[t].failures < MaxFailures /\ MaxFailures \in Nat
        /\ t \notin Recovered /\ tokens[t] \in TokenT
    BY <1>0, <1>5, MailConstants
       DEF CompletePasswordRecovery, LiveTokens, MailInv, OneLive, Recovered, TokenT
  <2>2. ASSUME NEW row \in TokenT, tokens' = [tokens EXCEPT ![t] = row], row.purpose = "password_recovery"
        PROVE  Recovered' = IF row.state = "used" \/ row.failures = MaxFailures
                            THEN Recovered \cup {t} ELSE Recovered
    <3>1. DOMAIN tokens' = DOMAIN tokens /\ \A s \in DOMAIN tokens : tokens'[s] = IF s = t THEN row ELSE tokens[s]
      BY <1>0, <2>2
    <3> QED
      BY <2>1, <2>2, <3>1 DEF Recovered
  <2>3. ASSUME NEW state \in {"used", "revoked"}, NEW notified \in BOOLEAN,
               EndRecovery(t, state, notified),
               state = "used" => notified,
               state = "revoked" /\ notified => tokens[t].failures + 1 = MaxFailures
        PROVE  RecoveryIsNotified'
    <3> DEFINE k == IF notified /\ state = "revoked" THEN tokens[t].failures + 1 ELSE tokens[t].failures
               row == [tokens[t] EXCEPT !.state = state, !.failures = k]
    <3>1. k \in 0..MaxFailures /\ (k = MaxFailures <=> state = "revoked" /\ notified)
      BY <2>1, <2>3
    <3>2. tokens' = [tokens EXCEPT ![t] = row]
      BY <1>0, <2>1, <2>3 DEF EndRecovery
    <3> HIDE DEF k
    <3>3. row \in TokenT /\ row.state = state /\ row.purpose = "password_recovery" /\ row.failures = k
      BY <2>1, <3>1 DEF TokenT
    <3> HIDE DEF row
    <3>4. Recovered' = IF notified THEN Recovered \cup {t} ELSE Recovered
      BY <2>2, <2>3, <3>1, <3>2, <3>3
    <3>5. CASE notified
      <4>1. /\ Len(mails) + 1 \notin Notified /\ Notified' = Notified \cup {Len(mails) + 1}
        BY <1>0, <2>3, <3>5, KilledAndNotified DEF EndRecovery, Notify
      <4>2. Cardinality(Notified') = Cardinality(Recovered')
        BY <1>1, <2>1, <3>4, <3>5, <4>1, RowsAreFinite, GrowAlike
      <4> QED
        BY <1>1, <4>2
    <3>6. CASE ~notified
      <4>1. Notified' = Notified
        BY <1>0, <2>3, <3>6, KilledTells DEF EndRecovery
      <4> QED
        BY <1>2, <3>4, <3>6, <4>1
    <3> QED
      BY <3>5, <3>6
  <2>4. ASSUME WrongFactor(t), tokens[t].failures + 1 < MaxFailures PROVE RecoveryIsNotified'
    <3> DEFINE k == tokens[t].failures + 1
               row == [tokens[t] EXCEPT !.failures = k]
    <3>1. tokens' = [tokens EXCEPT ![t] = row] /\ mails' = mails
      BY <1>0, <2>4 DEF WrongFactor
    <3>2. k \in 0..MaxFailures /\ k # MaxFailures
      BY <2>1, <2>4
    <3> HIDE DEF k
    <3>3. /\ row \in TokenT /\ row.state = "live" /\ row.purpose = "password_recovery" /\ row.failures = k
      BY <2>1, <3>2 DEF TokenT
    <3> HIDE DEF row
    <3>4. Recovered' = Recovered
      BY <2>2, <3>1, <3>2, <3>3
    <3>5. Notified' = Notified
      BY <3>1 DEF Notified, MailsFor
    <3> QED
      BY <1>2, <3>4, <3>5
  <2>5. ASSUME EndRecovery(t, "revoked", FALSE) PROVE RecoveryIsNotified'
    BY <2>3, <2>5
  <2>6. ASSUME EndRecovery(t, "used", TRUE) PROVE RecoveryIsNotified'
    BY <2>3, <2>6
  <2>7. ASSUME EndRecovery(t, "revoked", TRUE), ~(tokens[t].failures + 1 < MaxFailures)
        PROVE RecoveryIsNotified'
    <3>1. tokens[t].failures + 1 = MaxFailures
      BY <2>1, <2>7
    <3> QED
      BY <2>3, <2>7, <3>1
  <2> QED
    BY <1>5, <2>4, <2>5, <2>6, <2>7 DEF CompletePasswordRecovery, WrongFactor
<1>6. ASSUME CreateInvite PROVE RecoveryIsNotified'
  <2>1. Recovered' = Recovered /\ mails = Killed("workspace_invitation", {})
    BY <1>0, <1>6, KillsNothing DEF CreateInvite, Recovered
  <2>2. ASSUME NEW i \in Nat, mails' = Append(mails, InviteMail(i)) PROVE Notified' = Notified
    BY <1>0, <2>1, <2>2, KilledTells DEF InviteMail
  <2>3. \A i \in LiveInvites : i \in Nat
    BY DEF LiveInvites, MailInv, MailTypes
  <2>4. Len(invites) + 1 \in Nat
    BY DEF MailInv, MailTypes
  <2>5. Notified' = Notified
    BY <1>6, <2>2, <2>3, <2>4 DEF CreateInvite
  <2> QED
    BY <1>2, <2>1, <2>5
<1>7. ASSUME NEW i \in DOMAIN invites, AcceptInvite(i) \/ RevokeInvite(i) PROVE RecoveryIsNotified'
  <2>1. Recovered' = Recovered /\ mails' = Killed("workspace_invitation", {i})
    BY <1>7 DEF AcceptInvite, RevokeInvite, EndInvite, Recovered
  <2> QED
    BY <1>0, <1>2, <2>1, KilledTells
<1>8. ASSUME UNCHANGED <<tokens, mails>> PROVE RecoveryIsNotified'
  BY <1>2, <1>8 DEF Notified, MailsFor, Recovered
<1>9. ASSUME NEW t \in DOMAIN tokens, TokenExpires(t) PROVE RecoveryIsNotified'
  <2>1. tokens' = [tokens EXCEPT ![t].expired = TRUE] /\ mails' = mails /\ tokens[t] \in TokenT
    BY <1>0, <1>9 DEF TokenExpires
  <2>2. /\ DOMAIN tokens' = DOMAIN tokens
        /\ \A s \in DOMAIN tokens :
             /\ tokens'[s].purpose = tokens[s].purpose /\ tokens'[s].state = tokens[s].state
             /\ tokens'[s].failures = tokens[s].failures
    BY <1>0, <2>1 DEF TokenT
  <2>3. Recovered' = Recovered /\ Notified' = Notified
    BY <2>1, <2>2 DEF Recovered, Notified, MailsFor
  <2> QED
    BY <1>2, <2>3
<1>10. ASSUME NEW m \in DOMAIN mails, MailComesDue(m) \/ LeaseExpires(m) PROVE RecoveryIsNotified'
  <2>1. mails[m] \in MailT /\ UNCHANGED actionVars
    BY <1>0, <1>10 DEF MailComesDue, LeaseExpires
  <2>2. ASSUME MailComesDue(m) PROVE Notified' = Notified /\ Recovered' = Recovered
    <3> DEFINE row == [mails[m] EXCEPT !.due = TRUE]
    <3>1. mails' = [mails EXCEPT ![m] = row]
      BY <1>0, <2>2 DEF MailComesDue
    <3>2. row.purpose = mails[m].purpose /\ row.ref = mails[m].ref
      BY <2>1 DEF MailT
    <3> HIDE DEF row
    <3> QED
      BY <2>1, <3>1, <3>2, DeliveryTells
  <2>3. ASSUME LeaseExpires(m) PROVE Notified' = Notified /\ Recovered' = Recovered
    <3> DEFINE k == mails[m].lapses + 1
               row == [mails[m] EXCEPT !.lapsed = TRUE, !.lapses = k]
    <3>1. mails' = [mails EXCEPT ![m] = row]
      BY <1>0, <2>3 DEF LeaseExpires
    <3> HIDE DEF k
    <3>2. row.purpose = mails[m].purpose /\ row.ref = mails[m].ref
      BY <2>1 DEF MailT
    <3> HIDE DEF row
    <3> QED
      BY <2>1, <3>1, <3>2, DeliveryTells
  <2> QED
    BY <1>2, <1>10, <2>2, <2>3
<1>11. ASSUME NEW w \in Sender, Deliver(w) PROVE RecoveryIsNotified'
  BY <1>2, <1>11, DeliverTells
<1> QED
  BY <1>3, <1>4, <1>5, <1>6, <1>7, <1>8, <1>9, <1>10, <1>11
     DEF MailNext, mailVars, StartRegistration, StartPasswordRecovery, RevokeMember, InviteExpires,
         SenderCrash, TimePasses, actionVars, Purpose

-----------------------------------------------------------------------------
(* Theorems.                                                               *)

\* What holds of every state is what the runs check.
LEMMA MailPromises == ASSUME MailInv, RecoveryIsNotified PROVE MailFollowsActions
<1>1. /\ mails \in Seq(MailT) /\ tokens \in Seq(TokenT)
      /\ \A m \in DOMAIN mails : mails[m] \in MailT /\ m \in Nat
  BY DEF MailInv, MailTypes
<1>2. OneFlow
  <2>1. ASSUME NEW S, \A x, y \in S : x = y PROVE Cardinality(S) <= 1
    <3>1. CASE S = {}
      BY <3>1, FS_EmptySet
    <3>2. ASSUME NEW x \in S PROVE Cardinality(S) <= 1
      <4>1. S = {x}
        BY <2>1
      <4> QED
        BY <4>1, FS_Singleton
    <3> QED
      BY <3>1, <3>2
  <2>2. \A p \in Purpose : \A s, t \in LiveTokens(p) : s = t
    BY DEF MailInv, OneLive, LiveTokens
  <2>3. \A i, j \in LiveInvites : i = j
    BY DEF MailInv, OneLive
  <2>4. \A p \in Purpose : Cardinality(LiveTokens(p)) <= 1
    BY <2>1, <2>2
  <2>5. Cardinality(LiveInvites) <= 1
    BY <2>1, <2>3
  <2> QED
    BY <2>4, <2>5 DEF OneFlow
<1>3. LiveActionKeepsMail
  <2>1. \A m \in DOMAIN mails :
          ActionIsDeliverable(mails[m]) <=> Deliverable(mails[m].purpose, mails[m].ref)
    BY <1>1, DeliverableIs
  <2> QED
    BY <2>1 DEF MailInv, LiveActionKeepsMail
<1>4. EndedActionStopsMail
  BY DEF MailInv, RowIsSound, Ended, EndedActionStopsMail
<1>5. ASSUME NEW m \in DOMAIN mails
      PROVE  /\ mails[m].accepted <= 1 + mails[m].lapses
             /\ mails[m].attempts <= MaxAttempts + mails[m].lapses
  <2> DEFINE a == mails[m].accepted
             l == mails[m].lapses
             c == Cardinality(Trying(m))
             s == Spare(mails[m])
  <2>1. a \in Nat /\ l \in Nat /\ c \in Nat /\ s \in {0, 1} /\ a + c <= l + s
    BY <1>1, TryingIsFinite DEF MailT, MailInv, SentOnce, Spare
  <2> HIDE DEF a, c, l, s
  <2>2. a <= 1 + l
    BY <2>1
  <2> QED
    BY <2>2 DEF MailInv, RowIsSound, a, l
<1> QED
  BY <1>2, <1>3, <1>4, <1>5 DEF MailFollowsActions, DuplicatesNeedALapse

\* Mail follows the action it is about: one open flow of each purpose, no live
\* action's mail is dead, no ended action's mail is sent again, the provider
\* takes a mail twice only after a lease ran out, and every recovery that was
\* completed or exhausted has its notification (email_verification.py,
\* invitations.py, email_delivery.py).
THEOREM MailFollows == MailSpec => []MailFollowsActions
<1>1. MailInit => MailInv /\ RecoveryIsNotified
  <2> SUFFICES ASSUME MailInit PROVE MailInv /\ RecoveryIsNotified
    OBVIOUS
  <2>1. DOMAIN mails = {} /\ DOMAIN tokens = {}
    BY DEF MailInit
  <2>2. Notified = {} /\ Recovered = {}
    BY <2>1 DEF Notified, Recovered, MailsFor
  <2> QED
    BY <2>2, MailInvInit DEF RecoveryIsNotified, Notified, Recovered
<1>2. MailInv /\ RecoveryIsNotified /\ [MailNext]_mailVars => (MailInv /\ RecoveryIsNotified)'
  BY MailInvStep, NotifiedStep
<1>3. MailInv /\ RecoveryIsNotified => MailFollowsActions
  BY MailPromises
<1> QED
  BY <1>1, <1>2, <1>3, PTL DEF MailSpec

-----------------------------------------------------------------------------
(* Outcomes.                                                               *)

MailsAreFinal ==
  \A m \in DOMAIN mails : mails[m].status \in FinalStatus => mails'[m].status = mails[m].status
TokensAreFinal ==
  \A t \in DOMAIN tokens : tokens[t].state # "live" => tokens'[t].state = tokens[t].state
InvitesAreFinal ==
  \A i \in DOMAIN invites : invites[i].status # "pending" => invites'[i].status = invites[i].status

\* Killing the mails of an action leaves those that are settled.
LEMMA KilledAreFinal ==
  ASSUME mails \in Seq(MailT), NEW p, NEW refs,
         \/ mails' = Killed(p, refs)
         \/ \E q \in Purpose \cup {"security_notification", "workspace_invitation"}, r \in Nat :
              mails' = Append(Killed(p, refs), MailRow(q, r))
  PROVE  MailsAreFinal
<1> DEFINE old == Killed(p, refs)
<1>1. /\ old \in Seq(MailT) /\ DOMAIN old = DOMAIN mails
      /\ \A m \in DOMAIN mails : mails[m].status \in FinalStatus => old[m] = mails[m]
  BY KilledRows DEF KilledSet, FinalStatus
<1> HIDE DEF old
<1>2. CASE mails' = old
  BY <1>1, <1>2 DEF MailsAreFinal
<1>3. ASSUME NEW q \in Purpose \cup {"security_notification", "workspace_invitation"}, NEW r \in Nat,
             mails' = Append(old, MailRow(q, r))
      PROVE  MailsAreFinal
  <2>1. MailRow(q, r) \in MailT
    BY NewMail
  <2> DEFINE row == MailRow(q, r)
  <2>2. row \in MailT /\ mails' = Append(old, row)
    BY <1>3, <2>1
  <2> HIDE DEF row
  <2>3. \A m \in DOMAIN old : mails'[m] = old[m]
    BY <1>1, <2>2, Appended
  <2> QED
    BY <1>1, <2>3 DEF MailsAreFinal
<1> QED
  BY <1>2, <1>3 DEF old

\* One mail that is not settled changes.
LEMMA OneMailChanges ==
  ASSUME mails \in Seq(MailT), NEW m \in DOMAIN mails, NEW row, mails' = [mails EXCEPT ![m] = row],
         mails[m].status \in FinalStatus => row.status = mails[m].status
  PROVE  MailsAreFinal
  BY DEF MailsAreFinal

LEMMA DeliverIsFinal ==
  ASSUME MailInv, NEW w \in Sender, Deliver(w) PROVE MailsAreFinal
<1>0. mails \in Seq(MailT)
  BY DEF MailInv, MailTypes
<1>1. ASSUME NEW m \in DOMAIN mails, LeaseNext(w, m) PROVE MailsAreFinal
  <2>1. mails[m].status \notin FinalStatus
    BY <1>1 DEF LeaseNext, Leasable, FinalStatus
  <2>2. \A x \in DOMAIN mails : x # m => mails'[x] = mails[x]
    BY <1>0, <1>1 DEF LeaseNext
  <2> QED
    BY <2>1, <2>2 DEF MailsAreFinal
<1>2. ASSUME NEW answer \in {"accepted", "retryable", "refused"}, Send(w, answer) PROVE MailsAreFinal
  <2> DEFINE m == sender[w].mail
             k == IF answer = "accepted" THEN mails[m].accepted + 1 ELSE mails[m].accepted
             row == [mails[m] EXCEPT !.accepted = k]
  <2>1. m \in DOMAIN mails
    BY <1>2 DEF Send, MailInv, MailTypes
  <2>2. mails' = [mails EXCEPT ![m] = row] /\ mails[m] \in MailT
    BY <1>0, <1>2, <2>1 DEF Send
  <2> HIDE DEF k, m
  <2>3. row.status = mails[m].status
    BY <2>2 DEF MailT
  <2> HIDE DEF row
  <2> QED
    BY <1>0, <2>1, <2>2, <2>3, OneMailChanges
<1>3. ASSUME Finish(w) PROVE MailsAreFinal
  <2> DEFINE m == sender[w].mail
  <2>1. \/ mails[m].status \notin FinalStatus /\ \A x \in DOMAIN mails : x # m => mails'[x] = mails[x]
        \/ mails' = mails
    BY <1>0, <1>3 DEF Finish, FinalStatus
  <2> HIDE DEF m
  <2> QED
    BY <2>1 DEF MailsAreFinal
<1> QED
  BY <1>1, <1>2, <1>3 DEF Deliver

LEMMA InviteIsFinal ==
  ASSUME MailInv, NEW i \in DOMAIN invites, NEW status, EndInvite(i, status),
         invites[i].status = "pending"
  PROVE  InvitesAreFinal /\ MailsAreFinal
<1>1. invites \in Seq(InviteT) /\ mails \in Seq(MailT)
  BY DEF MailInv, MailTypes
<1>2. InvitesAreFinal
  BY <1>1 DEF InvitesAreFinal, EndInvite
<1>3. MailsAreFinal
  BY <1>1, KilledAreFinal DEF EndInvite
<1> QED
  BY <1>2, <1>3

LEMMA StartIsFinal ==
  ASSUME MailInv, NEW p \in Purpose, StartAction(p) PROVE TokensAreFinal /\ MailsAreFinal
<1>1. tokens \in Seq(TokenT) /\ mails \in Seq(MailT) /\ Len(tokens) + 1 \in Nat
  BY DEF MailInv, MailTypes
<1>2. MailsAreFinal
  BY <1>1, KilledAreFinal DEF StartAction
<1>3. TokensAreFinal
  <2> DEFINE live == LiveTokens(p)
             rev == Revoked(live)
             row == TokenRow(p)
  <2>1. row \in TokenT /\ tokens' = Append(rev, row)
    BY MailConstants DEF TokenRow, TokenT, StartAction
  <2>2. /\ rev \in Seq(TokenT) /\ DOMAIN rev = DOMAIN tokens
        /\ \A t \in DOMAIN tokens : rev[t].state = IF t \in live THEN "revoked" ELSE tokens[t].state
    BY <1>1, RevokedTokens
  <2>3. \A t \in live : tokens[t].state = "live"
    BY DEF LiveTokens
  <2> HIDE DEF rev, row, live
  <2>4. \A t \in DOMAIN rev : tokens'[t] = rev[t]
    BY <2>1, <2>2, Appended
  <2> QED
    BY <2>2, <2>3, <2>4 DEF TokensAreFinal
<1> QED
  BY <1>2, <1>3

LEMMA ConfirmIsFinal ==
  ASSUME MailInv, NEW t \in DOMAIN tokens, Confirm(t) PROVE TokensAreFinal /\ MailsAreFinal
<1>1. tokens \in Seq(TokenT) /\ mails \in Seq(MailT)
  BY DEF MailInv, MailTypes
<1>2. MailsAreFinal
  BY <1>1, KilledAreFinal DEF Confirm
<1>3. TokensAreFinal
  <2> DEFINE live == LiveTokens("email_verification")
             rev == Revoked(live)
  <2>1. /\ rev \in Seq(TokenT) /\ DOMAIN rev = DOMAIN tokens
        /\ \A s \in DOMAIN tokens : rev[s].state = IF s \in live THEN "revoked" ELSE tokens[s].state
    BY <1>1, RevokedTokens
  <2>2. tokens' = [rev EXCEPT ![t].state = "used"] /\ t \in live
    BY DEF Confirm, Usable
  <2>3. \A s \in live : tokens[s].state = "live"
    BY DEF LiveTokens
  <2> HIDE DEF rev, live
  <2>4. \A s \in DOMAIN tokens : s # t => tokens'[s] = rev[s]
    BY <2>1, <2>2
  <2> QED
    BY <2>1, <2>2, <2>3, <2>4 DEF TokensAreFinal
<1> QED
  BY <1>2, <1>3

LEMMA CompleteIsFinal ==
  ASSUME MailInv, NEW t \in DOMAIN tokens, CompletePasswordRecovery(t)
  PROVE  TokensAreFinal /\ MailsAreFinal
<1>1. /\ tokens \in Seq(TokenT) /\ mails \in Seq(MailT) /\ tokens[t].state = "live"
  BY DEF MailInv, MailTypes, CompletePasswordRecovery, LiveTokens
<1>2. \A s \in DOMAIN tokens : s # t => tokens'[s] = tokens[s]
  BY <1>1 DEF CompletePasswordRecovery, WrongFactor, EndRecovery
<1>3. TokensAreFinal
  BY <1>1, <1>2 DEF TokensAreFinal
<1>4. ASSUME mails' = mails PROVE MailsAreFinal
  BY <1>4, Zenon DEF MailsAreFinal
<1>5. ASSUME NEW state, NEW notified, EndRecovery(t, state, notified) PROVE MailsAreFinal
  <2>1. \/ mails' = Killed("password_recovery", {t})
        \/ mails' = Append(Killed("password_recovery", {t}), MailRow("security_notification", 0))
    BY <1>5 DEF EndRecovery, Notify
  <2> QED
    BY <1>1, <2>1, KilledAreFinal
<1> QED
  BY <1>3, <1>4, <1>5 DEF CompletePasswordRecovery, WrongFactor

LEMMA CreateIsFinal == ASSUME MailInv, CreateInvite PROVE InvitesAreFinal /\ MailsAreFinal
<1>1. /\ invites \in Seq(InviteT) /\ mails \in Seq(MailT) /\ Len(invites) + 1 \in Nat
      /\ \A i \in LiveInvites : i \in Nat
      /\ mails = Killed("workspace_invitation", {})
  BY KillsNothing DEF MailInv, MailTypes, LiveInvites
<1>2. MailsAreFinal
  BY <1>1, KilledAreFinal DEF CreateInvite, InviteMail
<1>3. InvitesAreFinal
  <2>1. ASSUME invites' = Append(invites, InviteRow(TRUE)) PROVE InvitesAreFinal
    <3> DEFINE row == InviteRow(TRUE)
    <3>1. row \in InviteT /\ invites' = Append(invites, row)
      BY <2>1 DEF InviteRow, InviteT
    <3> HIDE DEF row
    <3>2. \A i \in DOMAIN invites : invites'[i] = invites[i]
      BY <1>1, <3>1, Appended
    <3> QED
      BY <3>2 DEF InvitesAreFinal
  <2>2. ASSUME NEW i \in LiveInvites, invites' = [invites EXCEPT ![i] = InviteRow(TRUE)]
        PROVE  InvitesAreFinal
    <3>1. invites[i].status = "pending" /\ \A j \in DOMAIN invites : j # i => invites'[j] = invites[j]
      BY <1>1, <2>2 DEF LiveInvites
    <3> QED
      BY <3>1 DEF InvitesAreFinal
  <2> QED
    BY <2>1, <2>2 DEF CreateInvite
<1> QED
  BY <1>2, <1>3

\* A mail that was sent, failed or is dead, a token that was used or revoked
\* and an invitation that was answered stay so, whatever workers and
\* handlers do.
THEOREM MailOutcomesAreFinal == MailSpec => [][MailOutcomeIsFinal]_mailVars
<1>1. MailInit => MailInv
  BY MailInvInit
<1>2. MailInv /\ [MailNext]_mailVars => MailInv'
  BY MailInvStep
<1>3. MailInv /\ [MailNext]_mailVars => [MailOutcomeIsFinal]_mailVars
  <2> SUFFICES ASSUME MailInv, MailNext PROVE MailsAreFinal /\ TokensAreFinal /\ InvitesAreFinal
    BY DEF MailOutcomeIsFinal, MailsAreFinal, TokensAreFinal, InvitesAreFinal
  <2>0. mails \in Seq(MailT) /\ tokens \in Seq(TokenT) /\ invites \in Seq(InviteT)
    BY DEF MailInv, MailTypes
  <2>1. ASSUME UNCHANGED mails PROVE MailsAreFinal
    BY <2>1 DEF MailsAreFinal
  <2>2. ASSUME UNCHANGED tokens PROVE TokensAreFinal
    BY <2>2 DEF TokensAreFinal
  <2>3. ASSUME UNCHANGED invites PROVE InvitesAreFinal
    BY <2>3 DEF InvitesAreFinal
  <2>4. CASE StartRegistration \/ StartPasswordRecovery
    BY <2>3, <2>4, StartIsFinal DEF StartRegistration, StartPasswordRecovery, Purpose
  <2>5. ASSUME NEW t \in DOMAIN tokens, Confirm(t) \/ CompletePasswordRecovery(t)
        PROVE  MailsAreFinal /\ TokensAreFinal /\ InvitesAreFinal
    <3>1. UNCHANGED invites
      BY <2>5 DEF Confirm, CompletePasswordRecovery
    <3> QED
      BY <2>3, <2>5, <3>1, ConfirmIsFinal, CompleteIsFinal
  <2>6. CASE CreateInvite
    BY <2>2, <2>6, CreateIsFinal DEF CreateInvite
  <2>7. CASE RevokeMember
    BY <2>1, <2>2, <2>3, <2>7 DEF RevokeMember
  <2>8. ASSUME NEW i \in DOMAIN invites, AcceptInvite(i) \/ RevokeInvite(i)
        PROVE  MailsAreFinal /\ TokensAreFinal /\ InvitesAreFinal
    <3>1. UNCHANGED tokens /\ invites[i].status = "pending"
      BY <2>8 DEF AcceptInvite, RevokeInvite
    <3>2. PICK status : EndInvite(i, status)
      BY <2>8 DEF AcceptInvite, RevokeInvite
    <3> QED
      BY <2>2, <3>1, <3>2, InviteIsFinal
  <2>9. ASSUME NEW w \in Sender, Deliver(w) \/ SenderCrash(w)
        PROVE  MailsAreFinal /\ TokensAreFinal /\ InvitesAreFinal
    <3>1. UNCHANGED <<tokens, invites>>
      <4>1. UNCHANGED actionVars
        BY <2>9, Zenon DEF Deliver, LeaseNext, Send, Finish, SenderCrash
      <4> QED
        BY <4>1 DEF actionVars
    <3>2. MailsAreFinal
      BY <2>1, <2>9, DeliverIsFinal DEF SenderCrash
    <3> QED
      BY <2>2, <2>3, <3>1, <3>2
  <2>10. ASSUME NEW t \in DOMAIN tokens, TokenExpires(t) PROVE MailsAreFinal /\ TokensAreFinal /\ InvitesAreFinal
    <3>1. UNCHANGED <<mails, invites>> /\ tokens[t].state = "live"
          /\ \A s \in DOMAIN tokens : s # t => tokens'[s] = tokens[s]
      BY <2>0, <2>10 DEF TokenExpires
    <3> QED
      BY <2>1, <2>3, <3>1 DEF TokensAreFinal
  <2>11. ASSUME NEW i \in DOMAIN invites, InviteExpires(i) PROVE MailsAreFinal /\ TokensAreFinal /\ InvitesAreFinal
    <3>1. UNCHANGED <<mails, tokens>> /\ invites[i].status = "pending"
          /\ \A j \in DOMAIN invites : j # i => invites'[j] = invites[j]
      BY <2>0, <2>11 DEF InviteExpires
    <3> QED
      BY <2>1, <2>2, <3>1 DEF InvitesAreFinal
  <2>12. ASSUME NEW m \in DOMAIN mails, MailComesDue(m) \/ LeaseExpires(m)
         PROVE  MailsAreFinal /\ TokensAreFinal /\ InvitesAreFinal
    <3>1. UNCHANGED <<tokens, invites>> /\ mails[m].status \notin FinalStatus
          /\ \A x \in DOMAIN mails : x # m => mails'[x] = mails[x]
      BY <2>0, <2>12 DEF MailComesDue, LeaseExpires, actionVars, FinalStatus
    <3> QED
      BY <2>2, <2>3, <3>1 DEF MailsAreFinal
  <2> QED
    BY <2>4, <2>5, <2>6, <2>7, <2>8, <2>9, <2>10, <2>11, <2>12 DEF MailNext, TimePasses
<1> QED
  BY <1>1, <1>2, <1>3, PTL DEF MailSpec
=============================================================================
