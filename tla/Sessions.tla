------------------------------ MODULE Sessions ------------------------------
(***************************************************************************)
(* One browser session: the rotation of its refresh token on the server    *)
(* (identity/service.py) and the tabs that ask for it over one cookie jar  *)
(* (web/src/features/auth/session.ts).                                     *)
(*                                                                         *)
(* A refresh token is the index of its row; the access token is the value  *)
(* of rotation_counter it was issued at, which also stands for its expiry. *)
(***************************************************************************)
EXTENDS Naturals, Sequences, FiniteSets

CONSTANTS
  BrowserTab,   \* tabs of the browser
  WebLocks,     \* navigator.locks exists in it
  MaxTokens,    \* bound: refresh tokens ever issued
  MaxLost       \* bound: requests whose answer does not reach the tab

VARIABLES
  refresh,    \* refresh_tokens of the session
  session,    \* auth_sessions: counter, revoke_reason, access token expired, and
              \* over: its refresh time has passed, or its device or user is out
  jar,        \* cookies: refresh token and access token, 0 when cleared
  tab,        \* per tab: its step, what it observed, and what it expects
  wire,       \* requests to /auth/refresh that are not finished
  lost        \* history: requests given up
sessionVars == <<refresh, session, jar, tab, wire, lost>>

ASSUME SessionConstants ==
  MaxTokens \in Nat \ {0} /\ MaxLost \in Nat /\ WebLocks \in BOOLEAN

TokenStatus == {"active", "rotated", "revoked"}
NewToken == [status |-> "active", inGrace |-> FALSE]
RefreshAnswers == {"none", "issued", "denied"}

\* issue_session: the tabs have read /auth/session.
SessionInit ==
  /\ refresh = <<NewToken>>
  /\ session = [counter |-> 1, revoked |-> "no", expired |-> FALSE, over |-> FALSE]
  /\ jar = [refresh |-> 1, access |-> 1]
  /\ tab = [t \in BrowserTab |-> [step |-> "idle", observed |-> 1, expected |-> 0]]
  /\ wire = {} /\ lost = 0

Active == {i \in DOMAIN refresh : refresh[i].status = "active"}
SessionLives == session.revoked = "no"

\* authenticate_access: only the newest access token of a live session.
AccessAccepted == jar.access = session.counter /\ SessionLives /\ ~session.expired

-----------------------------------------------------------------------------
(* The server.                                                             *)

\* _revoke_session ends the active tokens too and keeps the first reason.
RevokeSession(reason) ==
  /\ session' = [session EXCEPT !.revoked = IF SessionLives THEN reason ELSE @]
  /\ refresh' = [i \in DOMAIN refresh |->
                   IF refresh[i].status = "active"
                   THEN [refresh[i] EXCEPT !.status = "revoked"] ELSE refresh[i]]

\* The token to rotate: the one presented, or, while it was rotated less than
\* refresh_reuse_grace_seconds ago, the only active one; 0 is a reuse.
RotationToken(i) ==
  IF refresh[i].status = "active" THEN i
  ELSE IF refresh[i].status = "rotated" /\ refresh[i].inGrace /\ Cardinality(Active) = 1
  THEN CHOOSE a \in Active : TRUE
  ELSE 0

Rotate(i) ==
  /\ refresh' = Append([refresh EXCEPT ![i].status = "rotated", ![i].inGrace = TRUE], NewToken)
  /\ session' = [session EXCEPT !.counter = @ + 1, !.expired = FALSE]

Refusable == ~SessionLives \/ session.over

Outcome(r, answer, token, access) ==
  wire' = (wire \ {r}) \cup
          (IF r.lost THEN {} ELSE {[r EXCEPT !.answer = answer, !.new = token, !.access = access]})

\* refresh: the rows of token, session, user and device are locked.
HandleRefresh(r) ==
  /\ r \in wire /\ r.answer = "none"
  /\ IF Refusable
     THEN RevokeSession("expired") /\ Outcome(r, "denied", 0, 0)
     ELSE IF RotationToken(r.token) = 0
     THEN RevokeSession("refresh_reuse") /\ Outcome(r, "denied", 0, 0)
     ELSE /\ Rotate(RotationToken(r.token))
          /\ Outcome(r, "issued", Len(refresh) + 1, session.counter + 1)
  /\ UNCHANGED <<jar, tab, lost>>

GraceEnds(i) ==
  /\ refresh[i].inGrace /\ refresh' = [refresh EXCEPT ![i].inGrace = FALSE]
  /\ UNCHANGED <<session, jar, tab, wire, lost>>
AccessExpires ==
  /\ ~session.expired /\ session' = [session EXCEPT !.expired = TRUE]
  /\ UNCHANGED <<refresh, jar, tab, wire, lost>>
\* refresh_expires_at passes, after the access token's expiry, or the user is
\* suspended: the access token is not accepted any more either.
SessionLapses ==
  /\ ~session.over /\ session' = [session EXCEPT !.over = TRUE, !.expired = TRUE]
  /\ UNCHANGED <<refresh, jar, tab, wire, lost>>

\* revoke_device and revoke_other_sessions revoke the session alone.
RevokedElsewhere ==
  /\ SessionLives /\ session' = [session EXCEPT !.revoked = "device_revoked"]
  /\ UNCHANGED <<refresh, jar, tab, wire, lost>>

-----------------------------------------------------------------------------
(* The browser.                                                            *)

\* createWebLockRefreshCoordinator: one tab at a time, when there are locks.
InLock(t) == tab[t].step \in {"check", "refresh", "wait"}
\* Mutant: every tab at once.
MayAlwaysEnter(t) == TRUE
\* Mutant: a tab that waits counts as one inside.
MayEnterAlone(t) ==
  \A u \in BrowserTab \ {t} : tab[u].step \in {"idle", "anonymous"}
MayEnter(t) == WebLocks => \A u \in BrowserTab : ~InLock(u)

Asking == {u \in BrowserTab : tab[u].step \notin {"idle", "anonymous"}}
\* Bound: every refresh asked for may issue a token.
MayAsk == Len(refresh) + Cardinality(Asking) + Cardinality({r \in wire : r.lost}) < MaxTokens

\* refresh(): a timer before the expiry, a 401 or an error state asks for it;
\* a tab has one in flight.
AskRefresh(t) ==
  /\ tab[t].step = "idle" /\ MayAsk
  /\ tab' = [tab EXCEPT ![t].step = "lock", ![t].expected = tab[t].observed]
  /\ UNCHANGED <<refresh, session, jar, wire, lost>>

EnterLock(t) ==
  /\ tab[t].step = "lock" /\ MayEnter(t)
  /\ tab' = [tab EXCEPT ![t].step = "check"]
  /\ UNCHANGED <<refresh, session, jar, wire, lost>>

\* current(): another tab has already refreshed, or it has to be done.
CheckSession(t) ==
  /\ tab[t].step = "check"
  /\ tab' = IF AccessAccepted /\ session.counter > tab[t].expected
            THEN [tab EXCEPT ![t] = [step |-> "idle", observed |-> session.counter, expected |-> 0]]
            ELSE [tab EXCEPT ![t].step = "refresh"]
  /\ UNCHANGED <<refresh, session, jar, wire, lost>>

\* Without the cookies there is nothing to send: the tab is anonymous.
SendRefresh(t) ==
  /\ tab[t].step = "refresh"
  /\ IF jar.refresh = 0
     THEN /\ tab' = [tab EXCEPT ![t].step = "anonymous"] /\ UNCHANGED wire
     ELSE /\ tab' = [tab EXCEPT ![t].step = "wait"]
          /\ wire' = wire \cup {[tab |-> t, token |-> jar.refresh, answer |-> "none",
                                 new |-> 0, access |-> 0, lost |-> FALSE]}
  /\ UNCHANGED <<refresh, session, jar, lost>>

\* Set-Cookie of the answer; a 401 clears the cookies.
ReceiveRefresh(r) ==
  /\ r \in wire /\ r.answer # "none" /\ wire' = wire \ {r}
  /\ jar' = [refresh |-> r.new, access |-> r.access]
  /\ tab' = IF r.answer = "issued"
            THEN [tab EXCEPT ![r.tab] = [step |-> "idle", observed |-> r.access, expected |-> 0]]
            ELSE [tab EXCEPT ![r.tab].step = "anonymous"]
  /\ UNCHANGED <<refresh, session, lost>>

\* The request times out or its answer is lost: an error state, which may
\* ask again; the server may still handle the request later.
GiveUp(r) ==
  /\ r \in wire /\ ~r.lost /\ lost < MaxLost /\ lost' = lost + 1
  /\ wire' = (wire \ {r}) \cup (IF r.answer = "none" THEN {[r EXCEPT !.lost = TRUE]} ELSE {})
  /\ tab' = [tab EXCEPT ![r.tab].step = "idle", ![r.tab].observed = 0]
  /\ UNCHANGED <<refresh, session, jar>>

\* logout locks the user's row, so it comes before or after a refresh.
Logout(t) ==
  /\ tab[t].step = "idle" /\ AccessAccepted
  /\ RevokeSession("logout")
  /\ jar' = [refresh |-> 0, access |-> 0]
  /\ tab' = [tab EXCEPT ![t].step = "anonymous"]
  /\ UNCHANGED <<wire, lost>>

-----------------------------------------------------------------------------
TabStep(t) ==
  \/ EnterLock(t) \/ CheckSession(t) \/ SendRefresh(t)
  \/ \E r \in wire : r.tab = t /\ (HandleRefresh(r) \/ ReceiveRefresh(r))
SessionNext ==
  \/ \E t \in BrowserTab : AskRefresh(t) \/ TabStep(t) \/ Logout(t)
  \/ \E r \in wire : GiveUp(r)
  \/ \E i \in DOMAIN refresh : GraceEnds(i)
  \/ AccessExpires \/ SessionLapses \/ RevokedElsewhere

SessionSpec == SessionInit /\ [][SessionNext]_sessionVars
\* Locks are granted in turn, requests are handled, answered or given up.
SessionFairness ==
  /\ \A t \in BrowserTab : SF_sessionVars(EnterLock(t)) /\ WF_sessionVars(TabStep(t))
FairSessionSpec == SessionSpec /\ SessionFairness

-----------------------------------------------------------------------------
(* Properties.                                                             *)

\* Every variable has its type.
SessionTypeOK ==
  /\ refresh \in Seq([status : TokenStatus, inGrace : BOOLEAN])
  /\ session \in [counter : Nat, expired : BOOLEAN, over : BOOLEAN,
                  revoked : {"no", "expired", "refresh_reuse", "device_revoked", "logout"}]
  /\ jar \in [refresh : 0..Len(refresh), access : Nat]
  /\ tab \in [BrowserTab -> [step : {"idle", "lock", "check", "refresh", "wait", "anonymous"},
                             observed : Nat, expected : Nat]]
  /\ wire \subseteq [tab : BrowserTab, token : DOMAIN refresh, answer : RefreshAnswers,
                     new : 0..Len(refresh), access : Nat, lost : BOOLEAN]
  /\ lost \in 0..MaxLost

\* A live session has exactly one active refresh token, its newest, however
\* often a rotated one is presented again; a session ended by its own browser
\* or by a reuse has none (refresh, _recover_refresh_rotation, _revoke_session).
OneActiveToken ==
  /\ session.counter = Len(refresh)
  /\ Active \subseteq {Len(refresh)}
  /\ SessionLives => Active # {}
  /\ session.revoked \in {"expired", "refresh_reuse", "logout"} => Active = {}

\* The tabs of one browser never make the server take them for a thief: a
\* session ends as refresh_reuse only after an answer was lost (the lock of
\* createWebLockRefreshCoordinator and the check of /auth/session inside it).
ReuseNeedsALoss == session.revoked = "refresh_reuse" => lost > 0

\* At rest the cookie jar holds the active token: no answer of an earlier
\* refresh overwrites that of a later one.
JarHoldsActiveToken ==
  lost = 0 /\ SessionLives /\ wire = {} => jar.refresh \in Active

\* A step on a session that was revoked leaves it so, with its reason, and
\* issues nothing on it, whatever requests were on their way.
RevokedStaysRevoked ==
  session.revoked # "no" =>
    session'.revoked = session.revoked /\ session'.counter = session.counter

\* A tab that asks for a refresh gets an answer: no tab waits for ever.
TabsSettle ==
  \A t \in BrowserTab : tab[t].step = "lock" ~> tab[t].step \in {"idle", "anonymous"}

\* However the tabs of one browser race, they keep one session alive.
TabsShareOneSession == OneActiveToken /\ ReuseNeedsALoss /\ JarHoldsActiveToken
=============================================================================
