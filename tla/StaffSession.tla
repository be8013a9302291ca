-------------------------------- MODULE StaffSession --------------------------------
(***************************************************************************)
(* One member of staff in one browser with several tabs.  Each tab keeps   *)
(* its access token in memory and has at most one refresh in flight; the   *)
(* tabs share the refresh cookie and the session hint.  The server rotates *)
(* a refresh token in separate calls to Redis and Postgres, and a session  *)
(* carries the password version it was opened under.                       *)
(*                                                                         *)
(* A call with an access token that is good changes nothing here and is    *)
(* left out; a page is not left while a request of it is in flight.        *)
(***************************************************************************)
EXTENDS Naturals

CONSTANTS
    Tabs,
    Calls,          \* the API calls a tab can have in flight
    MaxRequests,    \* bound: refreshes, logins and logouts
    MaxChanges,     \* bound: password changes and deactivations
    MaxFaults       \* bound: lost answers, failed calls to Redis or Postgres

ASSUME LimitsAssumption == MaxRequests \in Nat /\ MaxChanges \in Nat /\ MaxFaults \in Nat

VARIABLES
    version,        \* the user's passwordVersion
    active,         \* the user's isActive
    live,           \* the refresh tokens in the store
    stamp,          \* the password version stored with each token
    issued,         \* how many tokens were issued: they are 1, 2, ...
    cookie,         \* the token in the refresh cookie, 0 if there is none
    hint,           \* the session hint cookie
    page, access,   \* of each tab: what it shows, its access token
    call,           \* of each tab: where each call is
    request,        \* of each tab: its login or its refreshInFlight
    logout,         \* of each tab: its logout
    requests, faults

user    == <<version, active>>
store   == <<live, stamp, issued>>
browser == <<cookie, hint, page, access>>
bounds  == <<requests, faults>>
vars    == <<user, store, browser, call, request, logout, bounds>>

Tokens  == 1 .. MaxRequests
NoToken == 0
Page    == {"loading", "anonymous", "app", "expired"}
Call    == {"idle", "refused", "waiting", "retry", "failed"}
Request == [kind : {"none", "refresh", "login"},
            step : {"none", "read", "check", "delete", "find", "issue", "drop", "ok", "refused"},
            token : Tokens \cup {NoToken}, version : Nat, made : Tokens \cup {NoToken}]
Logout  == [step : {"none", "read", "check", "delete", "revoke", "ok", "refused"},
            token : Tokens \cup {NoToken}]
None    == [kind |-> "none", step |-> "none", token |-> NoToken, version |-> 0,
            made |-> NoToken]
NoLogout == [step |-> "none", token |-> NoToken]

TypeOK ==
    /\ version \in Nat /\ active \in BOOLEAN
    /\ live \subseteq Tokens
    /\ stamp \in [Tokens -> Nat]
    /\ issued \in Nat
    /\ cookie \in Tokens \cup {NoToken} /\ hint \in BOOLEAN
    /\ page \in [Tabs -> Page]
    /\ access \in [Tabs -> {"none", "good", "dead"}]
    /\ call \in [Tabs -> [Calls -> Call]]
    /\ request \in [Tabs -> Request]
    /\ logout \in [Tabs -> Logout]
    /\ requests \in Nat /\ faults \in Nat

Init ==
    /\ version = 0 /\ active = TRUE
    /\ live = {}
    /\ stamp = [k \in Tokens |-> 0]
    /\ issued = 0
    /\ cookie = NoToken /\ hint = FALSE
    /\ page = [t \in Tabs |-> "anonymous"]
    /\ access = [t \in Tabs |-> "none"]
    /\ call = [t \in Tabs |-> [c \in Calls |-> "idle"]]
    /\ request = [t \in Tabs |-> None]
    /\ logout = [t \in Tabs |-> NoLogout]
    /\ requests = 0 /\ faults = 0

-----------------------------------------------------------------------------
(* The tabs: loading a page, calls that are refused, the refresh they share. *)

MayRequest == requests < MaxRequests /\ requests' = requests + 1

Start(t, kind, step, token) ==
    request' = [request EXCEPT ![t] = [None EXCEPT !.kind = kind, !.step = step,
                                                   !.token = token]]

Quiet(t) ==
    /\ request[t] = None /\ logout[t] = NoLogout
    /\ \A c \in Calls : call[t][c] \in {"idle", "failed"}

(* A page is loaded, again or in a new tab: what was in memory is gone.  The *)
(* provider's first effect asks for a token if the hint is set.            *)
LoadPage(t) ==
    /\ Quiet(t)
    /\ access' = [access EXCEPT ![t] = "none"]
    /\ call' = [call EXCEPT ![t] = [c \in Calls |-> "idle"]]
    /\ IF hint
       THEN /\ MayRequest
            /\ Start(t, "refresh", "read", cookie)
            /\ page' = [page EXCEPT ![t] = "loading"]
       ELSE /\ page' = [page EXCEPT ![t] = "anonymous"]
            /\ UNCHANGED <<request, requests>>
    /\ UNCHANGED <<user, store, cookie, hint, logout, faults>>

(* Fifteen minutes go by.                                                  *)
Expire(t) ==
    /\ access[t] = "good"
    /\ access' = [access EXCEPT ![t] = "dead"]
    /\ UNCHANGED <<user, store, cookie, hint, page, call, request, logout, bounds>>

(* apiRequest gets a 401.                                                  *)
CallRefused(t, c) ==
    /\ page[t] = "app"
    /\ access[t] # "good"
    /\ call[t][c] \in {"idle", "failed"}
    /\ call' = [call EXCEPT ![t] = [call[t] EXCEPT ![c] = "refused"]]
    /\ UNCHANGED <<user, store, browser, request, logout, bounds>>

(* refreshAccessToken: the refresh in flight, or a new one.                 *)
AskRefresh(t, c) ==
    /\ call[t][c] = "refused"
    /\ call' = [call EXCEPT ![t] = [call[t] EXCEPT ![c] = "waiting"]]
    /\ \/ request[t].kind = "refresh" /\ UNCHANGED <<request, requests>>
       \/ request[t] = None /\ MayRequest /\ Start(t, "refresh", "read", cookie)
    /\ UNCHANGED <<user, store, browser, logout, faults>>

Waiters(t, to) ==
    call' = [call EXCEPT ![t] = [c \in Calls |->
               IF call[t][c] = "waiting" THEN to ELSE call[t][c]]]

(* The second and last run of the call: with a 401 the page is left for     *)
(* session-expired, if the tab has a token.                                *)
Retry(t, c) ==
    /\ call[t][c] = "retry"
    /\ \/ /\ access[t] # "dead"
          /\ call' = [call EXCEPT ![t] = [call[t] EXCEPT ![c] = "idle"]]
          /\ UNCHANGED <<hint, page, access>>
       \/ /\ access[t] = "dead"
          /\ request[t] = None /\ logout[t] = NoLogout
          /\ call' = [call EXCEPT ![t] = [d \in Calls |-> "idle"]]
          /\ access' = [access EXCEPT ![t] = "none"]
          /\ hint' = FALSE
          /\ page' = [page EXCEPT ![t] = "expired"]
    /\ UNCHANGED <<user, store, cookie, request, logout, bounds>>

-----------------------------------------------------------------------------
(* rotateRefreshToken: the session, the user, the delete, the new token.    *)

Step(t, from, to) ==
    /\ request[t].step = from
    /\ request' = [request EXCEPT ![t] = [request[t] EXCEPT !.step = to]]

ReadSession(t) ==
    /\ Step(t, "read", IF request[t].token \in live THEN "check" ELSE "refused")
    /\ UNCHANGED <<user, store, browser, call, logout, bounds>>

(* The user must be active and have the session's password version.        *)
(* (Variant first: version 0 counts as none.)                              *)
CheckTruthy(t) ==
    /\ request[t].step = "check"
    /\ request' = [request EXCEPT ![t] =
                    [request[t] EXCEPT !.step = IF active /\ version = stamp[request[t].token]
                                                          /\ version # 0
                                                THEN "delete" ELSE "drop",
                                       !.version = version]]
    /\ UNCHANGED <<user, store, browser, call, logout, bounds>>

CheckUser(t) ==
    /\ request[t].step = "check"
    /\ request' = [request EXCEPT ![t] =
                    [request[t] EXCEPT !.step = IF active /\ version = stamp[request[t].token]
                                                THEN "delete" ELSE "drop",
                                       !.version = version]]
    /\ UNCHANGED <<user, store, browser, call, logout, bounds>>

DeleteToken(t, from, to) ==
    /\ Step(t, from, to)
    /\ live' = live \ {request[t].token}
    /\ UNCHANGED <<user, stamp, issued, browser, call, logout, bounds>>

DropToken(t) == DeleteToken(t, "drop", "refused")

TakeToken(t) == DeleteToken(t, "delete", "issue")

(* issueTokenPair, with the version that was read with the user.           *)
(* (Variant first: with the version of the moment.)                        *)
IssueWith(t, v) ==
    /\ request[t].step = "issue"
    /\ issued < MaxRequests
    /\ issued' = issued + 1
    /\ live' = live \cup {issued + 1}
    /\ stamp' = [stamp EXCEPT ![issued + 1] = v]
    /\ request' = [request EXCEPT ![t] = [request[t] EXCEPT !.step = "ok", !.made = issued + 1]]
    /\ UNCHANGED <<user, browser, call, logout, bounds>>

IssueFresh(t) == IssueWith(t, version)

Issue(t) == IssueWith(t, request[t].version)

(* The answer arrives: the cookie is set, the waiting calls run again.      *)
(* (Variant first: the handler of the refresh sets no cookie.)             *)
AnsweredWith(t, k) ==
    /\ request[t].step = "ok"
    /\ cookie' = k
    /\ access' = [access EXCEPT ![t] = "good"]
    /\ IF request[t].kind = "login"
       THEN hint' = TRUE /\ page' = [page EXCEPT ![t] = "app"] /\ UNCHANGED call
       ELSE /\ page' = IF page[t] = "loading" THEN [page EXCEPT ![t] = "app"] ELSE page
            /\ Waiters(t, "retry")
            /\ UNCHANGED hint
    /\ request' = [request EXCEPT ![t] = None]
    /\ UNCHANGED <<user, store, logout, bounds>>

AnsweredOnly(t) ==
    AnsweredWith(t, IF request[t].kind = "login" THEN request[t].made ELSE cookie)

Answered(t) == AnsweredWith(t, request[t].made)

(* A 401, or no answer at all: the tab forgets its token, the calls fail.   *)
Failed(t) ==
    /\ IF request[t].kind = "login"
       THEN UNCHANGED <<hint, page, access, call>>
       ELSE /\ access' = [access EXCEPT ![t] = "none"]
            /\ Waiters(t, "failed")
            /\ IF page[t] = "loading"
               THEN hint' = FALSE /\ page' = [page EXCEPT ![t] = "anonymous"]
               ELSE UNCHANGED <<hint, page>>
    /\ UNCHANGED <<user, store, cookie, logout>>

Refused(t) ==
    /\ request[t].step = "refused"
    /\ Failed(t)
    /\ request' = [request EXCEPT ![t] = None]
    /\ UNCHANGED bounds

-----------------------------------------------------------------------------
(* login, and the checks that may refuse it.                               *)

Login(t) ==
    /\ page[t] \in {"anonymous", "expired"}
    /\ request[t] = None
    /\ MayRequest
    /\ Start(t, "login", "find", NoToken)
    /\ UNCHANGED <<user, store, browser, call, logout, faults>>

FindUser(t) ==
    /\ request[t].step = "find"
    /\ \E accepted \in BOOLEAN :
          request' = [request EXCEPT ![t] =
                       [request[t] EXCEPT !.step = IF active /\ accepted THEN "issue"
                                                   ELSE "refused",
                                          !.version = version]]
    /\ UNCHANGED <<user, store, browser, call, logout, bounds>>

-----------------------------------------------------------------------------
(* logoutSession.  The tab forgets its token and its hint whatever comes    *)
(* back; a dead access token is refused before the session is looked for.   *)

LogOut(t) ==
    /\ page[t] = "app"
    /\ logout[t] = NoLogout
    /\ MayRequest
    /\ logout' = [logout EXCEPT ![t] = [step |-> IF access[t] = "good" THEN "read" ELSE "refused",
                                        token |-> cookie]]
    /\ UNCHANGED <<user, store, browser, call, request, faults>>

LogoutStep(t, from, to) ==
    /\ logout[t].step = from
    /\ logout' = [logout EXCEPT ![t] = [logout[t] EXCEPT !.step = to]]

LogoutRead(t) ==
    /\ LogoutStep(t, "read", IF logout[t].token \in live THEN "check" ELSE "refused")
    /\ UNCHANGED <<user, store, browser, call, request, bounds>>

LogoutCheck(t) ==
    /\ LogoutStep(t, "check", IF active /\ version = stamp[logout[t].token]
                              THEN "delete" ELSE "refused")
    /\ UNCHANGED <<user, store, browser, call, request, bounds>>

LogoutDelete(t) ==
    /\ LogoutStep(t, "delete", "revoke")
    /\ live' = live \ {logout[t].token}
    /\ UNCHANGED <<user, stamp, issued, browser, call, request, bounds>>

(* The access token the logout came with is refused from now on.           *)
LogoutRevoke(t) ==
    /\ LogoutStep(t, "revoke", "ok")
    /\ access' = IF access[t] = "good" THEN [access EXCEPT ![t] = "dead"] ELSE access
    /\ UNCHANGED <<user, store, cookie, hint, page, call, request, bounds>>

LoggedOut(t) ==
    /\ logout[t].step \in {"ok", "refused"}
    /\ cookie' = IF logout[t].step = "ok" THEN NoToken ELSE cookie
    /\ hint' = FALSE
    /\ access' = [access EXCEPT ![t] = "none"]
    /\ page' = [page EXCEPT ![t] = "anonymous"]
    /\ logout' = [logout EXCEPT ![t] = NoLogout]
    /\ UNCHANGED <<user, store, call, request, bounds>>

-----------------------------------------------------------------------------
(* What ends the sessions of the user: changePassword in a tab, the reset   *)
(* by mail, an administrator.                                              *)

ChangePassword ==
    /\ active
    /\ version < MaxChanges
    /\ version' = version + 1
    /\ UNCHANGED <<active, store, browser, call, request, logout, bounds>>

DeactivateUser ==
    /\ active
    /\ version < MaxChanges
    /\ active' = FALSE
    /\ UNCHANGED <<version, store, browser, call, request, logout, bounds>>

-----------------------------------------------------------------------------
(* Faults: a call of the server fails (the answer is an error), or the      *)
(* answer is lost.                                                         *)

RequestLost(t) ==
    /\ faults < MaxFaults /\ faults' = faults + 1
    /\ request[t] # None
    /\ Failed(t)
    /\ request' = [request EXCEPT ![t] = None]
    /\ UNCHANGED requests

LogoutLost(t) ==
    /\ faults < MaxFaults /\ faults' = faults + 1
    /\ logout[t].step \in {"read", "check", "delete", "revoke", "ok"}
    /\ logout' = [logout EXCEPT ![t] = [logout[t] EXCEPT !.step = "refused"]]
    /\ UNCHANGED <<user, store, browser, call, request, requests>>

-----------------------------------------------------------------------------
Serving(t) ==
    ReadSession(t) \/ CheckUser(t) \/ DropToken(t) \/ TakeToken(t) \/ FindUser(t) \/ Issue(t)

Arriving(t) == Answered(t) \/ Refused(t)

LoggingOut(t) ==
    LogoutRead(t) \/ LogoutCheck(t) \/ LogoutDelete(t) \/ LogoutRevoke(t) \/ LoggedOut(t)

Next ==
    \/ \E t \in Tabs :
          \/ LoadPage(t) \/ Expire(t) \/ Login(t) \/ LogOut(t)
          \/ Serving(t) \/ Arriving(t) \/ LoggingOut(t) \/ RequestLost(t) \/ LogoutLost(t)
          \/ \E c \in Calls : CallRefused(t, c) \/ AskRefresh(t, c) \/ Retry(t, c)
    \/ ChangePassword
    \/ DeactivateUser

Spec == Init /\ [][Next]_vars

-----------------------------------------------------------------------------
(* Properties.                                                             *)

Current(k) == active /\ stamp[k] = version

Replacing(t, k) == request[t].token = k /\ request[t].step \in {"issue", "ok"}

LoggingOutOf(t, k) == logout[t].token = k /\ logout[t].step \in {"revoke", "ok"}

(* Tabs that refresh at the same time never lose the browser's session: if  *)
(* no call failed, the cookie's token is in the store as long as its        *)
(* password version is the user's, or some tab is about to replace it or to *)
(* take it away.                                                           *)
SessionKept ==
    faults = 0 /\ cookie # NoToken /\ Current(cookie) =>
        \/ cookie \in live
        \/ \E t \in Tabs : Replacing(t, cookie) \/ LoggingOutOf(t, cookie)

(* A tab whose refresh is refused though its session is current lost a race: *)
(* the cookie has moved on, or another tab is moving it.  A second try       *)
(* works, unless somebody logs out.                                        *)
RefusalIsARace ==
    \A t \in Tabs :
        /\ faults = 0
        /\ request[t].kind = "refresh" /\ request[t].step = "refused"
        /\ request[t].token # NoToken /\ Current(request[t].token)
        => \/ cookie # request[t].token
           \/ \E u \in Tabs : \/ u # t /\ Replacing(u, request[t].token)
                              \/ LoggingOutOf(u, request[t].token)

(* A refresh never lifts a session over a password change: the new token    *)
(* has the version of the one it replaces, so that what was open before the *)
(* change cannot be renewed after it.                                      *)
VersionInherited ==
    \A t \in Tabs :
        request[t].kind = "refresh" /\ request[t].step = "ok" =>
            stamp[request[t].made] = stamp[request[t].token]
====
