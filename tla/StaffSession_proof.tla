----------------------------- MODULE StaffSession_proof -----------------------------
(***************************************************************************)
(* The races of the tabs for the refresh token they share, for any number  *)
(* of tabs, calls, requests, password changes and faults.                  *)
(*                                                                         *)
(* What carries the argument is who can know a token: one that was issued  *)
(* and not yet answered is in the store, and no cookie, no request and no  *)
(* logout holds it, so nobody can take it away before it arrives.          *)
(***************************************************************************)
EXTENDS StaffSession, AccountState, FiniteSetTheorems, TLAPS

(* What a request knows of its token and of the version it read.           *)
RequestInv ==
    \A t \in Tabs :
        /\ request[t].step = "find" => request[t].kind = "login"
        /\ request[t].step \in {"check", "drop", "delete"} => request[t].token # NoToken
        /\ request[t].kind = "refresh" /\ request[t].step \in {"delete", "issue", "ok"} =>
              request[t].token # NoToken /\ stamp[request[t].token] = request[t].version
        /\ request[t].step = "drop" => ~Current(request[t].token)
        /\ request[t].version <= version
        /\ request[t].step = "ok" =>
              request[t].made # NoToken /\ stamp[request[t].made] = request[t].version

IssuedInv ==
    /\ \A k \in live : k <= issued
    /\ cookie <= issued
    /\ \A t \in Tabs :
          request[t].token <= issued /\ request[t].made <= issued /\ logout[t].token <= issued
    /\ \A k \in Tokens : stamp[k] <= version

(* A token that is on its way to the browser is known to nobody else.      *)
FreshInv ==
    \A t \in Tabs :
        request[t].step = "ok" =>
            /\ request[t].made \in live /\ cookie # request[t].made
            /\ \A u \in Tabs :
                  /\ request[u].token # request[t].made /\ logout[u].token # request[t].made
                  /\ u # t /\ request[u].step = "ok" => request[u].made # request[t].made

CoreInv == RequestInv /\ IssuedInv /\ FreshInv /\ SessionKept /\ RefusalIsARace

IInv == TypeOK /\ CoreInv

-----------------------------------------------------------------------------
(* Types, and what a step does to a request or a logout.                   *)

LEMMA InitType == Init => TypeOK
<1> SUFFICES ASSUME Init PROVE TypeOK
  OBVIOUS
<1>1. None \in Request /\ NoLogout \in Logout /\ "idle" \in Call
  BY DEF None, Request, NoLogout, Logout, Call
<1> QED
  BY <1>1 DEF Init, TypeOK, Page, NoToken

LEMMA RequestType ==
    ASSUME TypeOK, NEW t \in Tabs
    PROVE  /\ request[t] \in Request /\ request[t].token \in Tokens \cup {NoToken}
           /\ request[t].made \in Tokens \cup {NoToken} /\ request[t].version \in Nat
           /\ logout[t] \in Logout /\ logout[t].token \in Tokens \cup {NoToken}
BY DEF TypeOK, Request, Logout

LEMMA StartStep ==
    ASSUME TypeOK, NEW t \in Tabs, NEW kind \in {"refresh", "login"},
           NEW step \in {"read", "find"}, NEW token \in Tokens \cup {NoToken},
           Start(t, kind, step, token)
    PROVE  /\ request' \in [Tabs -> Request]
           /\ request'[t].kind = kind /\ request'[t].step = step
           /\ request'[t].token = token /\ request'[t].version = 0
           /\ request'[t].made = NoToken
           /\ \A u \in Tabs : u # t => request'[u] = request[u]
BY DEF TypeOK, Request, Start, None

LEMMA StepStep ==
    ASSUME TypeOK, NEW t \in Tabs, NEW from,
           NEW to \in {"check", "delete", "issue", "drop", "ok", "refused"}, Step(t, from, to)
    PROVE  /\ request' \in [Tabs -> Request]
           /\ request[t].step = from /\ request'[t].step = to
           /\ request'[t].kind = request[t].kind /\ request'[t].token = request[t].token
           /\ request'[t].version = request[t].version /\ request'[t].made = request[t].made
           /\ \A u \in Tabs : u # t => request'[u] = request[u]
BY DEF TypeOK, Request, Step

LEMMA ReadStep ==
    ASSUME TypeOK, NEW t \in Tabs, NEW to \in {"delete", "drop", "issue", "refused"},
           request' = [request EXCEPT ![t] = [request[t] EXCEPT !.step = to, !.version = version]]
    PROVE  /\ request' \in [Tabs -> Request]
           /\ request'[t].step = to /\ request'[t].version = version
           /\ request'[t].kind = request[t].kind /\ request'[t].token = request[t].token
           /\ request'[t].made = request[t].made
           /\ \A u \in Tabs : u # t => request'[u] = request[u]
BY DEF TypeOK, Request

LEMMA MadeStep ==
    ASSUME TypeOK, NEW t \in Tabs, NEW k \in Tokens,
           request' = [request EXCEPT ![t] = [request[t] EXCEPT !.step = "ok", !.made = k]]
    PROVE  /\ request' \in [Tabs -> Request]
           /\ request'[t].step = "ok" /\ request'[t].made = k
           /\ request'[t].kind = request[t].kind /\ request'[t].token = request[t].token
           /\ request'[t].version = request[t].version
           /\ \A u \in Tabs : u # t => request'[u] = request[u]
BY DEF TypeOK, Request

LEMMA EndStep ==
    ASSUME TypeOK, NEW t \in Tabs, request' = [request EXCEPT ![t] = None]
    PROVE  /\ request' \in [Tabs -> Request]
           /\ request'[t].kind = "none" /\ request'[t].step = "none"
           /\ request'[t].token = NoToken /\ request'[t].version = 0
           /\ request'[t].made = NoToken
           /\ \A u \in Tabs : u # t => request'[u] = request[u]
BY DEF TypeOK, Request, None

LEMMA LogoutChange ==
    ASSUME TypeOK, NEW t \in Tabs,
           NEW to \in {"none", "read", "check", "delete", "revoke", "ok", "refused"},
           NEW k \in Tokens \cup {NoToken},
           logout' = [logout EXCEPT ![t] = [step |-> to, token |-> k]]
    PROVE  /\ logout' \in [Tabs -> Logout]
           /\ logout'[t].step = to /\ logout'[t].token = k
           /\ \A u \in Tabs : u # t => logout'[u] = logout[u]
BY DEF TypeOK, Logout

LEMMA LogoutStepStep ==
    ASSUME TypeOK, NEW t \in Tabs, NEW to \in {"check", "delete", "revoke", "ok", "refused"},
           logout' = [logout EXCEPT ![t] = [logout[t] EXCEPT !.step = to]]
    PROVE  /\ logout' \in [Tabs -> Logout]
           /\ logout'[t].step = to /\ logout'[t].token = logout[t].token
           /\ \A u \in Tabs : u # t => logout'[u] = logout[u]
BY DEF TypeOK, Logout

LEMMA WaitersType ==
    ASSUME TypeOK, NEW t \in Tabs, NEW to \in {"retry", "failed"}, Waiters(t, to)
    PROVE  call' \in [Tabs -> [Calls -> Call]]
<1>1. ASSUME NEW c \in Calls
      PROVE  (IF call[t][c] = "waiting" THEN to ELSE call[t][c]) \in Call
  BY DEF TypeOK, Call
<1> QED
  BY <1>1 DEF TypeOK, Waiters

LEMMA FailedType ==
    ASSUME TypeOK, NEW t \in Tabs, Failed(t)
    PROVE  /\ hint' \in BOOLEAN /\ page' \in [Tabs -> Page]
           /\ access' \in [Tabs -> {"none", "good", "dead"}]
           /\ call' \in [Tabs -> [Calls -> Call]]
           /\ UNCHANGED <<version, active, live, stamp, issued, cookie, logout>>
<1>1. call' \in [Tabs -> [Calls -> Call]]
  BY WaitersType DEF Failed, TypeOK
<1> QED
  BY <1>1 DEF Failed, TypeOK, Page, user, store

LEMMA TabType ==
    ASSUME TypeOK, NEW t \in Tabs,
           \/ LoadPage(t) \/ Expire(t)
           \/ \E c \in Calls : CallRefused(t, c) \/ AskRefresh(t, c) \/ Retry(t, c)
    PROVE  TypeOK'
<1> USE DEF user, store, browser, bounds
<1>0. "idle" \in Call /\ [c \in Calls |-> "idle"] \in [Calls -> Call]
  BY DEF Call
<1>1. CASE LoadPage(t)
  <2>1. request' \in [Tabs -> Request] /\ requests' \in Nat
    BY <1>1, StartStep DEF LoadPage, MayRequest, TypeOK
  <2> QED
    BY <1>0, <1>1, <2>1 DEF LoadPage, TypeOK, Page
<1>2. CASE Expire(t)
  BY <1>2 DEF Expire, TypeOK
<1>3. ASSUME NEW c \in Calls, CallRefused(t, c) PROVE TypeOK'
  <2>1. "refused" \in Call
    BY DEF Call
  <2> QED
    BY <1>3, <2>1 DEF CallRefused, TypeOK
<1>4. ASSUME NEW c \in Calls, AskRefresh(t, c) PROVE TypeOK'
  <2>1. "waiting" \in Call
    BY DEF Call
  <2>2. request' \in [Tabs -> Request] /\ requests' \in Nat
    BY <1>4, StartStep DEF AskRefresh, MayRequest, TypeOK
  <2> QED
    BY <1>4, <2>1, <2>2 DEF AskRefresh, TypeOK
<1>5. ASSUME NEW c \in Calls, Retry(t, c) PROVE TypeOK'
  <2>1. call' \in [Tabs -> [Calls -> Call]]
    <3>1. PICK k \in [Calls -> Call] : call' = [call EXCEPT ![t] = k]
      <4>1. call[t] \in [Calls -> Call]
        BY DEF TypeOK
      <4>2. [call[t] EXCEPT ![c] = "idle"] \in [Calls -> Call]
        BY <1>0, <4>1
      <4> QED
        BY <1>0, <1>5, <4>2 DEF Retry
    <3> QED
      BY <3>1 DEF TypeOK
  <2>2. /\ hint' \in BOOLEAN /\ page' \in [Tabs -> Page]
        /\ access' \in [Tabs -> {"none", "good", "dead"}]
    BY <1>5 DEF Retry, TypeOK, Page
  <2>3. UNCHANGED <<user, store, cookie, request, logout, bounds>>
    BY <1>5 DEF Retry
  <2> QED
    BY <2>1, <2>2, <2>3 DEF TypeOK
<1> QED
  BY <1>1, <1>2, <1>3, <1>4, <1>5

LEMMA ServerType ==
    ASSUME TypeOK, NEW t \in Tabs, Serving(t) \/ Arriving(t) \/ RequestLost(t) \/ Login(t)
    PROVE  TypeOK'
<1> USE DEF user, store, browser, bounds
<1>1. CASE ReadSession(t)
  BY <1>1, StepStep DEF ReadSession, TypeOK
<1>2. CASE CheckUser(t)
  BY <1>2, ReadStep DEF CheckUser, TypeOK
<1>3. CASE DropToken(t) \/ TakeToken(t)
  <2>1. request' \in [Tabs -> Request]
    BY <1>3, StepStep DEF DropToken, TakeToken, DeleteToken
  <2> QED
    BY <1>3, <2>1 DEF DropToken, TakeToken, DeleteToken, TypeOK
<1>4. CASE FindUser(t)
  BY <1>4, ReadStep DEF FindUser, TypeOK
<1>5. CASE Issue(t)
  <2>1. issued + 1 \in Tokens
    BY <1>5, LimitsAssumption DEF Issue, IssueWith, TypeOK, Tokens
  <2>2. request' \in [Tabs -> Request]
    BY <1>5, <2>1, MadeStep DEF Issue, IssueWith
  <2> QED
    BY <1>5, <2>1, <2>2, RequestType DEF Issue, IssueWith, TypeOK
<1>6. CASE Answered(t)
  <2>1. request' \in [Tabs -> Request]
    BY <1>6, EndStep DEF Answered, AnsweredWith
  <2>2. call' \in [Tabs -> [Calls -> Call]]
    BY <1>6, WaitersType DEF Answered, AnsweredWith, TypeOK
  <2> QED
    BY <1>6, <2>1, <2>2, RequestType DEF Answered, AnsweredWith, TypeOK, Page
<1>7. CASE Refused(t) \/ RequestLost(t)
  <2>1. Failed(t) /\ request' \in [Tabs -> Request] /\ requests' \in Nat /\ faults' \in Nat
    BY <1>7, EndStep DEF Refused, RequestLost, TypeOK
  <2> QED
    BY <2>1, FailedType DEF TypeOK
<1>8. CASE Login(t)
  BY <1>8, StartStep DEF Login, MayRequest, TypeOK
<1> QED
  BY <1>1, <1>2, <1>3, <1>4, <1>5, <1>6, <1>7, <1>8 DEF Serving, Arriving

LEMMA LogoutType ==
    ASSUME TypeOK, NEW t \in Tabs, LogOut(t) \/ LoggingOut(t) \/ LogoutLost(t)
    PROVE  TypeOK'
<1> USE DEF user, store, browser, bounds
<1>1. CASE LogOut(t)
  <2>1. logout' \in [Tabs -> Logout]
    BY <1>1, LogoutChange DEF LogOut, TypeOK
  <2> QED
    BY <1>1, <2>1 DEF LogOut, MayRequest, TypeOK
<1>2. CASE LogoutRead(t) \/ LogoutCheck(t) \/ LogoutDelete(t) \/ LogoutRevoke(t) \/ LogoutLost(t)
  <2>1. logout' \in [Tabs -> Logout]
    BY <1>2, LogoutStepStep
       DEF LogoutRead, LogoutCheck, LogoutDelete, LogoutRevoke, LogoutLost, LogoutStep
  <2> QED
    BY <1>2, <2>1
       DEF LogoutRead, LogoutCheck, LogoutDelete, LogoutRevoke, LogoutLost, LogoutStep, TypeOK
<1>3. CASE LoggedOut(t)
  <2>1. logout' \in [Tabs -> Logout]
    BY <1>3, LogoutChange DEF LoggedOut, NoLogout
  <2> QED
    BY <1>3, <2>1 DEF LoggedOut, TypeOK, Page
<1> QED
  BY <1>1, <1>2, <1>3 DEF LoggingOut

LEMMA NextType == TypeOK /\ [Next]_vars => TypeOK'
<1> SUFFICES ASSUME TypeOK, [Next]_vars PROVE TypeOK'
  OBVIOUS
<1>1. CASE ChangePassword \/ DeactivateUser
  <2>1. version' \in Nat /\ active' \in BOOLEAN
    <3>1. CASE ChangePassword
      BY <3>1 DEF ChangePassword, TypeOK
    <3>2. CASE DeactivateUser
      BY <3>2 DEF DeactivateUser, TypeOK
    <3> QED
      BY <1>1, <3>1, <3>2
  <2>2. UNCHANGED <<store, browser, call, request, logout, bounds>>
    BY <1>1 DEF ChangePassword, DeactivateUser
  <2> QED
    BY <2>1, <2>2 DEF TypeOK, store, browser, bounds
<1>2. CASE UNCHANGED vars
  BY <1>2 DEF vars, TypeOK, user, store, browser, bounds
<1> QED
  BY <1>1, <1>2, TabType, ServerType, LogoutType DEF Next

(* Type correctness.                                                       *)
THEOREM Types == Spec => []TypeOK
BY InitType, NextType, PTL DEF Spec
-----------------------------------------------------------------------------
(* The core: requests, tokens and races.                                   *)

LEMMA InitCore == Init => CoreInv
<1> SUFFICES ASSUME Init PROVE CoreInv
  OBVIOUS
<1>1. RequestInv /\ FreshInv
  BY DEF Init, RequestInv, FreshInv, None
<1>2. IssuedInv
  BY DEF Init, IssuedInv, None, NoLogout, NoToken
<1>3. SessionKept /\ RefusalIsARace
  BY DEF Init, SessionKept, RefusalIsARace, None
<1> QED
  BY <1>1, <1>2, <1>3 DEF CoreInv

(* Steps of a page that touch no token.                                    *)
LEMMA CoreKept ==
    ASSUME CoreInv, UNCHANGED <<version, active, live, stamp, issued, cookie, request, logout, faults>>
    PROVE  CoreInv'
BY DEF CoreInv, RequestInv, IssuedInv, FreshInv, SessionKept, RefusalIsARace, Current, Replacing,
       LoggingOutOf

(* A request begins, or one that cannot be answered with a token ends.     *)
LEMMA Begins ==
    ASSUME TypeOK, CoreInv, NEW t \in Tabs,
           UNCHANGED <<version, active, live, stamp, issued, cookie, logout, faults>>,
           request[t].step \notin {"issue", "ok"},
           \A u \in Tabs : u # t => request'[u] = request[u],
           \/ request'[t].kind = "login" /\ request'[t].step = "find" /\ request'[t].token = NoToken
           \/ request'[t].kind = "refresh" /\ request'[t].step = "read" /\ request'[t].token = cookie
           \/ request'[t].kind = "none" /\ request'[t].step = "none" /\ request'[t].token = NoToken,
           request'[t].version = 0, request'[t].made = NoToken
    PROVE  CoreInv'
<1>1. /\ RequestInv /\ IssuedInv /\ FreshInv /\ SessionKept /\ RefusalIsARace
      /\ version \in Nat /\ issued \in Nat
  BY DEF CoreInv, TypeOK
<1>2. RequestInv'
  BY <1>1 DEF RequestInv, Current
<1>3. IssuedInv'
  BY <1>1 DEF IssuedInv, NoToken
<1>4. FreshInv'
  <2>1. \A u \in Tabs : request'[u].step = "ok" => u # t
    OBVIOUS
  <2>2. \A u \in Tabs : request[u].step = "ok" => request[u].made # NoToken
    BY <1>1 DEF RequestInv
  <2> QED
    BY <1>1, <2>1, <2>2 DEF FreshInv
<1>5. SessionKept'
  BY <1>1 DEF SessionKept, Current, Replacing, LoggingOutOf
<1>6. RefusalIsARace'
  BY <1>1 DEF RefusalIsARace, Current, Replacing, LoggingOutOf
<1> QED
  BY <1>2, <1>3, <1>4, <1>5, <1>6 DEF CoreInv

(* The reads of a request: its session is in the store, its user is active *)
(* and has the session's version, or it is refused.                        *)
LEMMA Reads ==
    ASSUME TypeOK, TypeOK', CoreInv, NEW t \in Tabs,
           ReadSession(t) \/ CheckUser(t) \/ FindUser(t)
    PROVE  CoreInv'
<1>1. /\ RequestInv /\ IssuedInv /\ FreshInv /\ SessionKept /\ RefusalIsARace
      /\ version \in Nat /\ issued \in Nat
  BY DEF CoreInv, TypeOK
<1>2. UNCHANGED <<version, active, live, stamp, issued, cookie, logout, faults>>
  BY DEF ReadSession, CheckUser, FindUser, user, store, browser, bounds
<1>3. /\ request'[t].kind = request[t].kind /\ request'[t].token = request[t].token
      /\ request'[t].made = request[t].made
      /\ \A u \in Tabs : u # t => request'[u] = request[u]
      /\ \/ /\ request[t].step = "read" /\ request'[t].version = request[t].version
            /\ \/ request'[t].step = "check" /\ request[t].token \in live
               \/ request'[t].step = "refused" /\ request[t].token \notin live
         \/ /\ request[t].step = "check" /\ request'[t].version = version
            /\ \/ /\ request'[t].step = "delete"
                  /\ version = stamp[request[t].token]
               \/ request'[t].step = "drop" /\ ~Current(request[t].token)
         \/ /\ request[t].step = "find" /\ request'[t].version = version
            /\ request'[t].step \in {"issue", "refused"}
  <2>1. CASE ReadSession(t)
    BY <2>1, StepStep DEF ReadSession
  <2>2. CASE CheckUser(t)
    BY <2>2, ReadStep DEF CheckUser, Current
  <2>3. CASE FindUser(t)
    BY <2>3, ReadStep DEF FindUser
  <2> QED
    BY <2>1, <2>2, <2>3
<1>4. live \subseteq Tokens /\ NoToken \notin Tokens
  BY DEF TypeOK, NoToken, Tokens
<1>5. RequestInv'
  BY <1>1, <1>2, <1>3, <1>4 DEF RequestInv, Current
<1>6. IssuedInv'
  BY <1>1, <1>2, <1>3 DEF IssuedInv
<1>7. FreshInv'
  <2>1. \A u \in Tabs : request'[u].token = request[u].token
    BY <1>3
  <2>2. \A u \in Tabs : request'[u].step = "ok" => u # t /\ request[u].step = "ok"
    BY <1>3
  <2> QED
    BY <1>1, <1>2, <1>3, <2>1, <2>2 DEF FreshInv
<1>8. \A u \in Tabs : \A k \in Tokens : Replacing(u, k) => Replacing(u, k)' /\ u # t
  BY <1>1, <1>3, <1>4 DEF Replacing, RequestInv
<1>9. SessionKept'
  BY <1>1, <1>2, <1>8 DEF SessionKept, Current, LoggingOutOf, TypeOK
<1>10. RefusalIsARace'
  <2> SUFFICES ASSUME NEW u \in Tabs, NEW k \in Tokens, faults = 0,
                      request'[u].kind = "refresh", request'[u].step = "refused",
                      request'[u].token = k, Current(k)
               PROVE  \/ cookie # k
                      \/ \E v \in Tabs : (v # u /\ Replacing(v, k)') \/ LoggingOutOf(v, k)
    BY <1>2, <1>3, RequestType DEF RefusalIsARace, Current, LoggingOutOf, Replacing
  <2>0. request[u].token = k /\ request[u].kind = "refresh"
    BY <1>3
  <2>2. CASE u = t
    <3>1. k \notin live
      BY <1>1, <1>3, <2>0, <2>2 DEF RequestInv
    <3>2. CASE cookie = k
      BY <1>1, <1>4, <1>8, <2>2, <3>1, <3>2 DEF SessionKept
    <3> QED
      BY <3>2
  <2>3. CASE u # t
    <3>1. request[u].step = "refused"
      BY <1>3, <2>3
    <3>2. (cookie # k) \/ \E v \in Tabs : (v # u /\ Replacing(v, k)) \/ LoggingOutOf(v, k)
      BY <1>1, <1>4, <2>0, <3>1 DEF RefusalIsARace
    <3> QED
      BY <1>8, <3>2
  <2> QED
    BY <2>2, <2>3
<1> QED
  BY <1>5, <1>6, <1>7, <1>9, <1>10 DEF CoreInv

(* A token is deleted: it is out of date, or about to be replaced.         *)
LEMMA Deletes ==
    ASSUME TypeOK, TypeOK', CoreInv, NEW t \in Tabs, DropToken(t) \/ TakeToken(t)
    PROVE  CoreInv'
<1>1. /\ RequestInv /\ IssuedInv /\ FreshInv /\ SessionKept /\ RefusalIsARace
      /\ version \in Nat /\ issued \in Nat
  BY DEF CoreInv, TypeOK
<1>2. /\ UNCHANGED <<version, active, stamp, issued, cookie, logout, faults>>
      /\ live' = live \ {request[t].token}
  BY DEF DropToken, TakeToken, DeleteToken, user, browser, bounds
<1>3. /\ request'[t].kind = request[t].kind /\ request'[t].token = request[t].token
      /\ request'[t].made = request[t].made /\ request'[t].version = request[t].version
      /\ \A u \in Tabs : u # t => request'[u] = request[u]
      /\ \/ request[t].step = "drop" /\ request'[t].step = "refused"
         \/ request[t].step = "delete" /\ request'[t].step = "issue"
  BY StepStep DEF DropToken, TakeToken, DeleteToken
<1>4. RequestInv'
  BY <1>1, <1>2, <1>3 DEF RequestInv, Current
<1>5. IssuedInv'
  BY <1>1, <1>2, <1>3 DEF IssuedInv
<1>6. FreshInv'
  <2>1. \A u \in Tabs : request'[u].token = request[u].token
    BY <1>3
  <2>2. \A u \in Tabs : request'[u].step = "ok" => u # t /\ request[u].step = "ok"
    BY <1>3
  <2> QED
    BY <1>1, <1>2, <1>3, <2>1, <2>2 DEF FreshInv
<1>7. \A u \in Tabs : \A k : Replacing(u, k) => Replacing(u, k)' /\ u # t
  BY <1>3 DEF Replacing
<1>8. SessionKept'
  <2> SUFFICES ASSUME NEW k, faults = 0, cookie = k, k # NoToken, Current(k)
               PROVE  (k \in live') \/ \E u \in Tabs : Replacing(u, k)' \/ LoggingOutOf(u, k)
    BY <1>2 DEF SessionKept, Current, LoggingOutOf, Replacing
  <2>1. CASE k = request[t].token
    <3>1. request[t].step = "delete" /\ request'[t].step = "issue"
      BY <1>1, <1>3, <2>1 DEF RequestInv
    <3> QED
      BY <1>3, <2>1, <3>1 DEF Replacing
  <2>2. CASE k # request[t].token
    BY <1>1, <1>2, <1>7, <2>2 DEF SessionKept
  <2> QED
    BY <2>1, <2>2
<1>9. RefusalIsARace'
  <2> SUFFICES ASSUME NEW u \in Tabs, NEW k \in Tokens, faults = 0,
                      request'[u].kind = "refresh", request'[u].step = "refused",
                      request'[u].token = k, Current(k)
               PROVE  \/ cookie # k
                      \/ \E v \in Tabs : (v # u /\ Replacing(v, k)') \/ LoggingOutOf(v, k)
    BY <1>2, <1>3, RequestType DEF RefusalIsARace, Current, LoggingOutOf, Replacing
  <2>0. request[u].token = k /\ request[u].kind = "refresh"
    BY <1>3
  <2>1. u # t
    BY <1>1, <1>3, <2>0 DEF RequestInv
  <2>2. request[u].step = "refused" /\ NoToken \notin Tokens
    BY <1>3, <2>1 DEF Tokens, NoToken
  <2>3. (cookie # k) \/ \E v \in Tabs : (v # u /\ Replacing(v, k)) \/ LoggingOutOf(v, k)
    BY <1>1, <2>0, <2>2 DEF RefusalIsARace
  <2> QED
    BY <1>7, <2>3
<1> QED
  BY <1>4, <1>5, <1>6, <1>8, <1>9 DEF CoreInv

(* A token is issued, with the version that was read.                      *)
LEMMA Issues ==
    ASSUME TypeOK, TypeOK', CoreInv, NEW t \in Tabs, Issue(t)
    PROVE  CoreInv'
<1> DEFINE k == issued + 1
<1>1. /\ RequestInv /\ IssuedInv /\ FreshInv /\ SessionKept /\ RefusalIsARace
      /\ version \in Nat /\ issued \in Nat /\ cookie \in Nat
  BY DEF CoreInv, TypeOK, Tokens, NoToken
<1>2. /\ k \in Tokens /\ k # NoToken
  BY LimitsAssumption DEF Issue, IssueWith, TypeOK, Tokens, NoToken
<1>3. /\ UNCHANGED <<version, active, cookie, logout, faults>>
      /\ issued' = k /\ live' = live \cup {k} /\ request[t].step = "issue"
      /\ stamp' = [stamp EXCEPT ![k] = request[t].version]
      /\ request' = [request EXCEPT ![t] = [request[t] EXCEPT !.step = "ok", !.made = k]]
  BY DEF Issue, IssueWith, user, browser, bounds
<1>4. /\ request'[t].kind = request[t].kind /\ request'[t].token = request[t].token
      /\ request'[t].made = k /\ request'[t].version = request[t].version
      /\ request'[t].step = "ok"
      /\ \A u \in Tabs : u # t => request'[u] = request[u]
  BY <1>2, <1>3, MadeStep
<1>5. stamp'[k] = request[t].version /\ \A j \in Tokens : j # k => stamp'[j] = stamp[j]
  BY <1>2, <1>3 DEF TypeOK
<1>6. /\ \A j \in live : j # k
      /\ cookie # k
      /\ \A u \in Tabs : /\ request[u].token # k /\ request[u].made # k /\ logout[u].token # k
                         /\ request[u].token \in Tokens \cup {NoToken}
                         /\ request[u].made \in Tokens \cup {NoToken}
      /\ cookie \in Tokens \cup {NoToken}
  BY <1>1, RequestType DEF IssuedInv, TypeOK, Tokens, NoToken
<1>7. /\ k > issued /\ \A j \in Nat : j <= issued => j <= k
      /\ \A j \in Tokens \cup {NoToken} : j \in Nat
  BY <1>1 DEF Tokens, NoToken
<1>8. IssuedInv'
  <2>0. /\ \A j \in live : j <= issued /\ j \in Nat
        /\ \A u \in Tabs : /\ request[u].token <= issued /\ request[u].made <= issued
                           /\ request[u].token \in Nat /\ request[u].made \in Nat
        /\ cookie <= issued
    BY <1>1, <1>6, <1>7 DEF IssuedInv, TypeOK
  <2>1. /\ \A j \in live' : j <= issued'
        /\ cookie' <= issued'
        /\ \A u \in Tabs : request'[u].token <= issued' /\ request'[u].made <= issued'
    BY <1>1, <1>3, <1>4, <2>0
  <2>2. \A u \in Tabs : logout'[u].token <= issued'
    BY <1>1, <1>3, RequestType DEF IssuedInv, Tokens, NoToken
  <2>3. \A j \in Tokens : stamp'[j] <= version'
    BY <1>1, <1>3, <1>5 DEF IssuedInv, RequestInv
  <2> QED
    BY <2>1, <2>2, <2>3 DEF IssuedInv
<1> HIDE DEF k
<1>9. RequestInv'
  BY <1>1, <1>2, <1>3, <1>4, <1>5, <1>6 DEF RequestInv, Current
<1>10. FreshInv'
  <2>1. \A u \in Tabs : request'[u].token = request[u].token
    BY <1>4
  <2>2. \A u \in Tabs : u # t /\ request'[u].step = "ok" =>
           request'[u].made = request[u].made /\ request[u].step = "ok"
    BY <1>4
  <2> QED
    BY <1>1, <1>3, <1>4, <1>6, <2>1, <2>2 DEF FreshInv
<1>11. \A u \in Tabs : \A j : Replacing(u, j) => Replacing(u, j)'
  BY <1>4 DEF Replacing
<1>12. \A j \in Tokens : j # k => (Current(j)' <=> Current(j))
  BY <1>3, <1>5 DEF Current
<1>13. SessionKept'
  BY <1>1, <1>3, <1>6, <1>11, <1>12 DEF SessionKept, LoggingOutOf, Current
<1>14. RefusalIsARace'
  BY <1>1, <1>3, <1>4, <1>6, <1>11, <1>12 DEF RefusalIsARace, LoggingOutOf, Current
<1> QED
  BY <1>8, <1>9, <1>10, <1>13, <1>14 DEF CoreInv

(* The new token arrives; nobody else knew it.                             *)
LEMMA Arrives ==
    ASSUME TypeOK, TypeOK', CoreInv, NEW t \in Tabs, Answered(t)
    PROVE  CoreInv'
<1>1. /\ RequestInv /\ IssuedInv /\ FreshInv /\ SessionKept /\ RefusalIsARace
      /\ version \in Nat /\ issued \in Nat
  BY DEF CoreInv, TypeOK
<1>2. /\ UNCHANGED <<version, active, live, stamp, issued, logout, faults>>
      /\ cookie' = request[t].made /\ request[t].step = "ok"
      /\ request' = [request EXCEPT ![t] = None]
  BY DEF Answered, AnsweredWith, user, store, bounds
<1>3. /\ request'[t].kind = "none" /\ request'[t].step = "none"
      /\ request'[t].token = NoToken /\ request'[t].version = 0
      /\ request'[t].made = NoToken
      /\ \A u \in Tabs : u # t => request'[u] = request[u]
  BY <1>2, EndStep
<1>4. /\ cookie' # NoToken /\ cookie' \in live
      /\ \A u \in Tabs : request[u].token # cookie' /\ logout[u].token # cookie'
      /\ \A u \in Tabs : u # t /\ request[u].step = "ok" => request[u].made # cookie'
  BY <1>1, <1>2 DEF FreshInv, RequestInv
<1>5. RequestInv'
  BY <1>1, <1>2, <1>3 DEF RequestInv, Current
<1>6. IssuedInv'
  BY <1>1, <1>2, <1>3 DEF IssuedInv, NoToken
<1>7. FreshInv'
  <2>1. \A u \in Tabs : request'[u].step = "ok" => u # t /\ request'[u] = request[u]
    BY <1>3
  <2>2. \A u \in Tabs : request'[u].token \in {NoToken, request[u].token}
    BY <1>3
  <2>3. \A u \in Tabs : request[u].step = "ok" => request[u].made # NoToken
    BY <1>1 DEF RequestInv
  <2> QED
    BY <1>1, <1>2, <1>4, <2>1, <2>2, <2>3 DEF FreshInv
<1>8. SessionKept'
  BY <1>2, <1>4 DEF SessionKept
<1>9. RefusalIsARace'
  BY <1>3, <1>4 DEF RefusalIsARace
<1> QED
  BY <1>5, <1>6, <1>7, <1>8, <1>9 DEF CoreInv

(* A call fails: a request ends, or a logout does.                         *)
LEMMA Fails ==
    ASSUME TypeOK, TypeOK', CoreInv, NEW t \in Tabs, RequestLost(t) \/ LogoutLost(t)
    PROVE  CoreInv'
<1>1. /\ RequestInv /\ IssuedInv /\ FreshInv /\ version \in Nat /\ issued \in Nat
      /\ faults \in Nat
  BY DEF CoreInv, TypeOK
<1>2. UNCHANGED <<version, active, live, stamp, issued, cookie>> /\ faults' = faults + 1
  BY FailedType DEF RequestLost, LogoutLost, user, store, browser
<1>3. \/ request' = request
      \/ /\ request'[t].kind = "none" /\ request'[t].step = "none"
         /\ request'[t].token = NoToken /\ request'[t].version = 0
         /\ request'[t].made = NoToken
         /\ \A u \in Tabs : u # t => request'[u] = request[u]
  BY EndStep DEF RequestLost, LogoutLost
<1>4. \A u \in Tabs : logout'[u].token = logout[u].token
  <2>1. CASE RequestLost(t)
    BY <2>1, FailedType DEF RequestLost
  <2>2. CASE LogoutLost(t)
    BY <2>2, LogoutStepStep DEF LogoutLost
  <2> QED
    BY <2>1, <2>2
<1>5. RequestInv'
  BY <1>1, <1>2, <1>3 DEF RequestInv, Current
<1>6. IssuedInv'
  BY <1>1, <1>2, <1>3, <1>4 DEF IssuedInv, NoToken
<1>7. FreshInv'
  <2>1. \A u \in Tabs : request'[u].step = "ok" => request'[u] = request[u]
    BY <1>3
  <2>2. \A u \in Tabs : request'[u].token \in {NoToken, request[u].token}
    BY <1>3
  <2>3. \A u \in Tabs : request[u].step = "ok" => request[u].made # NoToken
    BY <1>1 DEF RequestInv
  <2> QED
    BY <1>1, <1>2, <1>4, <2>1, <2>2, <2>3 DEF FreshInv
<1>8. faults' # 0
  BY <1>1, <1>2
<1> QED
  BY <1>5, <1>6, <1>7, <1>8 DEF CoreInv, SessionKept, RefusalIsARace

(* A logout takes the token of the cookie, and the cookie with it.         *)
LEMMA Logouts ==
    ASSUME TypeOK, TypeOK', CoreInv, NEW t \in Tabs, LogOut(t) \/ LoggingOut(t)
    PROVE  CoreInv'
<1>1. /\ RequestInv /\ IssuedInv /\ FreshInv /\ SessionKept /\ RefusalIsARace
      /\ version \in Nat /\ issued \in Nat
  BY DEF CoreInv, TypeOK
<1>2. UNCHANGED <<version, active, stamp, issued, request, faults>>
  BY DEF LogOut, LoggingOut, LogoutRead, LogoutCheck, LogoutDelete, LogoutRevoke, LoggedOut,
         user, store, bounds
<1>3. /\ \A u \in Tabs : u # t => logout'[u] = logout[u]
      /\ \/ /\ logout[t].step = "none" /\ logout'[t].token = cookie
            /\ live' = live /\ cookie' = cookie
         \/ /\ logout'[t].token = logout[t].token /\ cookie' = cookie /\ live' = live
            /\ logout[t].step \in {"revoke", "ok"} => logout'[t].step \in {"revoke", "ok"}
         \/ /\ logout'[t].token = logout[t].token /\ cookie' = cookie
            /\ live' = live \ {logout[t].token} /\ logout'[t].step = "revoke"
         \/ /\ logout'[t].token = NoToken /\ live' = live
            /\ \/ cookie' = NoToken
               \/ cookie' = cookie /\ logout[t].step = "refused"
  <2>1. CASE LogOut(t)
    <3>1. cookie \in Tokens \cup {NoToken} /\ logout[t] = NoLogout
      BY <2>1 DEF LogOut, TypeOK
    <3>2. logout'[t].token = cookie /\ \A u \in Tabs : u # t => logout'[u] = logout[u]
      BY <2>1, <3>1, LogoutChange DEF LogOut
    <3> QED
      BY <2>1, <3>1, <3>2 DEF LogOut, NoLogout, store, browser
  <2>2. CASE LogoutRead(t) \/ LogoutCheck(t) \/ LogoutRevoke(t)
    BY <2>2, LogoutStepStep DEF LogoutRead, LogoutCheck, LogoutRevoke, LogoutStep, store, browser
  <2>3. CASE LogoutDelete(t)
    BY <2>3, LogoutStepStep DEF LogoutDelete, LogoutStep, browser
  <2>4. CASE LoggedOut(t)
    <3>1. logout'[t].token = NoToken /\ \A u \in Tabs : u # t => logout'[u] = logout[u]
      BY <2>4, LogoutChange DEF LoggedOut, NoLogout
    <3> QED
      BY <2>4, <3>1 DEF LoggedOut, store
  <2> QED
    BY <2>1, <2>2, <2>3, <2>4 DEF LoggingOut
<1>4. RequestInv'
  BY <1>1, <1>2 DEF RequestInv, Current
<1>5. IssuedInv'
  BY <1>1, <1>2, <1>3 DEF IssuedInv, NoToken
<1>6. FreshInv'
  <2>1. \A u \in Tabs : logout'[u].token \in {NoToken, cookie, logout[u].token}
    BY <1>3
  <2>2. cookie' \in {NoToken, cookie} /\ \A k \in live \ live' : k = logout[t].token
    BY <1>3
  <2>3. \A u \in Tabs : request[u].step = "ok" => request[u].made # NoToken
    BY <1>1 DEF RequestInv
  <2> QED
    BY <1>1, <1>2, <2>1, <2>2, <2>3 DEF FreshInv
<1>7. cookie' # NoToken => cookie' = cookie /\ (\A u \in Tabs :
         LoggingOutOf(u, cookie) => LoggingOutOf(u, cookie)')
  BY <1>3 DEF LoggingOutOf
<1>8. cookie \in live /\ cookie \notin live' => LoggingOutOf(t, cookie)'
  BY <1>3 DEF LoggingOutOf
<1>9. SessionKept'
  BY <1>1, <1>2, <1>7, <1>8 DEF SessionKept, Current, Replacing, LoggingOutOf
<1>10. RefusalIsARace'
  BY <1>1, <1>2, <1>7 DEF RefusalIsARace, Current, Replacing, LoggingOutOf
<1> QED
  BY <1>4, <1>5, <1>6, <1>9, <1>10 DEF CoreInv

(* After a change no session is current any more.                          *)
LEMMA Changes ==
    ASSUME TypeOK, TypeOK', CoreInv, ChangePassword \/ DeactivateUser
    PROVE  CoreInv'
<1>1. /\ RequestInv /\ IssuedInv /\ FreshInv /\ version \in Nat
      /\ stamp \in [Tokens -> Nat] /\ cookie \in Tokens \cup {NoToken}
      /\ \A t \in Tabs : request[t].version \in Nat
                        /\ request[t].token \in Tokens \cup {NoToken}
  BY RequestType DEF CoreInv, TypeOK
<1>2. /\ UNCHANGED <<live, stamp, issued, cookie, request, logout, faults>>
      /\ version' >= version /\ version' \in Nat
      /\ (active' = FALSE) \/ (version' = version + 1)
  <2>1. CASE ChangePassword
    BY <1>1, <2>1 DEF ChangePassword, store, browser, bounds
  <2>2. CASE DeactivateUser
    BY <1>1, <2>2 DEF DeactivateUser, store, browser, bounds
  <2> QED
    BY <2>1, <2>2
<1>3. \A k \in Tokens : ~Current(k)'
  BY <1>1, <1>2 DEF Current, IssuedInv
<1>4. RequestInv'
  BY <1>1, <1>2, <1>3 DEF RequestInv, Current
<1>5. IssuedInv'
  BY <1>1, <1>2 DEF IssuedInv
<1>6. FreshInv'
  BY <1>1, <1>2 DEF FreshInv
<1>7. SessionKept' /\ RefusalIsARace'
  BY <1>1, <1>2, <1>3 DEF SessionKept, RefusalIsARace, Current
<1> QED
  BY <1>4, <1>5, <1>6, <1>7 DEF CoreInv

LEMMA NextCore == TypeOK /\ TypeOK' /\ CoreInv /\ [Next]_vars => CoreInv'
<1> SUFFICES ASSUME TypeOK, TypeOK', CoreInv, [Next]_vars PROVE CoreInv'
  OBVIOUS
<1> USE DEF user, store, browser, bounds
<1>1. ASSUME NEW t \in Tabs, request[t] = None,
             \/ Start(t, "login", "find", NoToken)
             \/ Start(t, "refresh", "read", cookie),
             UNCHANGED <<version, active, live, stamp, issued, cookie, logout, faults>>
      PROVE  CoreInv'
  <2>1. request[t].step \notin {"issue", "ok"}
    BY <1>1 DEF None
  <2>2. cookie \in Tokens \cup {NoToken}
    BY DEF TypeOK
  <2> QED
    BY <1>1, <2>1, <2>2, StartStep, Begins
<1>2. ASSUME NEW t \in Tabs, LoadPage(t) PROVE CoreInv'
  BY <1>1, <1>2, CoreKept DEF LoadPage, Quiet
<1>3. ASSUME NEW t \in Tabs, NEW c \in Calls, AskRefresh(t, c) PROVE CoreInv'
  BY <1>1, <1>3, CoreKept DEF AskRefresh
<1>4. ASSUME NEW t \in Tabs, Login(t) PROVE CoreInv'
  BY <1>1, <1>4 DEF Login
<1>5. ASSUME NEW t \in Tabs, Expire(t) \/ \E c \in Calls : CallRefused(t, c) \/ Retry(t, c)
      PROVE  CoreInv'
  BY <1>5, CoreKept DEF Expire, CallRefused, Retry
<1>6. ASSUME NEW t \in Tabs, Refused(t) PROVE CoreInv'
  <2>1. /\ request[t].step = "refused" /\ request' = [request EXCEPT ![t] = None]
        /\ UNCHANGED <<version, active, live, stamp, issued, cookie, logout, faults>>
    BY <1>6, FailedType DEF Refused
  <2> QED
    BY <2>1, EndStep, Begins
<1>7. CASE UNCHANGED vars
  BY <1>7, CoreKept DEF vars
<1> QED
  BY <1>2, <1>3, <1>4, <1>5, <1>6, <1>7, Reads, Deletes, Issues, Arrives, Fails, Logouts, Changes
     DEF Next, Serving, Arriving

-----------------------------------------------------------------------------
LEMMA Invariant == Spec => []IInv
<1>1. Init => IInv
  BY InitType, InitCore DEF IInv
<1>2. IInv /\ [Next]_vars => IInv'
  BY NextType, NextCore DEF IInv
<1> QED
  BY <1>1, <1>2, PTL DEF Spec

(* Tabs that refresh at once never lose the browser's session              *)
(* (rotateRefreshToken, refreshAccessToken).                               *)
THEOREM Kept == Spec => []SessionKept
<1>1. IInv => SessionKept
  BY DEF IInv, CoreInv
<1> QED
  BY <1>1, Invariant, PTL

(* A refusal of a current session is a race that was lost                  *)
(* (rotateRefreshToken).                                                   *)
THEOREM RefusedInRace == Spec => []RefusalIsARace
<1>1. IInv => RefusalIsARace
  BY DEF IInv, CoreInv
<1> QED
  BY <1>1, Invariant, PTL

(* A refresh never lifts a session over a password change (issueTokenPair  *)
(* with the version that was read).                                        *)
THEOREM Inherited == Spec => []VersionInherited
<1>1. IInv => VersionInherited
  BY DEF IInv, CoreInv, RequestInv, VersionInherited
<1> QED
  BY <1>1, Invariant, PTL

-----------------------------------------------------------------------------
(***************************************************************************)
(* The account the tabs log in to: AccountAccess, for any finite number of *)
(* workers and any reset tokens, passwords, requests and faults.  Its      *)
(* state is that of AccountState.                                          *)
(*                                                                         *)
(* A worker's step leaves every other worker alone, so most of what follows*)
(* is about one job at a time.  The exception is the number of wrong       *)
(* passwords, which counts workers: each that carries a miss it has not yet*)
(* turned into a lock stands for at most MaxAttempts of them.              *)
(***************************************************************************)
Access == INSTANCE AccountAccess

(* Where a request can be; the requests a step leaves alone.               *)
Steps == {"idle", "find", "miss", "expire", "drop", "lock", "upgrade",
          "clear", "unlock", "issue", "commit", "persist", "mail", "take"}

Others(w) == \A v \in Workers : v # w => pc'[v] = pc[v] /\ job'[v] = job[v]

(* A token that is being stored or mailed is a token.                      *)
Holder == \A w \in Workers : pc[w] \in {"persist", "mail"} => job[w].token \in ResetTokens

LEMMA AccessGoes ==
    ASSUME Access!TypeOK, NEW w \in Workers, NEW s \in Steps, Access!Goto(w, s),
           NEW j \in Access!Job, job' = [job EXCEPT ![w] = j]
    PROVE  /\ pc' \in [Workers -> Steps] /\ job' \in [Workers -> Access!Job]
           /\ pc'[w] = s /\ job'[w] = j /\ Others(w)
BY DEF Access!TypeOK, Access!Goto, Steps, Others

LEMMA AccessStays ==
    ASSUME Access!TypeOK, NEW w \in Workers, NEW s \in Steps, Access!Goto(w, s), job' = job
    PROVE  /\ pc' \in [Workers -> Steps] /\ job' \in [Workers -> Access!Job]
           /\ pc'[w] = s /\ job'[w] = job[w] /\ Others(w)
BY DEF Access!TypeOK, Access!Goto, Steps, Others

LEMMA AccessNoJob ==
    ASSUME Access!TypeOK
    PROVE  /\ Access!NoJob \in Access!Job
           /\ Access!NoJob.kind = "login" /\ Access!NoJob.password = 0
           /\ Access!NoJob.version = 0
           /\ Access!NoJob.count = 0 /\ Access!NoJob.streak = 0
BY AccountAssumption DEF Access!NoJob, Access!Job, Access!Passwords

LEMMA AccessLeaves ==
    ASSUME Access!TypeOK, NEW w \in Workers, Access!Done(w)
    PROVE  /\ pc' \in [Workers -> Steps] /\ job' \in [Workers -> Access!Job]
           /\ pc'[w] = "idle" /\ job'[w] = Access!NoJob /\ Others(w)
BY AccessGoes, AccessNoJob DEF Access!Done, Steps

LEMMA AccessJobType ==
    ASSUME Access!TypeOK, NEW w \in Workers
    PROVE  /\ job[w] \in Access!Job
           /\ job[w].kind \in {"login", "change", "reset"}
           /\ job[w].password \in Access!Passwords
           /\ job[w].version \in Nat /\ job[w].token \in ResetTokens \cup {NoResetToken}
           /\ job[w].count \in Nat /\ job[w].streak \in Nat
           /\ pc[w] \in Steps
BY DEF Access!TypeOK, Access!Job, Steps

LEMMA AccessRowType ==
    ASSUME Access!TypeOK
    PROVE  /\ row.password \in Access!Passwords /\ row.version \in Nat
           /\ row.format \in Access!Formats
           /\ fails.count \in Nat /\ fails.expires \in BOOLEAN
           /\ misses \in Nat /\ streak \in Nat /\ broken \in Nat
<1>1. /\ row \in [password : Access!Passwords, version : Nat, format : Access!Formats]
      /\ fails \in Access!Fails
      /\ misses \in Nat /\ streak \in Nat /\ broken \in Nat
  BY DEF Access!TypeOK
<1> QED
  BY <1>1 DEF Access!Fails

(* What begins.                                                            *)
LEMMA AccessBegins ==
    ASSUME Access!TypeOK, NEW w \in Workers, NEW s \in Steps, NEW j \in Access!Job,
           Access!Begin(w, s, j)
    PROVE  /\ pc' \in [Workers -> Steps] /\ job' \in [Workers -> Access!Job] /\ served' \in Nat
           /\ pc[w] = "idle" /\ pc'[w] = s /\ job'[w] = j /\ Others(w)
<1>1. served' \in Nat /\ pc[w] = "idle"
  BY DEF Access!Begin, Access!At, Access!TypeOK
<1> QED
  BY <1>1, AccessGoes DEF Access!Begin

LEMMA LoginStep ==
    ASSUME Access!TypeOK, NEW w \in Workers, NEW p \in Access!Passwords, Access!Login(w, p)
    PROVE  /\ Access!TypeOK' /\ Others(w)
           /\ UNCHANGED <<Access!account, Access!lockout, broken>>
           /\ ~lock /\ pc[w] = "idle" /\ pc'[w] = "find"
           /\ job'[w].version = 0
<1> DEFINE j == [Access!NoJob EXCEPT !.password = p]
<1>1. j \in Access!Job /\ j.version = 0
  BY AccessNoJob DEF Access!Job, Access!NoJob
<1>2. Access!Begin(w, "find", j) /\ "find" \in Steps
  BY DEF Access!Login, Steps
<1> HIDE DEF j
<1>3. /\ pc' \in [Workers -> Steps] /\ job' \in [Workers -> Access!Job] /\ served' \in Nat
      /\ pc[w] = "idle" /\ pc'[w] = "find" /\ job'[w] = j /\ Others(w)
  BY <1>1, <1>2, AccessBegins
<1> QED
  BY <1>1, <1>3
  DEF Access!Login, Access!TypeOK, Steps, Access!account, Access!lockout, Access!tokens

LEMMA ChooseStep ==
    ASSUME Access!TypeOK, NEW w \in Workers, NEW s \in Steps, NEW j \in Access!Job,
           Access!Choose(w, s, j)
    PROVE  /\ Access!TypeOK' /\ Others(w)
           /\ UNCHANGED <<Access!account, Access!lockout, broken>>
           /\ pc[w] = "idle" /\ pc'[w] = s
           /\ job'[w].version = row.version
<1> DEFINE k == [j EXCEPT !.password = chosen + 1, !.version = row.version]
<1>1. chosen + 1 \in Access!Passwords
  BY AccountAssumption DEF Access!Choose, Access!Passwords, Access!TypeOK
<1>2. k \in Access!Job /\ k.version = row.version
  BY <1>1, AccessRowType DEF Access!Job
<1>3. Access!Begin(w, s, k)
  BY DEF Access!Choose
<1> HIDE DEF k
<1>4. /\ pc' \in [Workers -> Steps] /\ job' \in [Workers -> Access!Job] /\ served' \in Nat
      /\ pc[w] = "idle" /\ pc'[w] = s /\ job'[w] = k /\ Others(w)
  BY <1>2, <1>3, AccessBegins
<1> QED
  BY <1>1, <1>2, <1>4
  DEF Access!Choose, Access!TypeOK, Steps, Access!account, Access!lockout, Access!tokens

LEMMA BeginStep ==
    ASSUME Access!TypeOK, NEW w \in Workers,
           Access!ChangePassword(w)
           \/ \E t \in ResetTokens : Access!RequestReset(w, t) \/ Access!Reset(w, t)
    PROVE  /\ Access!TypeOK' /\ Others(w)
           /\ UNCHANGED <<Access!account, Access!lockout, broken>>
           /\ pc[w] = "idle" /\ pc'[w] \in {"commit", "persist", "take"}
           /\ job'[w].version \in {0, row.version}
           /\ pc'[w] = "persist" => job'[w].token \in ResetTokens
<1>1. CASE Access!ChangePassword(w)
  <2>1. [Access!NoJob EXCEPT !.kind = "change"] \in Access!Job
    BY AccessNoJob DEF Access!Job, Access!NoJob
  <2> QED
    BY <1>1, <2>1, ChooseStep DEF Access!ChangePassword, Steps
<1>2. ASSUME NEW t \in ResetTokens, Access!Reset(w, t)
      PROVE  /\ Access!TypeOK' /\ Others(w)
             /\ UNCHANGED <<Access!account, Access!lockout, broken>>
             /\ pc[w] = "idle" /\ pc'[w] = "take" /\ job'[w].version = row.version
  <2>1. [Access!NoJob EXCEPT !.kind = "reset", !.token = t] \in Access!Job
    BY AccessNoJob DEF Access!Job, Access!NoJob
  <2> QED
    BY <1>2, <2>1, ChooseStep DEF Access!Reset, Steps
<1>3. ASSUME NEW t \in ResetTokens, Access!RequestReset(w, t)
      PROVE  /\ Access!TypeOK' /\ Others(w)
             /\ UNCHANGED <<Access!account, Access!lockout, broken>>
             /\ pc[w] = "idle" /\ pc'[w] = "persist" /\ job'[w].version = 0
             /\ job'[w].token \in ResetTokens
  <2> DEFINE j == [Access!NoJob EXCEPT !.kind = "reset", !.token = t]
  <2>1. j \in Access!Job /\ j.version = 0 /\ j.token \in ResetTokens
    BY AccessNoJob DEF Access!Job, Access!NoJob
  <2>2. Access!Begin(w, "persist", j) /\ "persist" \in Steps
    BY <1>3 DEF Access!RequestReset, Steps
  <2> HIDE DEF j
  <2>3. /\ pc' \in [Workers -> Steps] /\ job' \in [Workers -> Access!Job] /\ served' \in Nat
        /\ pc[w] = "idle" /\ pc'[w] = "persist" /\ job'[w] = j /\ Others(w)
    BY <2>1, <2>2, AccessBegins
  <2> QED
    BY <1>3, <2>1, <2>3 DEF Access!RequestReset, Access!TypeOK, Steps, Access!account,
    Access!lockout, Access!tokens
<1> QED
  BY <1>1, <1>2, <1>3

(* A login.                                                                *)
LEMMA FindUserStep ==
    ASSUME Access!TypeOK, NEW w \in Workers, Access!FindUser(w)
    PROVE  /\ Access!TypeOK' /\ Others(w)
           /\ UNCHANGED <<Access!account, Access!lockout, broken>>
           /\ pc[w] = "find" /\ pc'[w] \in {"miss", "upgrade", "clear"}
           /\ job'[w].version = row.version /\ job'[w].password = job[w].password
           /\ pc'[w] = "upgrade" => row.format = "scrypt" /\ job[w].password = row.password
<1> DEFINE j == [job[w] EXCEPT !.version = row.version]
<1>1. PICK s \in {"miss", "upgrade", "clear"} :
         /\ Access!Goto(w, s)
         /\ s = "upgrade" => row.format = "scrypt" /\ job[w].password = row.password
  <2>1. CASE job[w].password # row.password
    <3>1. Access!Goto(w, "miss")
      BY <2>1 DEF Access!FindUser
    <3> QED
      BY <3>1
  <2>2. CASE job[w].password = row.password /\ row.format = "scrypt"
    <3>1. Access!Goto(w, "upgrade")
      BY <2>2 DEF Access!FindUser
    <3> QED
      BY <2>2, <3>1
  <2>3. CASE job[w].password = row.password /\ row.format # "scrypt"
    <3>1. Access!Goto(w, "clear")
      BY <2>3 DEF Access!FindUser
    <3> QED
      BY <3>1
  <2> QED
    BY <2>1, <2>2, <2>3
<1>2. j \in Access!Job /\ j.version = row.version /\ j.password = job[w].password
  BY AccessJobType, AccessRowType DEF Access!Job
<1>3. job' = [job EXCEPT ![w] = j] /\ s \in Steps
  BY DEF Access!FindUser, Access!TypeOK, Steps
<1> HIDE DEF j
<1>4. /\ pc' \in [Workers -> Steps] /\ job' \in [Workers -> Access!Job]
      /\ pc'[w] = s /\ job'[w] = j /\ Others(w)
  BY <1>1, <1>2, <1>3, AccessGoes
<1> QED
  BY <1>1, <1>2, <1>4
  DEF Access!FindUser, Access!At, Access!TypeOK, Steps, Access!account, Access!lockout,
  Access!tokens, Access!bounds

LEMMA UpgradeStep ==
    ASSUME Access!TypeOK, NEW w \in Workers, Access!UpgradeHash(w)
    PROVE  /\ Access!TypeOK' /\ Others(w)
           /\ UNCHANGED <<last, sessions, Access!lockout, broken>>
           /\ row'.version = row.version /\ row'.password = job[w].password
           /\ row'.format = "upgraded"
           /\ pc[w] = "upgrade" /\ pc'[w] = "clear" /\ job'[w] = job[w]
<1>1. /\ row' \in [password : Access!Passwords, version : Nat, format : Access!Formats]
      /\ row'.version = row.version /\ row'.password = job[w].password
      /\ row'.format = "upgraded"
  BY AccessJobType, AccessRowType DEF Access!UpgradeHash, Access!TypeOK, Access!Formats
<1>2. /\ pc' \in [Workers -> Steps] /\ job' \in [Workers -> Access!Job]
      /\ pc'[w] = "clear" /\ job'[w] = job[w] /\ Others(w)
  BY AccessStays DEF Access!UpgradeHash, Steps
<1> QED
  BY <1>1, <1>2 DEF Access!UpgradeHash, Access!At, Access!TypeOK, Steps, Access!lockout,
  Access!tokens, Access!bounds

LEMMA IssueStep ==
    ASSUME Access!TypeOK, NEW w \in Workers, Access!Issue(w)
    PROVE  /\ Access!TypeOK' /\ Others(w) /\ UNCHANGED <<row, last, Access!lockout, broken>>
           /\ sessions' = sessions \cup {job[w].version}
           /\ pc[w] = "issue" /\ pc'[w] = "idle" /\ job'[w] = Access!NoJob
<1>1. /\ pc' \in [Workers -> Steps] /\ job' \in [Workers -> Access!Job]
      /\ pc'[w] = "idle" /\ job'[w] = Access!NoJob /\ Others(w)
  BY AccessLeaves DEF Access!Issue
<1>2. sessions' \subseteq Nat
  BY AccessJobType DEF Access!Issue, Access!TypeOK
<1> QED
  BY <1>1, <1>2 DEF Access!Issue, Access!At, Access!TypeOK, Steps, Access!lockout,
  Access!tokens, Access!bounds

(* The counter and the lock.                                               *)
LEMMA MissStep ==
    ASSUME Access!TypeOK, NEW w \in Workers, Access!Miss(w)
    PROVE  /\ Access!TypeOK' /\ Others(w) /\ UNCHANGED <<Access!account, lock, broken>>
           /\ fails'.count = fails.count + 1 /\ misses' = misses + 1 /\ streak' = streak + 1
           /\ pc[w] = "miss" /\ pc'[w] = "expire"
           /\ job'[w].count = fails.count + 1 /\ job'[w].streak = streak + 1
           /\ job'[w].version = job[w].version
<1> DEFINE j == [job[w] EXCEPT !.count = fails.count + 1, !.streak = streak + 1]
<1>0. fails.count + 1 \in Nat /\ streak + 1 \in Nat
  BY AccessRowType
<1>1. /\ j \in Access!Job /\ j.count = fails.count + 1 /\ j.streak = streak + 1
      /\ j.version = job[w].version
  BY <1>0, AccessJobType DEF Access!Job
<1>2. Access!Goto(w, "expire") /\ "expire" \in Steps
  BY DEF Access!Miss, Steps
<1>5. job' = [job EXCEPT ![w] = j]
  BY DEF Access!Miss, Access!TypeOK
<1> HIDE DEF j
<1>3. /\ pc' \in [Workers -> Steps] /\ job' \in [Workers -> Access!Job]
      /\ pc'[w] = "expire" /\ job'[w] = j /\ Others(w)
  BY <1>1, <1>2, <1>5, AccessGoes
<1>4. /\ fails' \in Access!Fails /\ fails'.count = fails.count + 1
      /\ misses' \in Nat /\ streak' \in Nat
  BY AccessRowType DEF Access!Miss, Access!TypeOK, Access!Fails
<1> QED
  BY <1>1, <1>3, <1>4 DEF Access!Miss, Access!At, Access!TypeOK, Steps, Access!account,
  Access!tokens, Access!bounds

LEMMA JudgeStep ==
    ASSUME Access!TypeOK, NEW w \in Workers, Access!Judge(w)
    PROVE  /\ Access!TypeOK' /\ Others(w)
           /\ UNCHANGED <<Access!account, lock, misses, streak, broken>>
           /\ fails'.count = fails.count
           /\ pc[w] = "expire"
           /\ IF job[w].count >= MaxAttempts
                 THEN pc'[w] = "drop" /\ job'[w] = job[w]
                 ELSE pc'[w] = "idle" /\ job'[w] = Access!NoJob
<1>1. /\ pc' \in [Workers -> Steps] /\ job' \in [Workers -> Access!Job] /\ Others(w)
      /\ IF job[w].count >= MaxAttempts
            THEN pc'[w] = "drop" /\ job'[w] = job[w]
            ELSE pc'[w] = "idle" /\ job'[w] = Access!NoJob
  <2>1. CASE job[w].count >= MaxAttempts
    BY <2>1, AccessStays DEF Access!Judge, Steps
  <2>2. CASE ~(job[w].count >= MaxAttempts)
    BY <2>2, AccessLeaves DEF Access!Judge
  <2> QED
    BY <2>1, <2>2
<1>2. fails' \in Access!Fails /\ fails'.count = fails.count
  BY AccessRowType DEF Access!Judge, Access!TypeOK, Access!Fails
<1> QED
  BY <1>1, <1>2 DEF Access!Judge, Access!At, Access!TypeOK, Steps, Access!account,
  Access!tokens, Access!bounds

LEMMA LockStep ==
    ASSUME Access!TypeOK, NEW w \in Workers, Access!Drop(w) \/ Access!SetLock(w)
    PROVE  /\ Access!TypeOK' /\ Others(w)
           /\ UNCHANGED <<Access!account, misses, streak, broken>>
           /\ Access!Drop(w) =>
                 /\ fails'.count = 0 /\ lock' = lock
                 /\ pc[w] = "drop" /\ pc'[w] = "lock" /\ job'[w] = job[w]
           /\ Access!SetLock(w) =>
                 /\ fails' = fails /\ lock'
                 /\ pc[w] = "lock" /\ pc'[w] = "idle" /\ job'[w] = Access!NoJob
<1>1. Access!NoFails \in Access!Fails /\ Access!NoFails.count = 0
  BY DEF Access!NoFails, Access!Fails
<1>2. CASE Access!Drop(w)
  <2>1. /\ pc' \in [Workers -> Steps] /\ job' \in [Workers -> Access!Job]
        /\ pc'[w] = "lock" /\ job'[w] = job[w] /\ Others(w)
    BY <1>2, AccessStays DEF Access!Drop, Steps
  <2> QED
    BY <1>1, <1>2, <2>1 DEF Access!Drop, Access!SetLock, Access!At, Access!TypeOK, Steps,
    Access!account, Access!tokens, Access!bounds
<1>3. CASE Access!SetLock(w)
  <2>1. /\ pc' \in [Workers -> Steps] /\ job' \in [Workers -> Access!Job]
        /\ pc'[w] = "idle" /\ job'[w] = Access!NoJob /\ Others(w)
    BY <1>3, AccessLeaves DEF Access!SetLock
  <2> QED
    BY <1>3, <2>1 DEF Access!Drop, Access!SetLock, Access!At, Access!TypeOK, Steps,
    Access!account, Access!tokens, Access!bounds
<1> QED
  BY <1>2, <1>3

LEMMA OpenStep ==
    ASSUME Access!TypeOK, NEW w \in Workers, Access!ClearFails(w) \/ Access!Unlock(w)
    PROVE  /\ Access!TypeOK' /\ Others(w) /\ UNCHANGED <<Access!account, broken>>
           /\ misses' = 0
           /\ pc[w] \in {"clear", "unlock"} /\ pc'[w] \in {"unlock", "issue", "idle"}
           /\ \/ fails'.count = 0 /\ streak' = 0 /\ lock' = lock
              \/ fails' = fails /\ streak' = streak /\ lock' = FALSE
           /\ job'[w] \in {job[w], Access!NoJob}
<1>1. Access!NoFails \in Access!Fails /\ Access!NoFails.count = 0
  BY DEF Access!NoFails, Access!Fails
<1>2. CASE Access!ClearFails(w)
  <2>1. /\ pc' \in [Workers -> Steps] /\ job' \in [Workers -> Access!Job]
        /\ pc'[w] = "unlock" /\ job'[w] = job[w] /\ Others(w)
    BY <1>2, AccessStays DEF Access!ClearFails, Steps
  <2> QED
    BY <1>1, <1>2, <2>1 DEF Access!ClearFails, Access!Unlock, Access!At, Access!TypeOK, Steps,
    Access!account, Access!tokens, Access!bounds
<1>3. CASE Access!Unlock(w)
  <2>1. /\ pc' \in [Workers -> Steps] /\ job' \in [Workers -> Access!Job] /\ Others(w)
        /\ pc'[w] \in {"issue", "idle"} /\ job'[w] \in {job[w], Access!NoJob}
    <3>1. CASE job[w].kind = "login"
      BY <1>3, <3>1, AccessStays DEF Access!Unlock, Steps
    <3>2. CASE job[w].kind # "login"
      BY <1>3, <3>2, AccessLeaves DEF Access!Unlock
    <3> QED
      BY <3>1, <3>2
  <2> QED
    BY <1>3, <2>1 DEF Access!ClearFails, Access!Unlock, Access!At, Access!TypeOK, Steps,
    Access!account, Access!tokens, Access!bounds
<1> QED
  BY <1>2, <1>3

LEMMA ExpiryStep ==
    ASSUME Access!TypeOK,
           Access!ExpireFails \/ Access!ExpireLock
           \/ \E t \in ResetTokens : Access!ExpireToken(t)
    PROVE  /\ Access!TypeOK' /\ UNCHANGED <<Access!account, pc, job, broken>>
           /\ \/ misses' = 0 /\ fails'.count = 0 /\ streak' = 0 /\ lock' = lock
              \/ misses' = 0 /\ UNCHANGED <<fails, streak>> /\ lock' = FALSE
              \/ UNCHANGED (Access!lockout)
<1>1. Access!NoFails \in Access!Fails /\ Access!NoFails.count = 0
  BY DEF Access!NoFails, Access!Fails
<1>2. CASE Access!ExpireFails
  BY <1>1, <1>2
  DEF Access!ExpireFails, Access!TypeOK, Access!account, Access!tokens, Access!bounds
<1>3. CASE Access!ExpireLock
  BY <1>3 DEF Access!ExpireLock, Access!TypeOK, Access!account, Access!tokens, Access!bounds
<1>4. ASSUME NEW t \in ResetTokens, Access!ExpireToken(t)
      PROVE  Access!TypeOK' /\ UNCHANGED <<Access!account, pc, job, broken, Access!lockout>>
  BY <1>4 DEF Access!ExpireToken, Access!TypeOK, Access!account, Access!lockout, Access!bounds
<1> QED
  BY <1>2, <1>3, <1>4

(* A change, a reset, and a request that dies.                             *)
LEMMA TokenStep ==
    ASSUME Access!TypeOK, Holder, NEW w \in Workers,
           Access!PersistToken(w) \/ Access!MailToken(w) \/ Access!TakeToken(w)
    PROVE  /\ Access!TypeOK' /\ Others(w)
           /\ UNCHANGED <<Access!account, Access!lockout, broken>>
           /\ \/ pc[w] = "persist" /\ pc'[w] = "mail" /\ job'[w] = job[w]
              \/ pc[w] = "mail" /\ pc'[w] = "idle" /\ job'[w] = Access!NoJob
              \/ pc[w] = "take" /\ pc'[w] = "commit" /\ job'[w] = job[w]
<1>1. CASE Access!PersistToken(w)
  <2>1. job[w].token \in ResetTokens /\ pc[w] = "persist"
    BY <1>1 DEF Holder, Access!PersistToken, Access!At
  <2>2. /\ pc' \in [Workers -> Steps] /\ job' \in [Workers -> Access!Job]
        /\ pc'[w] = "mail" /\ job'[w] = job[w] /\ Others(w)
    BY <1>1, AccessStays DEF Access!PersistToken, Steps
  <2> QED
    BY <1>1, <2>1, <2>2 DEF Access!PersistToken, Access!TypeOK, Steps, Access!account,
    Access!lockout, Access!bounds
<1>2. CASE Access!MailToken(w)
  <2>1. job[w].token \in ResetTokens /\ pc[w] = "mail"
    BY <1>2 DEF Holder, Access!MailToken, Access!At
  <2>2. /\ pc' \in [Workers -> Steps] /\ job' \in [Workers -> Access!Job]
        /\ pc'[w] = "idle" /\ job'[w] = Access!NoJob /\ Others(w)
    BY <1>2, AccessLeaves DEF Access!MailToken
  <2> QED
    BY <1>2, <2>1, <2>2
    DEF Access!MailToken, Access!TypeOK, Steps, Access!account, Access!lockout, Access!bounds
<1>3. CASE Access!TakeToken(w)
  <2>1. pc[w] = "take"
    BY <1>3 DEF Access!TakeToken, Access!At
  <2>2. /\ pc' \in [Workers -> Steps] /\ job' \in [Workers -> Access!Job]
        /\ pc'[w] = "commit" /\ job'[w] = job[w] /\ Others(w)
    BY <1>3, AccessStays DEF Access!TakeToken, Steps
  <2> QED
    BY <1>3, <2>1, <2>2
    DEF Access!TakeToken, Access!TypeOK, Steps, Access!account, Access!lockout, Access!bounds
<1> QED
  BY <1>1, <1>2, <1>3

LEMMA CommitStep ==
    ASSUME Access!TypeOK, NEW w \in Workers, Access!Commit(w)
    PROVE  /\ Access!TypeOK' /\ Others(w) /\ UNCHANGED <<sessions, Access!lockout, broken>>
           /\ row'.password = last' /\ row'.version = row.version + 1
           /\ row'.format = "bcrypt"
           /\ pc[w] = "commit" /\ pc'[w] \in {"clear", "idle"}
           /\ job'[w] \in {job[w], Access!NoJob}
<1>1. /\ pc' \in [Workers -> Steps] /\ job' \in [Workers -> Access!Job] /\ Others(w)
      /\ pc'[w] \in {"clear", "idle"} /\ job'[w] \in {job[w], Access!NoJob}
  <2>1. CASE job[w].kind = "reset"
    BY <2>1, AccessStays DEF Access!Commit, Steps
  <2>2. CASE job[w].kind # "reset"
    BY <2>2, AccessLeaves DEF Access!Commit
  <2> QED
    BY <2>1, <2>2
<1>2. /\ row' \in [password : Access!Passwords, version : Nat, format : Access!Formats]
      /\ row'.password = last' /\ row'.version = row.version + 1
      /\ row'.format = "bcrypt" /\ last' \in Access!Passwords
  BY AccessJobType, AccessRowType DEF Access!Commit, Access!Formats
<1> QED
  BY <1>1, <1>2 DEF Access!Commit, Access!At, Access!TypeOK, Steps, Access!lockout,
  Access!tokens, Access!bounds

LEMMA AbortStep ==
    ASSUME Access!TypeOK, NEW w \in Workers, Access!Abort(w)
    PROVE  /\ Access!TypeOK' /\ Others(w) /\ UNCHANGED <<Access!account, Access!lockout>>
           /\ broken' = broken + 1
           /\ pc[w] # "idle" /\ pc'[w] = "idle" /\ job'[w] = Access!NoJob
<1>1. /\ pc' \in [Workers -> Steps] /\ job' \in [Workers -> Access!Job] /\ Others(w)
      /\ pc'[w] = "idle" /\ job'[w] = Access!NoJob
  BY AccessLeaves DEF Access!Abort
<1> QED
  BY <1>1 DEF Access!Abort, Access!At, Access!TypeOK, Steps, Access!account, Access!lockout,
  Access!tokens, Access!bounds

-----------------------------------------------------------------------------
(* Types hold with the tokens of the requests that mail one.               *)
Typed == Access!TypeOK /\ Holder

LEMMA InitTyped == ASSUME Access!Init PROVE Typed
<1>1. 0 \in Access!Passwords
  BY AccountAssumption DEF Access!Passwords
<1>2. Access!NoJob \in Access!Job
  BY <1>1 DEF Access!NoJob, Access!Job
<1>3. row \in [password : Access!Passwords, version : Nat, format : Access!Formats]
  BY <1>1 DEF Access!Init
<1>4. fails \in Access!Fails
  BY DEF Access!Init, Access!NoFails, Access!Fails
<1> QED
  BY <1>1, <1>2, <1>3, <1>4 DEF Access!Init, Typed, Access!TypeOK, Holder

LEMMA NextTyped == Typed /\ [Access!Next]_(Access!vars) => Typed'
<1> SUFFICES ASSUME Typed, [Access!Next]_(Access!vars) PROVE Typed'
  OBVIOUS
<1>1. ASSUME NEW w \in Workers, NEW p \in Access!Passwords, Access!Login(w, p) PROVE Typed'
  BY <1>1, LoginStep DEF Typed, Holder, Others
<1>2. ASSUME NEW w \in Workers,
             Access!ChangePassword(w)
             \/ \E t \in ResetTokens : Access!RequestReset(w, t) \/ Access!Reset(w, t)
      PROVE  Typed'
  BY <1>2, BeginStep DEF Typed, Holder, Others
<1>3. ASSUME NEW w \in Workers,
             Access!FindUser(w) \/ Access!UpgradeHash(w) \/ Access!Issue(w) PROVE Typed'
  BY <1>3, FindUserStep, UpgradeStep, IssueStep DEF Typed, Holder, Others
<1>4. ASSUME NEW w \in Workers, Access!Miss(w) \/ Access!Judge(w) PROVE Typed'
  BY <1>4, MissStep, JudgeStep DEF Typed, Holder, Others
<1>5. ASSUME NEW w \in Workers, Access!Drop(w) \/ Access!SetLock(w) PROVE Typed'
  BY <1>5, LockStep DEF Typed, Holder, Others
<1>6. ASSUME NEW w \in Workers, Access!ClearFails(w) \/ Access!Unlock(w) PROVE Typed'
  BY <1>6, OpenStep DEF Typed, Holder, Others
<1>7. ASSUME NEW w \in Workers,
             Access!PersistToken(w) \/ Access!MailToken(w) \/ Access!TakeToken(w) PROVE Typed'
  BY <1>7, TokenStep DEF Typed, Holder, Others
<1>8. ASSUME NEW w \in Workers, Access!Commit(w) \/ Access!Abort(w) PROVE Typed'
  BY <1>8, CommitStep, AbortStep DEF Typed, Holder, Others
<1>9. ASSUME Access!ExpireFails \/ Access!ExpireLock
             \/ \E t \in ResetTokens : Access!ExpireToken(t)
      PROVE  Typed'
  BY <1>9, ExpiryStep DEF Typed, Holder
<1>10. CASE UNCHANGED (Access!vars)
  BY <1>10 DEF Typed, Holder, Access!TypeOK, Access!vars, Access!account, Access!lockout,
  Access!tokens, Access!bounds
<1> QED
  BY <1>1, <1>2, <1>3, <1>4, <1>5, <1>6, <1>7, <1>8, <1>9, <1>10 DEF Access!Next, Access!Step

(* Every value a request reads or writes has its type: a token that is     *)
(* mailed is a token, a password one that was chosen or guessed.           *)
THEOREM AccessTypes == Access!Spec => []Access!TypeOK
<1>1. Access!Init => Typed
  BY InitTyped
<1>2. Typed /\ [Access!Next]_(Access!vars) => Typed'
  BY NextTyped
<1>3. Typed => Access!TypeOK
  BY DEF Typed
<1> QED
  BY <1>1, <1>2, <1>3, PTL DEF Access!Spec

LEMMA AccessTyped == Access!Spec => []Typed
<1>1. Access!Init => Typed
  BY InitTyped
<1>2. Typed /\ [Access!Next]_(Access!vars) => Typed'
  BY NextTyped
<1> QED
  BY <1>1, <1>2, PTL DEF Access!Spec

-----------------------------------------------------------------------------
(* The counter never runs ahead of the wrong passwords in a row, and       *)
(* neither does the count a request carries to its decision.               *)
StreakInv ==
    /\ fails.count <= streak
    /\ \A w \in Workers :
          /\ pc[w] \in {"expire", "drop", "lock"} => job[w].count <= job[w].streak
          /\ pc[w] \in {"drop", "lock"} => job[w].count >= MaxAttempts

LEMMA NextStreak == Typed /\ StreakInv /\ [Access!Next]_(Access!vars) => StreakInv'
<1> SUFFICES ASSUME Access!TypeOK, Holder, StreakInv,
                    [Access!Next]_(Access!vars) PROVE StreakInv'
  BY DEF Typed
<1>1. ASSUME NEW w \in Workers, NEW p \in Access!Passwords, Access!Login(w, p) PROVE StreakInv'
  BY <1>1, LoginStep DEF StreakInv, Others, Access!lockout
<1>2. ASSUME NEW w \in Workers,
             Access!ChangePassword(w)
             \/ \E t \in ResetTokens : Access!RequestReset(w, t) \/ Access!Reset(w, t)
      PROVE  StreakInv'
  BY <1>2, BeginStep DEF StreakInv, Others, Access!lockout
<1>3. ASSUME NEW w \in Workers,
             Access!FindUser(w) \/ Access!UpgradeHash(w) \/ Access!Issue(w) PROVE StreakInv'
  BY <1>3, FindUserStep, UpgradeStep, IssueStep DEF StreakInv, Others, Access!lockout
<1>4. ASSUME NEW w \in Workers, Access!Miss(w) \/ Access!Judge(w) PROVE StreakInv'
  BY <1>4, MissStep, JudgeStep, AccessRowType DEF StreakInv, Others
<1>5. ASSUME NEW w \in Workers, Access!Drop(w) \/ Access!SetLock(w) PROVE StreakInv'
  BY <1>5, LockStep, AccessRowType DEF StreakInv, Others
<1>6. ASSUME NEW w \in Workers, Access!ClearFails(w) \/ Access!Unlock(w) PROVE StreakInv'
  <2>1. fails'.count <= streak'
    <3>1. \/ fails'.count = 0 /\ streak' = 0
          \/ fails' = fails /\ streak' = streak
      BY <1>6, OpenStep
    <3> QED
      BY <3>1 DEF StreakInv
  <2> QED
    BY <1>6, <2>1, OpenStep DEF StreakInv, Others
<1>7. ASSUME NEW w \in Workers,
             Access!PersistToken(w) \/ Access!MailToken(w) \/ Access!TakeToken(w)
      PROVE  StreakInv'
  BY <1>7, TokenStep DEF StreakInv, Others, Access!lockout
<1>8. ASSUME NEW w \in Workers, Access!Commit(w) \/ Access!Abort(w) PROVE StreakInv'
  BY <1>8, CommitStep, AbortStep DEF StreakInv, Others, Access!lockout
<1>9. ASSUME Access!ExpireFails \/ Access!ExpireLock
             \/ \E t \in ResetTokens : Access!ExpireToken(t)
      PROVE  StreakInv'
  <2>1. /\ UNCHANGED <<pc, job>>
        /\ \/ fails'.count = 0 /\ streak' = 0
           \/ fails' = fails /\ streak' = streak
    BY <1>9, ExpiryStep DEF Access!lockout
  <2>2. fails'.count <= streak'
    BY <2>1 DEF StreakInv
  <2> QED
    BY <2>1, <2>2 DEF StreakInv
<1>10. CASE UNCHANGED (Access!vars)
  BY <1>10 DEF StreakInv, Access!vars, Access!lockout
<1> QED
  BY <1>1, <1>2, <1>3, <1>4, <1>5, <1>6, <1>7, <1>8, <1>9, <1>10 DEF Access!Next, Access!Step

(* recordFailure locks an account only after MaxAttempts wrong passwords   *)
(* in a row, however the requests overlap and whichever of them die.       *)
THEOREM LocksAreEarned == Access!Spec => []LockEarned
<1>1. Access!Init => StreakInv
  BY DEF Access!Init, Access!NoFails, StreakInv
<1>2. Typed /\ StreakInv /\ [Access!Next]_(Access!vars) => StreakInv'
  BY NextStreak
<1>3. Typed /\ StreakInv => LockEarned
  <2> SUFFICES ASSUME Typed, StreakInv, NEW w \in Workers, pc[w] = "lock"
               PROVE  job[w].streak >= MaxAttempts
    BY DEF LockEarned
  <2>1. job[w].count \in Nat /\ job[w].streak \in Nat
    BY AccessJobType DEF Typed
  <2> QED
    BY <2>1, AccountAssumption DEF StreakInv
<1> QED
  BY <1>1, <1>2, <1>3, AccessTyped, PTL DEF Access!Spec

-----------------------------------------------------------------------------
(* Only the first password has the old format, so what an upgrade writes   *)
(* back is that one.                                                       *)
PasswordInv ==
    /\ PasswordStands
    /\ row.format = "scrypt" => row.password = 0
    /\ \A w \in Workers : pc[w] = "upgrade" => job[w].password = 0

LEMMA NextPassword == Typed /\ PasswordInv /\ [Access!Next]_(Access!vars) => PasswordInv'
<1> SUFFICES ASSUME Access!TypeOK, Holder, PasswordInv,
                    [Access!Next]_(Access!vars) PROVE PasswordInv'
  BY DEF Typed
<1> USE DEF PasswordInv, PasswordStands, Others, Access!account
<1>1. ASSUME NEW w \in Workers, NEW p \in Access!Passwords,
             Access!Login(w, p) PROVE PasswordInv'
  BY <1>1, LoginStep
<1>2. ASSUME NEW w \in Workers,
             Access!ChangePassword(w)
             \/ \E t \in ResetTokens : Access!RequestReset(w, t) \/ Access!Reset(w, t)
      PROVE  PasswordInv'
  BY <1>2, BeginStep
<1>3. ASSUME NEW w \in Workers,
             Access!FindUser(w) \/ Access!UpgradeHash(w) \/ Access!Issue(w) PROVE PasswordInv'
  BY <1>3, FindUserStep, UpgradeStep, IssueStep
<1>4. ASSUME NEW w \in Workers, Access!Miss(w) \/ Access!Judge(w) PROVE PasswordInv'
  BY <1>4, MissStep, JudgeStep
<1>5. ASSUME NEW w \in Workers, Access!Drop(w) \/ Access!SetLock(w) PROVE PasswordInv'
  BY <1>5, LockStep
<1>6. ASSUME NEW w \in Workers, Access!ClearFails(w) \/ Access!Unlock(w) PROVE PasswordInv'
  BY <1>6, OpenStep
<1>7. ASSUME NEW w \in Workers,
             Access!PersistToken(w) \/ Access!MailToken(w) \/ Access!TakeToken(w)
      PROVE  PasswordInv'
  BY <1>7, TokenStep
<1>8. ASSUME NEW w \in Workers, Access!Commit(w) \/ Access!Abort(w) PROVE PasswordInv'
  BY <1>8, CommitStep, AbortStep
<1>9. ASSUME Access!ExpireFails \/ Access!ExpireLock
             \/ \E t \in ResetTokens : Access!ExpireToken(t)
      PROVE  PasswordInv'
  BY <1>9, ExpiryStep
<1>10. CASE UNCHANGED (Access!vars)
  BY <1>10 DEF Access!vars
<1> QED
  BY <1>1, <1>2, <1>3, <1>4, <1>5, <1>6, <1>7, <1>8, <1>9, <1>10 DEF Access!Next, Access!Step

(* A password stays until the next change or reset commits; what may come  *)
(* back is the first one, written by the login that upgrades its hash.     *)
THEOREM PasswordsStand == Access!Spec => []PasswordStands
<1>1. Access!Init => PasswordInv
  BY DEF Access!Init, PasswordInv, PasswordStands
<1>2. Typed /\ PasswordInv /\ [Access!Next]_(Access!vars) => PasswordInv'
  BY NextPassword
<1>3. PasswordInv => PasswordStands
  BY DEF PasswordInv
<1> QED
  BY <1>1, <1>2, <1>3, AccessTyped, PTL DEF Access!Spec

-----------------------------------------------------------------------------
(* No session and no request has a version later than the row.             *)
VersionInv ==
    /\ \A v \in sessions : v <= row.version
    /\ \A w \in Workers : job[w].version <= row.version

LEMMA VersionKept ==
    ASSUME VersionInv, NEW w \in Workers, Others(w), row' = row, sessions' = sessions,
           job'[w].version <= row.version
    PROVE  VersionInv'
<1>1. ASSUME NEW v \in Workers PROVE job'[v].version <= row.version
  BY DEF VersionInv, Others
<1> QED
  BY <1>1 DEF VersionInv

LEMMA NextVersion == Typed /\ VersionInv /\ [Access!Next]_(Access!vars) => VersionInv'
<1> SUFFICES ASSUME Access!TypeOK, Holder, VersionInv,
                    [Access!Next]_(Access!vars) PROVE VersionInv'
  BY DEF Typed
<1>0. /\ row.version \in Nat /\ sessions \subseteq Nat /\ Access!NoJob.version = 0
      /\ 0 <= row.version /\ row.version <= row.version
      /\ \A w \in Workers : job[w].version \in Nat /\ job[w].version <= row.version
  <2>1. row.version \in Nat /\ sessions \subseteq Nat /\ Access!NoJob.version = 0
    BY AccessRowType, AccessNoJob DEF Access!TypeOK
  <2> QED
    BY <2>1, AccessJobType DEF VersionInv
<1>1. ASSUME NEW w \in Workers, NEW p \in Access!Passwords, Access!Login(w, p) PROVE VersionInv'
  BY <1>0, <1>1, LoginStep, VersionKept DEF Access!account
<1>2. ASSUME NEW w \in Workers,
             Access!ChangePassword(w)
             \/ \E t \in ResetTokens : Access!RequestReset(w, t) \/ Access!Reset(w, t)
      PROVE  VersionInv'
  BY <1>0, <1>2, BeginStep, VersionKept DEF Access!account
<1>3. ASSUME NEW w \in Workers, Access!FindUser(w) PROVE VersionInv'
  BY <1>0, <1>3, FindUserStep, VersionKept DEF Access!account
<1>4. ASSUME NEW w \in Workers, Access!UpgradeHash(w) PROVE VersionInv'
  <2>1. /\ row'.version = row.version /\ sessions' = sessions
        /\ Others(w) /\ job'[w] = job[w]
    BY <1>4, UpgradeStep
  <2> QED
    BY <2>1 DEF VersionInv, Others
<1>5. ASSUME NEW w \in Workers, Access!Issue(w) PROVE VersionInv'
  <2>1. /\ row' = row /\ sessions' = sessions \cup {job[w].version}
        /\ Others(w) /\ job'[w].version <= row.version
    BY <1>0, <1>5, IssueStep
  <2>2. \A v \in Workers : job'[v].version <= row.version
    BY <1>0, <2>1 DEF Others
  <2> QED
    BY <1>0, <2>1, <2>2 DEF VersionInv
<1>6. ASSUME NEW w \in Workers, Access!Miss(w) \/ Access!Judge(w) PROVE VersionInv'
  BY <1>0, <1>6, MissStep, JudgeStep, VersionKept DEF Access!account
<1>7. ASSUME NEW w \in Workers,
             Access!Drop(w) \/ Access!SetLock(w) \/ Access!ClearFails(w) \/ Access!Unlock(w)
      PROVE  VersionInv'
  BY <1>0, <1>7, LockStep, OpenStep, VersionKept DEF Access!account
<1>8. ASSUME NEW w \in Workers,
             \/ Access!PersistToken(w) \/ Access!MailToken(w) \/ Access!TakeToken(w)
             \/ Access!Abort(w)
      PROVE  VersionInv'
  BY <1>0, <1>8, TokenStep, AbortStep, VersionKept DEF Access!account
<1>9. ASSUME NEW w \in Workers, Access!Commit(w) PROVE VersionInv'
  <2>1. /\ row'.version = row.version + 1 /\ sessions' = sessions
        /\ Others(w) /\ job'[w].version <= row.version
    BY <1>0, <1>9, CommitStep
  <2>2. \A v \in Workers : job'[v].version \in Nat /\ job'[v].version <= row.version
    BY <1>0, <1>9, <2>1, CommitStep DEF Others
  <2> QED
    BY <1>0, <2>1, <2>2 DEF VersionInv
<1>10. ASSUME Access!ExpireFails \/ Access!ExpireLock
              \/ \E t \in ResetTokens : Access!ExpireToken(t)
       PROVE  VersionInv'
  BY <1>10, ExpiryStep DEF Access!account, VersionInv
<1>11. CASE UNCHANGED (Access!vars)
  BY <1>11 DEF Access!vars, Access!account, VersionInv
<1> QED
  BY <1>1, <1>2, <1>3, <1>4, <1>5, <1>6, <1>7, <1>8, <1>9, <1>10, <1>11
  DEF Access!Next, Access!Step

(* Only two steps write the row, and an upgrade is no commit.              *)
LEMMA RowChanges ==
    ASSUME Typed, [Access!Next]_(Access!vars), row' # row
    PROVE  \E w \in Workers : Access!UpgradeHash(w) \/ Access!Commit(w)
<1> USE DEF Access!account, Typed
<1>1. ASSUME NEW w \in Workers, NEW p \in Access!Passwords, Access!Login(w, p) PROVE FALSE
  BY <1>1, LoginStep
<1>2. ASSUME NEW w \in Workers,
             Access!ChangePassword(w)
             \/ \E t \in ResetTokens : Access!RequestReset(w, t) \/ Access!Reset(w, t)
      PROVE  FALSE
  BY <1>2, BeginStep
<1>3. ASSUME NEW w \in Workers,
             Access!FindUser(w) \/ Access!Issue(w) \/ Access!Miss(w) \/ Access!Judge(w)
      PROVE  FALSE
  BY <1>3, FindUserStep, IssueStep, MissStep, JudgeStep
<1>5. ASSUME NEW w \in Workers,
             Access!Drop(w) \/ Access!SetLock(w) \/ Access!ClearFails(w) \/ Access!Unlock(w)
      PROVE FALSE
  BY <1>5, LockStep, OpenStep
<1>7. ASSUME NEW w \in Workers,
             \/ Access!PersistToken(w) \/ Access!MailToken(w) \/ Access!TakeToken(w)
             \/ Access!Abort(w)
      PROVE  FALSE
  BY <1>7, TokenStep, AbortStep
<1>9. ~(Access!ExpireFails \/ Access!ExpireLock
        \/ \E t \in ResetTokens : Access!ExpireToken(t)) /\ Access!vars' # Access!vars
  BY ExpiryStep DEF Access!vars
<1> QED
  BY <1>1, <1>2, <1>3, <1>5, <1>7, <1>9 DEF Access!Next, Access!Step

(* A change or a reset that commits sets a version no session was issued   *)
(* with, also when two of them overlap: every earlier session ends.        *)
THEOREM CommitsEndSessions == Access!Spec => CommitEndsSessions
<1>1. Access!Init => VersionInv
  BY DEF Access!Init, Access!NoJob, VersionInv
<1>2. Typed /\ VersionInv /\ [Access!Next]_(Access!vars) => VersionInv'
  BY NextVersion
<1>3. Typed /\ VersionInv /\ [Access!Next]_(Access!vars)
         => [\A w \in Workers : pc[w] = "commit" /\ pc'[w] # "commit"
                => \A v \in sessions : v < row'.version]_row
  <2> SUFFICES ASSUME Typed, VersionInv, [Access!Next]_(Access!vars), NEW w \in Workers,
                      pc[w] = "commit", row' # row, pc'[w] # "commit", NEW v \in sessions
               PROVE  v < row'.version
    OBVIOUS
  <2>1. PICK x \in Workers : Access!UpgradeHash(x) \/ Access!Commit(x)
    BY RowChanges
  <2>2. ~Access!UpgradeHash(x)
    BY UpgradeStep DEF Typed, Others
  <2>3. row'.version = row.version + 1
    BY <2>1, <2>2, CommitStep DEF Typed
  <2>4. row.version \in Nat /\ v \in Nat
    BY AccessRowType DEF Typed, Access!TypeOK
  <2> QED
    BY <2>3, <2>4 DEF VersionInv
<1> QED
  BY <1>1, <1>2, <1>3, AccessTyped, PTL DEF Access!Spec, CommitEndsSessions

-----------------------------------------------------------------------------
(* Sets of workers, counted.                                               *)
LEMMA OneMoves ==
    ASSUME NEW S, IsFiniteSet(S), NEW T, NEW w, T \ {w} = S \ {w}
    PROVE  /\ IsFiniteSet(T) /\ Cardinality(S) \in Nat /\ Cardinality(T) \in Nat
           /\ (w \in T <=> w \in S) => Cardinality(T) = Cardinality(S)
           /\ w \in T /\ w \notin S => Cardinality(T) = Cardinality(S) + 1
           /\ w \notin T /\ w \in S => Cardinality(S) = Cardinality(T) + 1
<1>1. /\ IsFiniteSet(S \ {w})
      /\ Cardinality(S \ {w}) = IF w \in S THEN Cardinality(S) - 1 ELSE Cardinality(S)
  BY FS_RemoveElement
<1>2. T = S \ {w} \/ T = (S \ {w}) \cup {w}
  OBVIOUS
<1>3. IsFiniteSet(T)
  BY <1>1, <1>2, FS_AddElement
<1>4. Cardinality(T \ {w}) = IF w \in T THEN Cardinality(T) - 1 ELSE Cardinality(T)
  BY <1>3, FS_RemoveElement
<1>5. Cardinality(S) \in Nat /\ Cardinality(T) \in Nat
  BY <1>3, FS_CardinalityType
<1>6. Cardinality(T \ {w}) = Cardinality(S \ {w})
  OBVIOUS
<1> QED
  BY <1>1, <1>3, <1>4, <1>5, <1>6

LEMMA CountedApart ==
    ASSUME NEW S, IsFiniteSet(S), NEW A \in SUBSET S, NEW B \in SUBSET S, A \cap B = {}
    PROVE  /\ IsFiniteSet(A \cup B) /\ A \cup B \in SUBSET S
           /\ Cardinality(A) \in Nat /\ Cardinality(B) \in Nat
           /\ Cardinality(A \cup B) = Cardinality(A) + Cardinality(B)
           /\ Cardinality(A) + Cardinality(B) <= Cardinality(S)
<1>1. IsFiniteSet(A) /\ IsFiniteSet(B)
  BY FS_Subset
<1>2. IsFiniteSet(A \cup B) /\ A \cup B \in SUBSET S
  BY FS_Subset
<1>3. Cardinality(A \cup B) = Cardinality(A) + Cardinality(B) - Cardinality(A \cap B)
  BY <1>1, FS_Union
<1>4. Cardinality(A \cap B) = 0
  BY FS_EmptySet
<1>5. Cardinality(A \cup B) <= Cardinality(S)
  BY <1>2, FS_Subset
<1>6. Cardinality(A) \in Nat /\ Cardinality(B) \in Nat
  BY <1>1, FS_CardinalityType
<1> QED
  BY <1>2, <1>3, <1>4, <1>5, <1>6

(* m * a is what it looks like.                                            *)
LEMMA TimesType == ASSUME NEW m \in Nat, NEW a \in Nat PROVE m * a \in Nat
OBVIOUS
LEMMA TimesPlus ==
    ASSUME NEW m \in Nat, NEW a \in Nat, NEW n \in Nat PROVE m * (a + n) = m * a + m * n
OBVIOUS
LEMMA TimesNext == ASSUME NEW m \in Nat, NEW a \in Nat PROVE m * (a + 1) = m * a + m
OBVIOUS
LEMMA TimesAtLeast == ASSUME NEW m \in Nat \ {0}, NEW a \in Nat PROVE a <= m * a
OBVIOUS

(* With a rounds paid, x requests on their last miss and k misses counted, *)
(* there is a worker for each round.                                       *)
LEMMA Rounds ==
    ASSUME NEW m \in Nat \ {0}, NEW a \in Nat, NEW n \in Nat, NEW f \in Nat, NEW x \in Nat,
           NEW k \in Nat, k < m, a + x <= n, k > 0 => a < n
    PROVE  m * (a + f) + x + k <= m * (n + f)
<1> DEFINE d == n - a
<1>1. d \in Nat /\ x <= d /\ n + f = (a + f) + d /\ a + f \in Nat
  OBVIOUS
<1>2. m * (n + f) = m * (a + f) + m * d /\ m * (a + f) \in Nat
  BY <1>1, TimesPlus, TimesType
<1>3. x + k <= m * d
  <2>1. CASE d = 0
    <3>1. x = 0 /\ k = 0
      BY <1>1, <2>1
    <3> QED
      BY <1>1, <3>1, TimesType
  <2>2. CASE d > 0
    <3>1. d - 1 \in Nat /\ d = (d - 1) + 1
      BY <1>1, <2>2
    <3>2. m * d = m * (d - 1) + m /\ d - 1 <= m * (d - 1) /\ m * (d - 1) \in Nat
      BY <3>1, TimesNext, TimesAtLeast, TimesType
    <3> HIDE DEF d
    <3> QED
      BY <1>1, <3>1, <3>2
  <2> QED
    BY <1>1, <2>1, <2>2
<1>4. m * d \in Nat
  BY <1>1, TimesType
<1> HIDE DEF d
<1> QED
  BY <1>2, <1>3, <1>4
-----------------------------------------------------------------------------
(* A round is MaxAttempts wrong passwords. A request that is about to lock *)
(* has a whole round behind it, one on its last miss (drop, or expire with *)
(* the count that decides) stands for the counter it is about to delete,   *)
(* and a fault pays for one round.                                         *)
Locking  == {w \in Workers : pc[w] = "lock"}
LastMiss(w) == pc[w] = "drop" \/ (pc[w] = "expire" /\ job[w].count >= MaxAttempts)
Dropping == {w \in Workers : LastMiss(w)}
Judging  == {w \in Workers : pc[w] \in {"find", "miss"}}
Counted  == IF fails.count < MaxAttempts THEN fails.count ELSE MaxAttempts - 1
Paid     == MaxAttempts * (Cardinality(Locking) + broken)
Most     == MaxAttempts * (Cardinality(Workers) + broken)

(* While the account is open its misses are rounds that are paid, the last *)
(* misses and the counter; while it is locked those still being judged fit *)
(* under the bound. Some worker is not locking while the counter runs.     *)
MissInv ==
    /\ fails.count > 0 => \E w \in Workers : pc[w] # "lock"
    /\ ~lock => misses <= Paid + Cardinality(Dropping) + Counted
    /\ lock  => misses + Cardinality(Judging) <= Most

LEMMA MissCounts ==
    ASSUME Access!TypeOK
    PROVE  /\ Cardinality(Workers) \in Nat
           /\ IsFiniteSet(Locking) /\ IsFiniteSet(Dropping) /\ IsFiniteSet(Judging)
           /\ Cardinality(Locking) \in Nat /\ Cardinality(Dropping) \in Nat
           /\ Cardinality(Judging) \in Nat
           /\ Counted \in Nat /\ Counted < MaxAttempts /\ (Counted > 0 => fails.count > 0)
           /\ Paid \in Nat /\ Most \in Nat /\ Cardinality(Judging) <= Most
           /\ Cardinality(Locking) + Cardinality(Dropping) + Cardinality(Judging)
                 <= Cardinality(Workers)
<1>1. /\ Locking \in SUBSET Workers /\ Dropping \in SUBSET Workers /\ Judging \in SUBSET Workers
      /\ Locking \cap Dropping = {} /\ (Locking \cup Dropping) \cap Judging = {}
  BY DEF Locking, Dropping, LastMiss, Judging
<1>2. IsFiniteSet(Workers) /\ Cardinality(Workers) \in Nat
  BY FS_CardinalityType, AccountAssumption
<1>3. IsFiniteSet(Locking) /\ IsFiniteSet(Dropping) /\ IsFiniteSet(Judging)
  BY <1>1, <1>2, FS_Subset
<1>4. /\ Cardinality(Locking) \in Nat /\ Cardinality(Dropping) \in Nat
      /\ Cardinality(Locking \cup Dropping) = Cardinality(Locking) + Cardinality(Dropping)
      /\ Locking \cup Dropping \in SUBSET Workers
  <2> DEFINE A == Locking
             B == Dropping
  <2>1. A \in SUBSET Workers /\ B \in SUBSET Workers /\ A \cap B = {}
    BY <1>1
  <2> HIDE DEF A, B
  <2>2. Cardinality(A) \in Nat /\ Cardinality(B) \in Nat
    BY <1>2, <2>1, CountedApart
  <2>3. Cardinality(A \cup B) = Cardinality(A) + Cardinality(B)
    BY <1>2, <2>1, CountedApart
  <2>4. A \cup B \in SUBSET Workers
    BY <2>1
  <2> QED
    BY <2>2, <2>3, <2>4 DEF A, B
<1>5. /\ Cardinality(Judging) \in Nat
      /\ Cardinality(Locking \cup Dropping) + Cardinality(Judging) <= Cardinality(Workers)
  <2> DEFINE A == Locking \cup Dropping
  <2>1. A \in SUBSET Workers /\ A \cap Judging = {} /\ Judging \in SUBSET Workers
    BY <1>1
  <2> HIDE DEF A
  <2>2. /\ Cardinality(Judging) \in Nat
        /\ Cardinality(A) + Cardinality(Judging) <= Cardinality(Workers)
    BY <1>2, <2>1, CountedApart
  <2> QED
    BY <2>2 DEF A
<1>6. Counted \in Nat /\ Counted < MaxAttempts /\ (Counted > 0 => fails.count > 0)
  BY AccessRowType, AccountAssumption DEF Counted
<1>7. Paid \in Nat /\ Most \in Nat /\ Cardinality(Workers) + broken <= Most
  <2>1. Cardinality(Workers) + broken \in Nat /\ Cardinality(Locking) + broken \in Nat
    BY <1>2, <1>4, AccessRowType
  <2> QED
    BY <2>1, TimesType, TimesAtLeast, AccountAssumption DEF Paid, Most
<1>8. broken \in Nat
  BY AccessRowType
<1> QED
  BY <1>2, <1>3, <1>4, <1>5, <1>6, <1>7, <1>8

(* Whoever may still lock the account has room under the bound.            *)
LEMMA MissRoom ==
    ASSUME Access!TypeOK, MissInv, ~lock
    PROVE  misses + Cardinality(Judging) <= Most
<1>1. fails.count > 0 => Cardinality(Locking) < Cardinality(Workers)
  <2> SUFFICES ASSUME fails.count > 0 PROVE Cardinality(Locking) < Cardinality(Workers)
    OBVIOUS
  <2>1. Locking \in SUBSET Workers /\ Locking # Workers
    BY DEF MissInv, Locking
  <2>2. /\ Cardinality(Locking) <= Cardinality(Workers)
        /\ Cardinality(Locking) # Cardinality(Workers)
    BY <2>1, FS_Subset, AccountAssumption
  <2> QED
    BY <2>2, MissCounts
<1> DEFINE x == Cardinality(Dropping) + Cardinality(Judging)
<1>2. x \in Nat /\ Cardinality(Locking) + x <= Cardinality(Workers)
  BY MissCounts
<1>3. broken \in Nat /\ misses \in Nat /\ MaxAttempts \in Nat \ {0}
  BY AccessRowType, AccountAssumption
<1>4. Counted > 0 => Cardinality(Locking) < Cardinality(Workers)
  BY <1>1, MissCounts
<1> HIDE DEF x
<1>5. Paid + x + Counted <= Most
  BY <1>2, <1>3, <1>4, MissCounts, Rounds DEF Paid, Most
<1>6. misses <= Paid + Cardinality(Dropping) + Counted
  BY DEF MissInv
<1> QED
  BY <1>3, <1>5, <1>6, MissCounts DEF x

LEMMA MissBound == ASSUME Access!TypeOK, MissInv PROVE MissesBounded
<1>1. misses + Cardinality(Judging) <= Most
  BY MissRoom DEF MissInv
<1>2. Most = (Cardinality(Workers) + broken) * MaxAttempts
  <2>1. Cardinality(Workers) + broken \in Nat /\ MaxAttempts \in Nat
    BY MissCounts, AccessRowType, AccountAssumption
  <2> QED
    BY <2>1 DEF Most
<1>3. misses \in Nat
  BY AccessRowType
<1> HIDE DEF Most
<1>4. misses <= Most
  BY <1>1, <1>3, MissCounts
<1> QED
  BY <1>2, <1>4 DEF MissesBounded

(* How one worker's step moves the sets.                                   *)
LEMMA MissSets ==
    ASSUME Access!TypeOK, NEW w \in Workers, Others(w)
    PROVE  /\ Locking' \ {w} = Locking \ {w}
           /\ Dropping' \ {w} = Dropping \ {w}
           /\ Judging' \ {w} = Judging \ {w}
           /\ w \in Locking <=> pc[w] = "lock"
           /\ w \in Locking' <=> pc'[w] = "lock"
           /\ w \in Dropping <=> LastMiss(w)
           /\ w \in Dropping' <=> LastMiss(w)'
           /\ w \in Judging <=> pc[w] \in {"find", "miss"}
           /\ w \in Judging' <=> pc'[w] \in {"find", "miss"}
BY DEF Others, Locking, Dropping, Judging, LastMiss

LEMMA MissCountsLater ==
    Access!TypeOK' =>
        /\ Cardinality(Judging)' \in Nat /\ Cardinality(Judging)' <= Most'
        /\ Cardinality(Dropping)' \in Nat /\ Paid' \in Nat /\ Counted' \in Nat /\ Most' \in Nat
<1> DEFINE F == Access!TypeOK =>
                   /\ Cardinality(Judging) \in Nat /\ Cardinality(Judging) <= Most
                   /\ Cardinality(Dropping) \in Nat /\ Paid \in Nat /\ Counted \in Nat
                   /\ Most \in Nat
<1>1. F
  BY MissCounts
<1>2. F'
  BY <1>1, PTL
<1> QED
  BY <1>2

LEMMA MissZero ==
    ASSUME Access!TypeOK', misses' = 0,
           fails'.count > 0 => \E w \in Workers : pc'[w] # "lock"
    PROVE  MissInv'
BY MissCountsLater DEF MissInv

(* A step that counts nothing and locks nothing.                           *)
LEMMA MissKept ==
    ASSUME Access!TypeOK, MissInv, NEW w \in Workers, Others(w),
           UNCHANGED <<lock, misses, broken>>, fails'.count = fails.count,
           pc'[w] = "lock" <=> pc[w] = "lock",
           LastMiss(w)' <=> LastMiss(w),
           pc'[w] \in {"find", "miss"} => pc[w] \in {"find", "miss"} \/ ~lock
    PROVE  MissInv'
<1>1. Cardinality(Locking)' = Cardinality(Locking)
  BY MissSets, MissCounts, OneMoves
<1>2. Cardinality(Dropping)' = Cardinality(Dropping)
  BY MissSets, MissCounts, OneMoves
<1>3. Counted' = Counted /\ Paid' = Paid /\ Most' = Most
  BY <1>1 DEF Counted, Paid, Most
<1>4. lock => Cardinality(Judging)' <= Cardinality(Judging) /\ Cardinality(Judging)' \in Nat
  BY MissSets, MissCounts, OneMoves
<1>5. fails'.count > 0 => \E v \in Workers : pc'[v] # "lock"
  BY DEF MissInv, Others
<1>6. misses \in Nat
  BY AccessRowType
<1>7. lock => misses' + Cardinality(Judging)' <= Most'
  BY <1>3, <1>4, <1>6, MissCounts DEF MissInv
<1>8. ~lock' => misses' <= Paid' + Cardinality(Dropping)' + Counted'
  BY <1>2, <1>3 DEF MissInv
<1> QED
  BY <1>5, <1>7, <1>8 DEF MissInv

LEMMA NextMiss == Typed /\ MissInv /\ [Access!Next]_(Access!vars) => MissInv'
<1> SUFFICES ASSUME Access!TypeOK, Holder, MissInv, [Access!Next]_(Access!vars) PROVE MissInv'
  BY DEF Typed
<1>0. misses \in Nat /\ broken \in Nat /\ fails.count \in Nat /\ MaxAttempts \in Nat \ {0}
  BY AccessRowType, AccountAssumption
<1>1. ASSUME NEW w \in Workers, NEW p \in Access!Passwords, Access!Login(w, p) PROVE MissInv'
  BY <1>1, LoginStep, MissKept DEF Access!lockout, LastMiss
<1>2. ASSUME NEW w \in Workers,
             Access!ChangePassword(w)
             \/ \E t \in ResetTokens : Access!RequestReset(w, t) \/ Access!Reset(w, t)
      PROVE  MissInv'
  BY <1>2, BeginStep, MissKept DEF Access!lockout, LastMiss
<1>3. ASSUME NEW w \in Workers,
             Access!FindUser(w) \/ Access!UpgradeHash(w) \/ Access!Issue(w) PROVE MissInv'
  BY <1>3, FindUserStep, UpgradeStep, IssueStep, MissKept DEF Access!lockout, LastMiss
<1>4. ASSUME NEW w \in Workers, Access!Miss(w) PROVE MissInv'
  <2>1. /\ Access!TypeOK' /\ Others(w) /\ UNCHANGED <<lock, broken>>
        /\ fails'.count = fails.count + 1 /\ misses' = misses + 1
        /\ pc[w] = "miss" /\ pc'[w] = "expire" /\ job'[w].count = fails.count + 1
    BY <1>4, MissStep
  <2>2. Cardinality(Locking)' = Cardinality(Locking)
    BY <2>1, MissSets, MissCounts, OneMoves
  <2>3. Cardinality(Judging) = Cardinality(Judging)' + 1 /\ Cardinality(Judging)' \in Nat
    BY <2>1, MissSets, MissCounts, OneMoves
  <2>4. /\ Cardinality(Dropping)' \in Nat
        /\ IF fails.count + 1 >= MaxAttempts
              THEN Cardinality(Dropping)' = Cardinality(Dropping) + 1
              ELSE Cardinality(Dropping)' = Cardinality(Dropping)
    <3>1. ~LastMiss(w) /\ (LastMiss(w)' <=> fails.count + 1 >= MaxAttempts)
      BY <2>1 DEF LastMiss
    <3> QED
      BY <2>1, <3>1, MissSets, MissCounts, OneMoves
  <2>5. Paid' = Paid /\ Most' = Most
    BY <2>1, <2>2 DEF Paid, Most
  <2>6. /\ Counted' \in Nat
        /\ IF fails.count + 1 >= MaxAttempts
              THEN Counted' = MaxAttempts - 1 ELSE Counted' = Counted + 1
    BY <1>0, <2>1 DEF Counted
  <2>7. Cardinality(Dropping)' + Counted' >= Cardinality(Dropping) + Counted + 1
    BY <1>0, <2>4, <2>6, MissCounts
  <2>8. ~lock' => misses' <= Paid' + Cardinality(Dropping)' + Counted'
    BY <1>0, <2>1, <2>4, <2>5, <2>6, <2>7, MissCounts DEF MissInv
  <2>9. lock' => misses' + Cardinality(Judging)' <= Most'
    BY <1>0, <2>1, <2>3, <2>5, MissCounts DEF MissInv
  <2> QED
    BY <2>1, <2>8, <2>9 DEF MissInv
<1>5. ASSUME NEW w \in Workers, Access!Judge(w) PROVE MissInv'
  <2>1. LastMiss(w)' <=> LastMiss(w)
    BY <1>5, JudgeStep DEF LastMiss
  <2> QED
    BY <1>5, <2>1, JudgeStep, MissKept
<1>6. ASSUME NEW w \in Workers, Access!Drop(w) PROVE MissInv'
  <2>1. /\ Access!TypeOK' /\ Others(w) /\ UNCHANGED <<misses, broken, lock>> /\ fails'.count = 0
        /\ pc[w] = "drop" /\ pc'[w] = "lock" /\ job'[w] = job[w]
    BY <1>6, LockStep
  <2>2. Cardinality(Locking)' = Cardinality(Locking) + 1
    BY <2>1, MissSets, MissCounts, OneMoves
  <2>3. Cardinality(Dropping) = Cardinality(Dropping)' + 1 /\ Cardinality(Dropping)' \in Nat
    <3>1. LastMiss(w) /\ ~LastMiss(w)'
      BY <2>1 DEF LastMiss
    <3> QED
      BY <3>1, <2>1, MissSets, MissCounts, OneMoves
  <2>4. Cardinality(Judging)' = Cardinality(Judging)
    BY <2>1, MissSets, MissCounts, OneMoves
  <2>5. Paid' = Paid + MaxAttempts /\ Most' = Most
    <3>1. Cardinality(Locking) + broken \in Nat
      BY <1>0, MissCounts
    <3>2. MaxAttempts * ((Cardinality(Locking) + broken) + 1) = Paid + MaxAttempts
      BY <1>0, <3>1, TimesNext DEF Paid
    <3>3. Cardinality(Locking)' + broken' = (Cardinality(Locking) + broken) + 1
      BY <1>0, <2>1, <2>2, MissCounts
    <3> QED
      BY <2>1, <3>2, <3>3 DEF Paid, Most
  <2>6. Counted' = 0 /\ Counted <= MaxAttempts - 1
    BY <1>0, <2>1, MissCounts DEF Counted
  <2>7. ~lock' => misses' <= Paid' + Cardinality(Dropping)' + Counted'
    BY <1>0, <2>1, <2>3, <2>5, <2>6, MissCounts DEF MissInv
  <2> QED
    BY <2>1, <2>4, <2>5, <2>7 DEF MissInv
<1>7. ASSUME NEW w \in Workers, Access!SetLock(w) PROVE MissInv'
  <2>1. /\ Access!TypeOK' /\ Others(w) /\ UNCHANGED <<misses, broken, fails>> /\ lock'
        /\ pc[w] = "lock" /\ pc'[w] = "idle"
    BY <1>7, LockStep
  <2>2. Cardinality(Judging)' = Cardinality(Judging)
    BY <2>1, MissSets, MissCounts, OneMoves
  <2>3. misses + Cardinality(Judging) <= Most
    BY MissRoom DEF MissInv
  <2>4. Most' = Most
    BY <2>1 DEF Most
  <2> QED
    BY <2>1, <2>2, <2>3, <2>4 DEF MissInv
<1>8. ASSUME NEW w \in Workers, Access!ClearFails(w) \/ Access!Unlock(w) PROVE MissInv'
  BY <1>8, OpenStep, MissZero
<1>9. ASSUME NEW w \in Workers,
             Access!PersistToken(w) \/ Access!MailToken(w) \/ Access!TakeToken(w)
      PROVE  MissInv'
  BY <1>9, TokenStep, MissKept DEF Access!lockout, LastMiss
<1>10. ASSUME NEW w \in Workers, Access!Commit(w) PROVE MissInv'
  BY <1>10, CommitStep, MissKept DEF Access!lockout, LastMiss
<1>11. ASSUME NEW w \in Workers, Access!Abort(w) PROVE MissInv'
  <2>1. /\ Access!TypeOK' /\ Others(w) /\ UNCHANGED <<misses, fails, lock>>
        /\ broken' = broken + 1
        /\ pc[w] # "idle" /\ pc'[w] = "idle"
    BY <1>11, AbortStep DEF Access!lockout
  <2>2. ~LastMiss(w)'
    BY <2>1 DEF LastMiss
  <2>3. /\ Cardinality(Judging)' \in Nat /\ Cardinality(Judging)' <= Cardinality(Judging)
        /\ Cardinality(Dropping)' \in Nat
        /\ Cardinality(Locking)' \in Nat
    BY <2>1, <2>2, MissSets, MissCounts, OneMoves
  <2>4. \/ /\ Cardinality(Locking)' = Cardinality(Locking)
           /\ Cardinality(Dropping) <= Cardinality(Dropping)' + 1
        \/ /\ Cardinality(Locking) = Cardinality(Locking)' + 1
           /\ Cardinality(Dropping)' = Cardinality(Dropping)
    <3>1. LastMiss(w) => pc[w] # "lock"
      BY DEF LastMiss
    <3> QED
      BY <2>1, <2>2, <3>1, MissSets, MissCounts, OneMoves
  <2>5. Paid' + Cardinality(Dropping)' >= Paid + Cardinality(Dropping) /\ Paid' \in Nat
    <3> DEFINE a == Cardinality(Locking) + broken
    <3>1. a \in Nat /\ (Cardinality(Locking)' + broken' = a
                        \/ Cardinality(Locking)' + broken' = a + 1)
      BY <1>0, <2>1, <2>3, <2>4, MissCounts
    <3>2. MaxAttempts * (a + 1) = MaxAttempts * a + MaxAttempts /\ MaxAttempts * a \in Nat
      BY <1>0, <3>1, TimesNext, TimesType
    <3> HIDE DEF a
    <3>3. Paid = MaxAttempts * a
      BY DEF Paid, a
    <3>4. CASE Cardinality(Locking)' = Cardinality(Locking)
      <4>1. Cardinality(Locking)' + broken' = a + 1
        BY <1>0, <2>1, <3>4, MissCounts DEF a
      <4>2. Paid' = Paid + MaxAttempts
        BY <3>2, <3>3, <4>1 DEF Paid
      <4> QED
        BY <1>0, <2>3, <2>4, <3>4, <4>2, MissCounts
    <3>5. CASE Cardinality(Locking) = Cardinality(Locking)' + 1
      <4>1. Cardinality(Locking)' + broken' = a
        BY <1>0, <2>1, <2>3, <3>5, MissCounts DEF a
      <4>2. Paid' = Paid
        BY <3>3, <4>1 DEF Paid
      <4> QED
        BY <1>0, <2>3, <2>4, <3>5, <4>2, MissCounts
    <3> QED
      BY <2>4, <3>4, <3>5
  <2>6. Most' >= Most /\ Most' \in Nat
    <3>1. Cardinality(Workers) + broken \in Nat
      BY <1>0, MissCounts
    <3>2. /\ MaxAttempts * ((Cardinality(Workers) + broken) + 1) = Most + MaxAttempts
      BY <1>0, <3>1, TimesNext DEF Most
    <3>3. Cardinality(Workers) + broken' = (Cardinality(Workers) + broken) + 1
      BY <1>0, <2>1, MissCounts
    <3>4. Most' = Most + MaxAttempts
      BY <3>2, <3>3 DEF Most
    <3> QED
      BY <1>0, <3>4, MissCounts
  <2>7. Counted' = Counted
    BY <2>1 DEF Counted
  <2>8. ~lock' => misses' <= Paid' + Cardinality(Dropping)' + Counted'
    BY <1>0, <2>1, <2>3, <2>5, <2>7, MissCounts DEF MissInv
  <2>9. lock' => misses' + Cardinality(Judging)' <= Most'
    BY <1>0, <2>1, <2>3, <2>6, MissCounts DEF MissInv
  <2> QED
    BY <2>1, <2>8, <2>9 DEF MissInv
<1>12. ASSUME Access!ExpireFails \/ Access!ExpireLock
              \/ \E t \in ResetTokens : Access!ExpireToken(t)
       PROVE  MissInv'
  <2>1. Access!TypeOK' /\ UNCHANGED <<pc, job, broken>>
    BY <1>12, ExpiryStep
  <2>2. CASE misses' = 0 /\ (fails'.count = 0 \/ fails' = fails)
    BY <2>1, <2>2, MissZero DEF MissInv
  <2>3. CASE UNCHANGED (Access!lockout)
    BY <2>1, <2>3
    DEF MissInv, Access!lockout, Paid, Most, Counted, Locking, Dropping, Judging, LastMiss
  <2> QED
    BY <1>12, <2>2, <2>3, ExpiryStep
<1>13. CASE UNCHANGED (Access!vars)
  BY <1>13 DEF Access!vars, Access!lockout, MissInv, Paid, Most, Counted, Locking, Dropping,
  Judging, LastMiss
<1> QED
  BY <1>1, <1>2, <1>3, <1>4, <1>5, <1>6, <1>7, <1>8, <1>9, <1>10, <1>11, <1>12, <1>13
  DEF Access!Next, Access!Step

(* Between two openings of the account no more wrong passwords are judged  *)
(* than a round for each worker and each fault: the counter is deleted     *)
(* before the lock is set, and every request in between may find neither.  *)
THEOREM MissesStayBounded == Access!Spec => []MissesBounded
<1>1. Access!Init => MissInv
  <2> SUFFICES ASSUME Access!Init PROVE MissInv
    OBVIOUS
  <2>1. Access!TypeOK
    BY InitTyped DEF Typed
  <2> QED
    BY <2>1, MissCounts DEF Access!Init, Access!NoFails, MissInv
<1>2. Typed /\ MissInv /\ [Access!Next]_(Access!vars) => MissInv'
  BY NextMiss
<1>3. Typed /\ MissInv => MissesBounded
  BY MissBound DEF Typed
<1> QED
  BY <1>1, <1>2, <1>3, AccessTyped, PTL DEF Access!Spec

=============================================================================
