------------------------- MODULE AuthSessionProofs -------------------------
(***************************************************************************)
(* Theorems about AuthSession, for any calls and any number of logins and  *)
(* expiries.                                                               *)
(***************************************************************************)
EXTENDS AuthSession, TLAPS

Requests == [st : Waiting \cup {"idle"}, right : BOOLEAN, bearer : AccessTokens \cup {NoToken},
             answer : {"none", "done", "401"}, tok : Sessions \cup {NoSession}, stray : BOOLEAN, acted : BOOLEAN]

\* A refresh is under way with a token of a session, and a login only while the
\* bound on logins is not reached.
Tracked ==
  /\ \A c \in AllCalls : call[c].st \in {"refreshing", "deeper"} => call[c].tok \in Sessions
  /\ Pending(LoginCall) => issued < MaxSessions

Typed == TypeOK /\ Tracked

-----------------------------------------------------------------------------
(* What the helpers return.                                                *)

LEMMA IdleRequest == Idle \in Requests
BY DEF Idle, Requests

\* A token that is valid is of a session.
LEMMA NewTokenTyped ==
  ASSUME TypeOK, NEW s \in Sessions
  PROVE  NewToken(s) \in AccessTokens /\ NewToken(s).session = s
BY DEF TypeOK, NewToken, AccessTokens

\* Marking the refreshes under way as strays changes nothing else of a request.
LEMMA StrayRequests ==
  ASSUME NEW f \in [AllCalls -> Requests]
  PROVE  /\ StrayFrom(f) \in [AllCalls -> Requests]
         /\ \A c \in AllCalls :
              /\ StrayFrom(f)[c].st = f[c].st /\ StrayFrom(f)[c].tok = f[c].tok
              /\ StrayFrom(f)[c].acted = f[c].acted /\ StrayFrom(f)[c].answer = f[c].answer
              /\ f[c].st \in Descending => StrayFrom(f)[c].stray
<1>1. ASSUME NEW c \in AllCalls
      PROVE  /\ [f[c] EXCEPT !.stray = TRUE] \in Requests
             /\ [f[c] EXCEPT !.stray = TRUE].st = f[c].st
             /\ [f[c] EXCEPT !.stray = TRUE].tok = f[c].tok
             /\ [f[c] EXCEPT !.stray = TRUE].acted = f[c].acted
             /\ [f[c] EXCEPT !.stray = TRUE].answer = f[c].answer
             /\ [f[c] EXCEPT !.stray = TRUE].stray
  BY DEF Requests
<1> QED BY <1>1 DEF StrayFrom

-----------------------------------------------------------------------------
(* Types.                                                                  *)

\* One request changes, to one that is idle or to one that is well typed.
LEMMA OneRequest ==
  ASSUME Typed, NEW c \in AllCalls, NEW r \in Requests, call' = [call EXCEPT ![c] = r],
         issued' = issued, r.st \in {"refreshing", "deeper"} => r.tok \in Sessions,
         c = LoginCall /\ r.st \in Waiting => Pending(LoginCall) \/ issued < MaxSessions
  PROVE  call' \in [AllCalls -> Requests] /\ Tracked'
<1>1. call \in [AllCalls -> Requests] BY DEF Typed, TypeOK, Requests
<1>2. call' \in [AllCalls -> Requests] /\ call'[c] = r /\ \A d \in AllCalls \ {c} : call'[d] = call[d]
  BY <1>1
<1>3. LoginCall \in AllCalls BY DEF AllCalls
<1> QED BY <1>2, <1>3 DEF Typed, Tracked, Pending

LEMMA StepTyped == Typed /\ [Next]_vars => Typed'
<1> SUFFICES ASSUME Typed, [Next]_vars PROVE Typed' OBVIOUS
<1>a. /\ call \in [AllCalls -> Requests] /\ TypeOK /\ Tracked
      /\ access \in AccessTokens \cup {NoToken} /\ refresh \in Sessions \cup {NoSession}
  BY DEF Typed, TypeOK, Requests
<1>b. \A c \in AllCalls : Settled(call, c) = [call EXCEPT ![c] = Idle] BY DEF Settled
<1>c. Idle.st = "idle" BY DEF Idle
<1>1. ASSUME NEW c \in Calls, Send(c) PROVE Typed'
  <2> DEFINE r == [Idle EXCEPT !.st = "sent", !.bearer = access]
  <2>1. r \in Requests /\ r.st = "sent" /\ c \in AllCalls /\ c # LoginCall
    BY <1>a, IdleRequest, CallsAssumption DEF Requests, Idle, Waiting, AllCalls
  <2>2. call' = [call EXCEPT ![c] = r] /\ UNCHANGED <<page, leaving, user, cookies, server, signedIn, crossed, repeated>>
    BY <1>1 DEF Send
  <2> HIDE DEF r
  <2>3. call' \in [AllCalls -> Requests] /\ Tracked' BY <2>1, <2>2, OneRequest DEF server
  <2> QED BY <2>2, <2>3 DEF Typed, TypeOK, Requests, cookies, server
<1>2. ASSUME NEW right \in BOOLEAN, SubmitLogin(right) PROVE Typed'
  <2> DEFINE r == [Idle EXCEPT !.st = "sent", !.right = right, !.bearer = access]
  <2>1. r \in Requests /\ r.st = "sent" /\ LoginCall \in AllCalls
    BY <1>a, IdleRequest DEF Requests, Idle, Waiting, AllCalls
  <2>2. /\ call' = [call EXCEPT ![LoginCall] = r] /\ issued < MaxSessions
        /\ UNCHANGED <<page, leaving, user, cookies, server, signedIn, crossed, repeated>>
    BY <1>2 DEF SubmitLogin
  <2> HIDE DEF r
  <2>3. call' \in [AllCalls -> Requests] /\ Tracked' BY <2>1, <2>2, OneRequest DEF server
  <2> QED BY <2>2, <2>3 DEF Typed, TypeOK, Requests, cookies, server
<1>3. ASSUME NEW c \in AllCalls, call' = Settled(call, c), UNCHANGED <<page, user, server, signedIn, crossed>>,
             repeated' \in BOOLEAN, leaving' \in BOOLEAN, UNCHANGED cookies \/ RemoveCookies
      PROVE  Typed'
  <2>1. call' \in [AllCalls -> Requests] /\ Tracked'
    BY <1>3, <1>b, <1>c, IdleRequest, OneRequest DEF server, Waiting
  <2>2. access' \in AccessTokens \cup {NoToken} /\ refresh' \in Sessions \cup {NoSession}
    BY <1>a, <1>3 DEF cookies, RemoveCookies
  <2> QED BY <1>3, <2>1, <2>2 DEF Typed, TypeOK, Requests, server
<1>4. ASSUME NEW c \in AllCalls, Answered(c) \/ RetryRefused(c) \/ ReplayRefused(c) \/ Lost(c) PROVE Typed'
  <2>1. repeated \in BOOLEAN /\ leaving \in BOOLEAN BY <1>a DEF TypeOK
  <2>2. \/ UNCHANGED cookies /\ UNCHANGED leaving
        \/ RemoveCookies /\ leaving' = TRUE
    BY <1>4 DEF Answered, RetryRefused, ReplayRefused, Lost, GiveUp
  <2>3. /\ call' = Settled(call, c) /\ UNCHANGED <<page, user, server, signedIn, crossed>>
        /\ repeated' = repeated
    BY <1>4 DEF Answered, RetryRefused, ReplayRefused, Lost, GiveUp
  <2> QED BY <1>3, <2>1, <2>2, <2>3
<1>5. ASSUME LoggedIn PROVE Typed'
  <2>1. LoginCall \in AllCalls /\ issued < MaxSessions
    BY <1>5, <1>a DEF LoggedIn, Tracked, Pending, Waiting, AllCalls
  <2>2. issued' = issued + 1 /\ issued + 1 \in Sessions /\ issued' \in 0..MaxSessions
    BY <1>5, <1>a, <2>1, AuthBoundAssumption DEF LoggedIn, TypeOK, Sessions
  <2>3. access' \in AccessTokens /\ refresh' \in Sessions /\ signedIn' \in Sessions
    BY <1>5, <1>a, <2>2, NewTokenTyped DEF LoggedIn, SetCookies
  <2>4. Settled(call, LoginCall) \in [AllCalls -> Requests] /\ Settled(call, LoginCall)[LoginCall] = Idle
        /\ \A c \in AllCalls \ {LoginCall} : Settled(call, LoginCall)[c] = call[c]
    BY <1>a, <1>b, <2>1, IdleRequest
  <2>5. call' = StrayFrom(Settled(call, LoginCall)) BY <1>5 DEF LoggedIn
  <2>6. call' \in [AllCalls -> Requests]
        /\ \A c \in AllCalls : call'[c].st = Settled(call, LoginCall)[c].st
                               /\ call'[c].tok = Settled(call, LoginCall)[c].tok
    BY <2>4, <2>5, StrayRequests
  <2>7. Tracked' BY <1>a, <1>c, <2>1, <2>4, <2>6 DEF Tracked, Pending, Waiting
  <2> QED BY <1>5, <1>a, <2>2, <2>3, <2>6, <2>7 DEF LoggedIn, Typed, TypeOK, Requests
<1>6. ASSUME NEW c \in AllCalls, Refused(c) PROVE Typed'
  <2> DEFINE r == [call[c] EXCEPT !.st = "refreshing", !.tok = refresh]
  <2>1. CASE refresh = NoSession
    <3>1. call' = Settled(call, c) BY <1>6, <2>1 DEF Refused
    <3> QED BY <1>6, <1>3, <1>a, <3>1 DEF Refused, TypeOK
  <2>2. CASE refresh # NoSession
    <3>1. r \in Requests /\ r.st = "refreshing" /\ r.tok = refresh /\ refresh \in Sessions
      BY <1>a, <2>2 DEF Requests, Waiting
    <3>2. call' = [call EXCEPT ![c] = r] BY <1>6, <2>2, <1>a DEF Refused
    <3>3. /\ UNCHANGED <<page, leaving, user, cookies, server, signedIn, crossed, repeated>>
          /\ Pending(c)
      BY <1>6 DEF Refused, Pending, Waiting
    <3> HIDE DEF r
    <3>4. call' \in [AllCalls -> Requests] /\ Tracked' BY <3>1, <3>2, <3>3, OneRequest DEF server
    <3> QED BY <3>3, <3>4, <1>a DEF Typed, TypeOK, Requests, cookies, server
  <2> QED BY <2>1, <2>2
<1>7. ASSUME NEW c \in AllCalls, Refreshed(c) PROVE Typed'
  <2> DEFINE r == [call[c] EXCEPT !.st = "retried", !.stray = FALSE, !.answer = "none",
                                  !.bearer = NewToken(call[c].tok), !.tok = NoSession]
  <2>1. call[c].tok \in Sessions BY <1>7, <1>a DEF Refreshed, Tracked
  <2>2. NewToken(call[c].tok) \in AccessTokens BY <1>a, <2>1, NewTokenTyped
  <2>3. r \in Requests /\ r.st = "retried" BY <1>a, <2>2 DEF Requests, Waiting
  <2>4. call' = [call EXCEPT ![c] = r] BY <1>7, <1>a DEF Refreshed
  <2>5. UNCHANGED <<page, leaving, user, server, signedIn, repeated>> /\ Pending(c)
        /\ crossed' = (crossed \/ call[c].stray)
    BY <1>7 DEF Refreshed, Pending, Waiting
  <2>6. access' \in AccessTokens /\ refresh' \in Sessions
    BY <1>7, <2>1, <2>2 DEF Refreshed, SetCookies
  <2>7. crossed' \in BOOLEAN BY <2>5
  <2> HIDE DEF r
  <2>8. call' \in [AllCalls -> Requests] /\ Tracked' BY <2>3, <2>4, <2>5, OneRequest DEF server
  <2> QED BY <1>a, <2>5, <2>6, <2>7, <2>8 DEF Typed, TypeOK, Requests, server
<1>8. ASSUME NEW c \in AllCalls, RefreshRefused(c) PROVE Typed'
  <2> DEFINE r == [call[c] EXCEPT !.st = "deeper", !.tok = refresh]
  <2>1. CASE refresh = NoSession
    <3>1. GiveUp(c) BY <1>8, <2>1 DEF RefreshRefused
    <3> QED BY <1>3, <1>a, <3>1 DEF GiveUp, TypeOK
  <2>2. CASE refresh # NoSession
    <3>1. r \in Requests /\ r.st = "deeper" /\ r.tok = refresh /\ refresh \in Sessions
      BY <1>a, <2>2 DEF Requests, Waiting
    <3>2. call' = [call EXCEPT ![c] = r] BY <1>8, <2>2, <1>a DEF RefreshRefused
    <3>3. /\ UNCHANGED <<page, leaving, user, cookies, server, signedIn, crossed, repeated>>
          /\ Pending(c)
      BY <1>8, <2>2 DEF RefreshRefused, Pending, Waiting
    <3> HIDE DEF r
    <3>4. call' \in [AllCalls -> Requests] /\ Tracked' BY <3>1, <3>2, <3>3, OneRequest DEF server
    <3> QED BY <3>3, <3>4, <1>a DEF Typed, TypeOK, Requests, cookies, server
  <2> QED BY <2>1, <2>2
<1>9. ASSUME NEW c \in AllCalls, RefreshedDeep(c) PROVE Typed'
  <2> DEFINE r == [call[c] EXCEPT !.st = "replaying"]
  <2>1. call[c].tok \in Sessions BY <1>9, <1>a DEF RefreshedDeep, Tracked
  <2>2. r \in Requests /\ r.st = "replaying" BY <1>a DEF Requests, Waiting
  <2>3. call' = [call EXCEPT ![c] = r] BY <1>9, <1>a DEF RefreshedDeep
  <2>4. UNCHANGED <<page, leaving, user, server, signedIn, repeated>> /\ Pending(c)
        /\ crossed' = (crossed \/ call[c].stray)
    BY <1>9 DEF RefreshedDeep, Pending, Waiting
  <2>5. access' \in AccessTokens /\ refresh' \in Sessions
    BY <1>9, <1>a, <2>1, NewTokenTyped DEF RefreshedDeep, SetCookies
  <2>6. crossed' \in BOOLEAN BY <2>4
  <2> HIDE DEF r
  <2>7. call' \in [AllCalls -> Requests] /\ Tracked' BY <2>2, <2>3, <2>4, OneRequest DEF server
  <2> QED BY <1>a, <2>4, <2>5, <2>6, <2>7 DEF Typed, TypeOK, Requests, server
<1>10. CASE Logout
  <2>1. call' \in [AllCalls -> Requests]
        /\ \A c \in AllCalls : call'[c].st = call[c].st /\ call'[c].tok = call[c].tok
    BY <1>a, <1>10, StrayRequests DEF Logout
  <2>2. Tracked' BY <1>a, <1>10, <2>1 DEF Logout, Tracked, Pending, server, AllCalls
  <2> QED BY <1>10, <1>a, <2>1, <2>2 DEF Logout, RemoveCookies, server, Typed, TypeOK, Requests
<1>11. CASE Reload \/ Leave
  <2>1. call' = [c \in AllCalls |-> Idle] /\ page' \in {"home", "login", "dashboard"}
        /\ UNCHANGED <<cookies, server, signedIn, crossed, repeated>>
        /\ leaving' = FALSE /\ user' = (access # NoToken)
    BY <1>11, <1>a DEF Reload, Leave, Load, Middleware, TypeOK
  <2>2. call' \in [AllCalls -> Requests] /\ Tracked'
    BY <2>1, <1>c, IdleRequest DEF Tracked, Pending, Waiting, AllCalls
  <2>3. user' \in BOOLEAN BY <2>1
  <2> QED BY <1>a, <2>1, <2>2, <2>3 DEF Typed, TypeOK, Requests, cookies, server
<1>12. CASE HomeRedirect \/ ChangeTab
  <2>1. page' \in {"home", "login", "dashboard"}
    BY <1>12 DEF HomeRedirect, ChangeTab, Middleware
  <2>2. UNCHANGED <<leaving, user, cookies, call, server, signedIn, crossed, repeated>>
    BY <1>12 DEF HomeRedirect, ChangeTab
  <2> QED BY <1>a, <2>1, <2>2 DEF Typed, Tracked, Pending, TypeOK, cookies, server
<1>13. CASE CookieLapses
  BY <1>a, <1>13 DEF CookieLapses, Typed, Tracked, Pending, TypeOK, server
<1>14. ASSUME NEW s \in Sessions, AccessExpires(s) PROVE Typed'
  <2>1. era' \in [Sessions -> 0..MaxExpiries]
    BY <1>14, <1>a, AuthBoundAssumption DEF AccessExpires, TypeOK
  <2> QED BY <1>a, <1>14, <2>1 DEF AccessExpires, Typed, Tracked, Pending, TypeOK, cookies
<1>15. ASSUME NEW s \in Sessions, RefreshExpires(s) PROVE Typed'
  BY <1>a, <1>15 DEF RefreshExpires, Typed, Tracked, Pending, TypeOK, cookies
<1>17. ASSUME NEW c \in AllCalls, Serve(c) PROVE Typed'
  <2> DEFINE done == [call[c] EXCEPT !.answer = "done", !.acted = TRUE]
             refused == [call[c] EXCEPT !.answer = "401"]
  <2>1. /\ call' = [call EXCEPT ![c] = done] \/ call' = [call EXCEPT ![c] = refused]
        /\ done \in Requests /\ done.st = call[c].st /\ done.tok = call[c].tok
        /\ refused \in Requests /\ refused.st = call[c].st /\ refused.tok = call[c].tok
    BY <1>17, <1>a DEF Serve, Requests
  <2>3. /\ UNCHANGED <<page, leaving, user, cookies, server, signedIn, crossed>> /\ Pending(c)
        /\ call[c].st \in {"sent", "retried"}
    BY <1>17 DEF Serve, Pending, Waiting
  <2>4. repeated' \in BOOLEAN
    BY <1>17, <1>a DEF Serve, TypeOK
  <2> HIDE DEF done, refused
  <2>5. call' \in [AllCalls -> Requests] /\ Tracked'
    BY <2>1, <2>3, OneRequest DEF server
  <2> QED BY <1>a, <2>3, <2>4, <2>5 DEF Typed, TypeOK, Requests, cookies, server
<1>16. CASE UNCHANGED vars
  BY <1>a, <1>16 DEF vars, Typed, Tracked, Pending, TypeOK, cookies, server
<1> QED BY <1>1, <1>2, <1>4, <1>5, <1>6, <1>7, <1>8, <1>9, <1>10, <1>11, <1>12, <1>13, <1>14, <1>15,
           <1>16, <1>17 DEF Next, Progress

LEMMA InitTyped == Init => Typed
<1> SUFFICES ASSUME Init PROVE Typed OBVIOUS
<1>1. call \in [AllCalls -> Requests] /\ \A c \in AllCalls : call[c].st = "idle"
  BY IdleRequest DEF Init, Idle
<1>2. Tracked BY <1>1 DEF Tracked, Pending, Waiting, AllCalls
<1>3. era \in [Sessions -> 0..MaxExpiries] /\ issued \in 0..MaxSessions
  BY AuthBoundAssumption DEF Init
<1>4. access \in AccessTokens \cup {NoToken} /\ refresh \in Sessions \cup {NoSession} BY DEF Init
<1> QED BY <1>1, <1>2, <1>3, <1>4 DEF Init, Typed, TypeOK, Requests

\* The client and the server's sessions are well typed.
THEOREM TypeCorrect == Spec => []TypeOK
<1>1. Typed => TypeOK BY DEF Typed
<1> QED BY <1>1, InitTyped, StepTyped, PTL DEF Spec

-----------------------------------------------------------------------------
(* Whose the cookies are.                                                  *)

\* Unless a stray has written the cookies, they and the tokens of the refreshes under way
\* that are no strays belong to the last sign-in.
Own ==
  /\ OwnSession
  /\ ~crossed => \A c \in AllCalls :
       call[c].st \in Descending /\ ~call[c].stray => call[c].tok = signedIn

\* A step that leaves the cookies, or removes them, and moves no refresh to another token.
LEMMA CookiesKept ==
  ASSUME Own, UNCHANGED <<signedIn, crossed>>,
         access' \in {access, NoToken}, refresh' \in {refresh, NoSession},
         \A c \in AllCalls : call'[c].st \in Descending /\ ~call'[c].stray =>
           \/ call[c].st \in Descending /\ ~call[c].stray /\ call'[c].tok = call[c].tok
           \/ call'[c].tok = refresh /\ refresh # NoSession
  PROVE  Own'
BY DEF Own, OwnSession

\* A refresh that succeeds: its token is the session's, or the cookies are crossed.
LEMMA CookiesRefreshed ==
  ASSUME Typed, Own, NEW c \in AllCalls, call[c].st \in {"refreshing", "deeper"},
         SetCookies(call[c].tok), signedIn' = signedIn, crossed' = (crossed \/ call[c].stray),
         \A d \in AllCalls : call'[d].st \in Descending /\ ~call'[d].stray =>
           call[d].st \in Descending /\ ~call[d].stray /\ call'[d].tok = call[d].tok
  PROVE  Own'
<1>1. access'.session = call[c].tok /\ refresh' = call[c].tok
  BY NewTokenTyped DEF Typed, Tracked, SetCookies
<1>2. ~crossed' => ~crossed /\ ~call[c].stray OBVIOUS
<1>3. call[c].st \in Descending BY DEF Descending
<1> QED BY <1>1, <1>2, <1>3 DEF Own, OwnSession

LEMMA StepOwn == Typed /\ Own /\ [Next]_vars => Own'
<1> SUFFICES ASSUME Typed, Own, [Next]_vars PROVE Own' OBVIOUS
<1>a. call \in [AllCalls -> Requests] /\ TypeOK /\ crossed \in BOOLEAN
  BY DEF Typed, TypeOK, Requests
<1>b. "idle" \notin Descending /\ "sent" \notin Descending /\ "retried" \notin Descending
  BY DEF Descending
<1>c. \A c \in AllCalls : /\ Settled(call, c)[c] = Idle
                          /\ \A d \in AllCalls \ {c} : Settled(call, c)[d] = call[d]
  BY <1>a DEF Settled
<1>d. Idle.st = "idle" BY DEF Idle
<1>2. CASE \/ \E c \in Calls : Send(c)
           \/ \E right \in BOOLEAN : SubmitLogin(right)
  <2>1. \A c \in AllCalls : call'[c].st # "sent" => call'[c] = call[c]
    BY <1>2, <1>a DEF Send, SubmitLogin, AllCalls, Idle
  <2>2. UNCHANGED <<access, refresh, signedIn, crossed>> BY <1>2 DEF Send, SubmitLogin, cookies
  <2> QED BY <1>b, <2>1, <2>2, CookiesKept
<1>3. ASSUME NEW c \in AllCalls, call' = Settled(call, c), UNCHANGED <<signedIn, crossed>>,
             UNCHANGED cookies \/ RemoveCookies
      PROVE  Own'
  <2>1. access' \in {access, NoToken} /\ refresh' \in {refresh, NoSession}
    BY <1>3 DEF cookies, RemoveCookies
  <2> QED BY <1>3, <1>b, <1>c, <1>d, <2>1, CookiesKept
<1>4. ASSUME NEW c \in AllCalls,
             \/ Answered(c) \/ RetryRefused(c) \/ ReplayRefused(c) \/ Lost(c)
             \/ Refused(c) /\ refresh = NoSession
             \/ RefreshRefused(c) /\ refresh = NoSession
      PROVE  Own'
  BY <1>3, <1>4 DEF Answered, RetryRefused, ReplayRefused, Lost, Refused, RefreshRefused, GiveUp
<1>5. CASE LoggedIn
  <2>1. LoginCall \in AllCalls /\ issued + 1 \in Sessions
    BY <1>5, <1>a, AuthBoundAssumption
       DEF LoggedIn, Typed, TypeOK, Tracked, Pending, Waiting, AllCalls, Sessions
  <2>2. access'.session = issued + 1 /\ refresh' = issued + 1 /\ signedIn' = issued + 1
    BY <1>5, <1>a, <2>1, NewTokenTyped DEF LoggedIn, SetCookies
  <2>3. Settled(call, LoginCall) \in [AllCalls -> Requests] BY <1>a, <2>1, IdleRequest DEF Settled
  <2>4. \A c \in AllCalls : call'[c].st \in Descending => call'[c].stray
    BY <1>5, <2>3, StrayRequests DEF LoggedIn
  <2> QED BY <2>2, <2>4 DEF Own, OwnSession
<1>6. ASSUME NEW c \in AllCalls, Refused(c) \/ RefreshRefused(c), refresh # NoSession PROVE Own'
  <2>1. call'[c].tok = refresh /\ \A d \in AllCalls \ {c} : call'[d] = call[d]
    BY <1>6, <1>a DEF Refused, RefreshRefused, Requests
  <2>2. UNCHANGED <<access, refresh, signedIn, crossed>>
    BY <1>6 DEF Refused, RefreshRefused, cookies
  <2> QED BY <1>6, <2>1, <2>2, CookiesKept
<1>7. ASSUME NEW c \in AllCalls, Refreshed(c) \/ RefreshedDeep(c) PROVE Own'
  <2>1. /\ call[c].st \in {"refreshing", "deeper"} /\ SetCookies(call[c].tok)
        /\ signedIn' = signedIn /\ crossed' = (crossed \/ call[c].stray)
    BY <1>7 DEF Refreshed, RefreshedDeep
  <2>2. /\ \A d \in AllCalls \ {c} : call'[d] = call[d]
        /\ \/ call'[c].st = "retried"
           \/ call'[c].stray = call[c].stray /\ call'[c].tok = call[c].tok
    BY <1>7, <1>a DEF Refreshed, RefreshedDeep, Requests
  <2>3. call[c].st \in Descending BY <2>1 DEF Descending
  <2> QED BY <1>b, <2>1, <2>2, <2>3, CookiesRefreshed
<1>8. CASE Logout
  <2>1. \A c \in AllCalls : call'[c].st \in Descending => call'[c].stray
    BY <1>8, <1>a, StrayRequests DEF Logout
  <2> QED BY <1>8, <2>1 DEF Logout, RemoveCookies, Own, OwnSession
<1>9. CASE Reload \/ Leave
  <2>1. call' = [c \in AllCalls |-> Idle] /\ UNCHANGED <<access, refresh, signedIn, crossed>>
    BY <1>9 DEF Reload, Leave, Load, cookies
  <2> QED BY <2>1, <1>b, <1>d, CookiesKept
<1>10. CASE HomeRedirect \/ ChangeTab \/ CookieLapses
  <2>1. /\ UNCHANGED <<call, signedIn, crossed>>
        /\ access' \in {access, NoToken} /\ refresh' \in {refresh, NoSession}
    BY <1>10 DEF HomeRedirect, ChangeTab, CookieLapses, cookies
  <2> QED BY <2>1, CookiesKept
<1>11. CASE UNCHANGED <<access, refresh, call, signedIn, crossed>> BY <1>11 DEF Own, OwnSession
<1>12. ASSUME NEW s \in Sessions, AccessExpires(s) \/ RefreshExpires(s) PROVE Own'
  BY <1>11, <1>12 DEF AccessExpires, RefreshExpires, cookies
<1>13. ASSUME NEW c \in AllCalls, Serve(c) PROVE Own'
  <2>1. \A d \in AllCalls : call'[d].st = call[d].st /\ call'[d].tok = call[d].tok
                            /\ call'[d].stray = call[d].stray
    BY <1>13, <1>a DEF Serve, Requests
  <2>2. UNCHANGED <<access, refresh, signedIn, crossed>> BY <1>13 DEF Serve, cookies
  <2> QED BY <2>1, <2>2, CookiesKept
<1> QED BY <1>2, <1>4, <1>5, <1>6, <1>7, <1>8, <1>9, <1>10, <1>11, <1>12, <1>13
        DEF Next, Progress, vars, cookies

\* The cookies are those of the last sign-in not followed by a sign-out, unless a refresh
\* that was under way at that moment has written them since: however requests, refreshes,
\* sign-ins, sign-outs and page loads interleave.
THEOREM CookiesAreOwn == Spec => []OwnSession
<1>1. Init => Own BY DEF Init, Own, OwnSession, Idle, Descending
<1>2. Own => OwnSession BY DEF Own
<1> QED BY <1>1, <1>2, InitTyped, StepTyped, StepOwn, PTL DEF Spec

-----------------------------------------------------------------------------
(* What the server performs.                                               *)

\* A call the server has performed is one whose answer is on its way: it is neither to be
\* sent again nor to be performed.
Once == /\ ~repeated
        /\ \A c \in AllCalls :
             call[c].acted => call[c].answer = "done" /\ call[c].st \in {"sent", "retried"}

LEMMA StepOnce == Typed /\ Once /\ [Next]_vars => Once'
<1> SUFFICES ASSUME Typed, Once, [Next]_vars PROVE Once' OBVIOUS
<1>a. call \in [AllCalls -> Requests] BY DEF Typed, TypeOK, Requests
<1>b. LoginCall \in AllCalls /\ Calls \subseteq AllCalls /\ ~Idle.acted BY DEF AllCalls, Idle
<1>1. ASSUME \E c \in Calls : Send(c) PROVE Once'
  BY <1>1, <1>a, <1>b DEF Send, Once, Idle
<1>2. ASSUME NEW right \in BOOLEAN, SubmitLogin(right) PROVE Once'
  BY <1>2, <1>a, <1>b DEF SubmitLogin, Once, Idle
<1>3. ASSUME NEW c \in AllCalls, call' = Settled(call, c), repeated' = repeated
      PROVE  Once'
  BY <1>3, <1>a, <1>b DEF Settled, Once
<1>4. ASSUME NEW c \in AllCalls,
             \/ Answered(c) \/ RetryRefused(c) \/ ReplayRefused(c) \/ Lost(c)
             \/ Refused(c) /\ refresh = NoSession
             \/ RefreshRefused(c) /\ refresh = NoSession
      PROVE  Once'
  BY <1>3, <1>4 DEF Answered, RetryRefused, ReplayRefused, Lost, Refused, RefreshRefused, GiveUp
<1>5. CASE LoggedIn
  <2>1. Settled(call, LoginCall) \in [AllCalls -> Requests]
        /\ \A c \in AllCalls : LET f == Settled(call, LoginCall)
                               IN  f[c].acted => f[c].answer = "done" /\ f[c].st \in {"sent", "retried"}
    BY <1>a, <1>b, IdleRequest DEF Settled, Once
  <2> QED BY <1>5, <2>1, StrayRequests DEF LoggedIn, Once
<1>6. ASSUME NEW c \in AllCalls, refresh # NoSession, Refused(c) \/ RefreshRefused(c) PROVE Once'
  <2>1. ~call[c].acted
    BY <1>6 DEF Refused, RefreshRefused, Unauthorized, Once
  <2>2. /\ repeated' = repeated /\ call'[c].acted = call[c].acted
        /\ \A d \in AllCalls \ {c} : call'[d] = call[d]
    BY <1>6, <1>a DEF Refused, RefreshRefused, Requests
  <2> QED BY <2>1, <2>2 DEF Once
<1>7. ASSUME NEW c \in AllCalls, Refreshed(c) \/ RefreshedDeep(c) PROVE Once'
  <2>1. ~call[c].acted
    BY <1>7 DEF Refreshed, RefreshedDeep, Once
  <2>2. /\ repeated' = repeated /\ call'[c].acted = call[c].acted
        /\ \A d \in AllCalls \ {c} : call'[d] = call[d]
    BY <1>7, <1>a DEF Refreshed, RefreshedDeep, Requests
  <2> QED BY <2>1, <2>2 DEF Once
<1>8. CASE Logout BY <1>8, <1>a, StrayRequests DEF Logout, Once
<1>9. CASE Reload \/ Leave BY <1>9, <1>b DEF Reload, Leave, Load, Once
<1>10. CASE UNCHANGED <<call, repeated>> BY <1>10 DEF Once
<1>11. CASE HomeRedirect \/ ChangeTab \/ CookieLapses \/ UNCHANGED vars
  BY <1>10, <1>11 DEF HomeRedirect, ChangeTab, CookieLapses, vars
<1>12. ASSUME NEW s \in Sessions, AccessExpires(s) \/ RefreshExpires(s) PROVE Once'
  BY <1>10, <1>12 DEF AccessExpires, RefreshExpires
<1>13. ASSUME NEW c \in AllCalls, Serve(c) PROVE Once'
  <2>1. ~call[c].acted /\ call[c].st \in {"sent", "retried"} BY <1>13 DEF Serve, Once
  <2>2. /\ repeated' = repeated /\ call'[c].st = call[c].st
        /\ call'[c].acted => call'[c].answer = "done"
        /\ \A d \in AllCalls \ {c} : call'[d] = call[d]
    BY <1>13, <1>a, <2>1 DEF Serve, Requests, Once
  <2> QED BY <2>1, <2>2 DEF Once
<1> QED BY <1>1, <1>2, <1>4, <1>5, <1>6, <1>7, <1>8, <1>9, <1>11, <1>12, <1>13 DEF Next, Progress

\* The server performs no call twice, although calls are refused, refreshed and sent again,
\* tokens expire on the way and answers are lost: once performed, a call is not sent again.
THEOREM CallsPerformedOnce == Spec => []PerformedOnce
<1>1. Init => Once BY DEF Init, Once, Idle
<1>2. Once => PerformedOnce BY DEF Once, PerformedOnce
<1> QED BY <1>1, <1>2, InitTyped, StepTyped, StepOnce, PTL DEF Spec
=============================================================================
