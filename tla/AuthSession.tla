---------------------------- MODULE AuthSession ----------------------------
(***************************************************************************)
(* The session of the web client: the two cookies, the user the page       *)
(* shows, and the interceptors of the HTTP client, which answer a 401 by    *)
(* exchanging the refresh token and sending the request again.             *)
(*                                                                         *)
(* The refresh request goes through the same interceptors as the request   *)
(* it serves, and carries no mark of its own: a refused refresh starts a   *)
(* refresh.  The nested levels of that descent hold tokens the server has  *)
(* already refused and would refuse again, so only the innermost level is  *)
(* kept ("deeper").                                                        *)
(*                                                                         *)
(* An access token is a session and the number of times the session's      *)
(* tokens had expired when it was issued; a refresh token is its session.  *)
(* The server decides on a request, and performs it, some time before its  *)
(* answer arrives.  A refresh and a login it decides on as the answer      *)
(* arrives: what they change at the server nobody sees before that.        *)
(***************************************************************************)
EXTENDS Naturals, FiniteSets

CONSTANTS Calls,        \* API requests of the page that may be in flight together
          MaxSessions,  \* bound on logins
          MaxExpiries   \* bound on expiries of the access tokens of a session

NoSession == 0
NoToken == [session |-> NoSession, era |-> 0]
LoginCall == "login"

Sessions == 1..MaxSessions
AccessTokens == [session : Sessions, era : 0..MaxExpiries]
AllCalls == Calls \cup {LoginCall}

ASSUME CallsAssumption == LoginCall \notin Calls
ASSUME AuthBoundAssumption == MaxSessions \in Nat /\ MaxExpiries \in Nat

VARIABLES
  page,      \* the route shown: home, login or dashboard
  leaving,   \* window.location was set and the page is about to go
  user,      \* AuthContext has a user
  access,    \* cookie access_token
  refresh,   \* cookie refresh_token
  call,      \* the requests of the page
  issued,    \* server: number of sessions issued
  era,       \* server: expiries of each session's access tokens so far
  dead,      \* server: sessions whose refresh token has expired
  signedIn,  \* history: the session of the last sign-in, until the sign-out
  crossed,   \* history: a refresh older than the last sign-in or sign-out wrote the cookies
  repeated   \* history: the server performed one call twice

vars == <<page, leaving, user, access, refresh, call, issued, era, dead, signedIn, crossed, repeated>>
server == <<issued, era, dead>>
cookies == <<access, refresh>>

\* Of a request: where it stands, whether a login's password is right, its bearer token,
\* the answer on its way, the refresh token of its refresh, whether that is a stray, and
\* (history) whether the server has performed the call
Idle == [st |-> "idle", right |-> FALSE, bearer |-> NoToken, answer |-> "none",
         tok |-> NoSession, stray |-> FALSE, acted |-> FALSE]
\* The caller has its answer or its error.
Settled(f, c) == [f EXCEPT ![c] = Idle]

Waiting == {"sent", "refreshing", "deeper", "replaying", "retried"}
Descending == {"refreshing", "deeper", "replaying"}
Pending(c) == call[c].st \in Waiting

TypeOK ==
  /\ page \in {"home", "login", "dashboard"}
  /\ leaving \in BOOLEAN /\ crossed \in BOOLEAN
  /\ user \in BOOLEAN
  /\ signedIn \in Sessions \cup {NoSession}
  /\ access \in AccessTokens \cup {NoToken}
  /\ refresh \in Sessions \cup {NoSession}
  /\ call \in [AllCalls -> [st : Waiting \cup {"idle"},
                            right : BOOLEAN,
                            bearer : AccessTokens \cup {NoToken},
                            answer : {"none", "done", "401"},
                            tok : Sessions \cup {NoSession},
                            stray : BOOLEAN, acted : BOOLEAN]]
  /\ repeated \in BOOLEAN
  /\ issued \in 0..MaxSessions
  /\ era \in [Sessions -> 0..MaxExpiries]
  /\ dead \subseteq Sessions

-----------------------------------------------------------------------------
(* The server's side of a request.                                         *)

Issued == 1..issued

\* Mutant: the token is dated after the expiry it replaces
TokenOfNextEra(s) == [session |-> s, era |-> era[s] + 1]

NewToken(s) == [session |-> s, era |-> era[s]]
ValidAccess(t) == t # NoToken /\ era[t.session] = t.era
ValidRefresh(s) == s \in Issued /\ s \notin dead

\* A login is accepted on its password, every other call on its bearer token.
Accepted(c) == IF c = LoginCall THEN call[c].right ELSE ValidAccess(call[c].bearer)

\* The server performs the call, or answers 401.  A call it has performed before is
\* performed a second time.
Serve(c) ==
  /\ call[c].st \in {"sent", "retried"} /\ call[c].answer = "none"
  /\ IF Accepted(c)
       THEN /\ call' = [call EXCEPT ![c].answer = "done", ![c].acted = TRUE]
            /\ repeated' = (repeated \/ call[c].acted)
       ELSE call' = [call EXCEPT ![c].answer = "401"] /\ repeated' = repeated
  /\ UNCHANGED <<page, leaving, user, cookies, server, signedIn, crossed>>

\* 401 is the only answer the response interceptor reacts to.
Unauthorized(c) == call[c].answer = "401"

-----------------------------------------------------------------------------
(* The client.                                                             *)

\* Which page a navigation to a route shows, decided on the access cookie.
Middleware(path, token) ==
  CASE path = "dashboard" /\ token = NoToken -> "login"
    [] path = "login" /\ token # NoToken -> "dashboard"
    [] OTHER -> path

SetCookies(s) == access' = NewToken(s) /\ refresh' = s

\* Mutant: the refresh cookie is left behind
RemoveAccessOnly == access' = NoToken /\ refresh' = refresh

RemoveCookies == access' = NoToken /\ refresh' = NoSession

\* The request interceptor: the bearer is the cookie of the moment of sending.
Send(c) ==
  /\ page = "dashboard" /\ ~Pending(c)
  /\ call' = [call EXCEPT ![c] = [Idle EXCEPT !.st = "sent", !.bearer = access]]
  /\ UNCHANGED <<page, leaving, user, cookies, server, signedIn, crossed, repeated>>

\* LoginForm.handleSubmit; the button is disabled while a login is in flight.
\* The last conjunct is the bound on logins.
SubmitLogin(right) ==
  /\ page = "login" /\ ~Pending(LoginCall)
  /\ issued < MaxSessions
  /\ call' = [call EXCEPT ![LoginCall] = [Idle EXCEPT !.st = "sent", !.right = right, !.bearer = access]]
  /\ UNCHANGED <<page, leaving, user, cookies, server, signedIn, crossed, repeated>>

\* Refreshes under way when the session changes hands are strays from then on.
StrayFrom(f) == [c \in AllCalls |-> IF f[c].st \in Descending THEN [f[c] EXCEPT !.stray = TRUE] ELSE f[c]]

Answered(c) ==
  /\ c \in Calls /\ call[c].st \in {"sent", "retried"} /\ call[c].answer = "done"
  /\ call' = Settled(call, c)
  /\ UNCHANGED <<page, leaving, user, cookies, server, signedIn, crossed, repeated>>

\* AuthContext.login: both cookies, the user, and the form moves on to the dashboard.
LoggedIn ==
  /\ call[LoginCall].st \in {"sent", "retried"} /\ call[LoginCall].answer = "done"
  /\ issued' = issued + 1
  /\ SetCookies(issued + 1)
  /\ user' = TRUE /\ signedIn' = issued + 1 /\ crossed' = FALSE
  /\ call' = StrayFrom(Settled(call, LoginCall))
  /\ page' = "dashboard"
  /\ UNCHANGED <<leaving, era, dead, repeated>>

\* Mutant: any error of a first request, not only a 401, refreshes and sends again: also
\* one the server ran into after it had performed the call
RefreshOnAnyError(c) ==
  /\ call[c].st = "sent" /\ call[c].answer # "none"
  /\ call' = IF refresh = NoSession
               THEN Settled(call, c)
               ELSE [call EXCEPT ![c].st = "refreshing", ![c].tok = refresh]
  /\ UNCHANGED <<page, leaving, user, cookies, server, signedIn, crossed, repeated>>

\* The first 401: exchange the refresh cookie, or hand the error to the caller.
Refused(c) ==
  /\ call[c].st = "sent" /\ Unauthorized(c)
  /\ call' = IF refresh = NoSession
               THEN Settled(call, c)
               ELSE [call EXCEPT ![c].st = "refreshing", ![c].tok = refresh]
  /\ UNCHANGED <<page, leaving, user, cookies, server, signedIn, crossed, repeated>>

\* Mutant: the repeated request is sent as it was, neither marked nor with the new token
RefreshedUnmarked(c) ==
  /\ call[c].st = "refreshing" /\ ValidRefresh(call[c].tok)
  /\ SetCookies(call[c].tok)
  /\ call' = [call EXCEPT ![c].st = "sent", ![c].answer = "none", ![c].tok = NoSession]
  /\ crossed' = (crossed \/ call[c].stray)
  /\ UNCHANGED <<page, leaving, user, server, signedIn, repeated>>

Refreshed(c) ==
  /\ call[c].st = "refreshing" /\ ValidRefresh(call[c].tok)
  /\ SetCookies(call[c].tok)
  /\ call' = [call EXCEPT ![c].st = "retried", ![c].stray = FALSE, ![c].answer = "none",
                          ![c].bearer = NewToken(call[c].tok), ![c].tok = NoSession]
  /\ crossed' = (crossed \/ call[c].stray)
  /\ UNCHANGED <<page, leaving, user, server, signedIn, repeated>>

\* The catch block: both cookies go and the browser is sent to the login page.
GiveUp(c) ==
  /\ RemoveCookies
  /\ leaving' = TRUE
  /\ call' = Settled(call, c)
  /\ UNCHANGED <<page, user, server, signedIn, crossed, repeated>>

\* A refused refresh is itself a 401 without _retry: it reads the cookie and tries again.
RefreshRefused(c) ==
  /\ call[c].st \in {"refreshing", "deeper"} /\ ~ValidRefresh(call[c].tok)
  /\ IF refresh = NoSession
       THEN GiveUp(c)
       ELSE /\ call' = [call EXCEPT ![c].st = "deeper", ![c].tok = refresh]
            /\ UNCHANGED <<page, leaving, user, cookies, server, signedIn, crossed, repeated>>

\* A nested refresh that succeeds sends its parent's refused request once more ...
RefreshedDeep(c) ==
  /\ call[c].st = "deeper" /\ ValidRefresh(call[c].tok)
  /\ SetCookies(call[c].tok)
  /\ call' = [call EXCEPT ![c].st = "replaying"]
  /\ crossed' = (crossed \/ call[c].stray)
  /\ UNCHANGED <<page, leaving, user, server, signedIn, repeated>>

\* ... which is refused again, now with _retry set.
ReplayRefused(c) == call[c].st = "replaying" /\ GiveUp(c)

\* The repeated request is refused: no second refresh.
RetryRefused(c) ==
  /\ call[c].st = "retried" /\ Unauthorized(c)
  /\ call' = Settled(call, c)
  /\ UNCHANGED <<page, leaving, user, cookies, server, signedIn, crossed, repeated>>

\* No answer, or one that is neither a success nor a 401; the server may have performed
\* the call.
Lost(c) ==
  \/ /\ call[c].st \in {"sent", "retried"}
     /\ call' = Settled(call, c)
     /\ UNCHANGED <<page, leaving, user, cookies, server, signedIn, crossed, repeated>>
  \/ call[c].st \in Descending /\ GiveUp(c)

\* Sign Out of the sidebar.  The page stays; so do the requests in flight.
Logout ==
  /\ page = "dashboard"
  /\ RemoveCookies
  /\ user' = FALSE /\ signedIn' = NoSession /\ crossed' = FALSE
  /\ call' = StrayFrom(call)
  /\ UNCHANGED <<page, leaving, server, repeated>>

-----------------------------------------------------------------------------
(* Pages.                                                                  *)

\* A document load: the old page's requests are gone, AuthProvider looks for a cookie.
Load(path) ==
  /\ page' = Middleware(path, access)
  /\ leaving' = FALSE
  /\ user' = (access # NoToken)
  /\ call' = [c \in AllCalls |-> Idle]
  /\ UNCHANGED <<cookies, server, signedIn, crossed, repeated>>

Reload == ~leaving /\ Load(page)
Leave == leaving /\ Load("login")

\* Home waits for the provider, then pushes to the dashboard or to the login form.
HomeRedirect ==
  /\ page = "home"
  /\ page' = Middleware(IF user THEN "dashboard" ELSE "login", access)
  /\ UNCHANGED <<leaving, user, cookies, call, server, signedIn, crossed, repeated>>

\* A change of tab asks the server for the route, which the middleware may redirect.
ChangeTab ==
  /\ page = "dashboard" /\ Middleware("dashboard", access) # "dashboard"
  /\ page' = Middleware("dashboard", access)
  /\ UNCHANGED <<leaving, user, cookies, call, server, signedIn, crossed, repeated>>

\* The access cookie lives a day, the refresh cookie, set with it, seven.
CookieLapses ==
  /\ \/ access # NoToken /\ access' = NoToken /\ refresh' = refresh
     \/ access = NoToken /\ refresh # NoSession /\ refresh' = NoSession /\ access' = access
  /\ UNCHANGED <<page, leaving, user, call, server, signedIn, crossed, repeated>>

AccessExpires(s) ==
  /\ s \in Issued /\ era[s] < MaxExpiries
  /\ era' = [era EXCEPT ![s] = @ + 1]
  /\ UNCHANGED <<page, leaving, user, cookies, call, issued, dead, signedIn, crossed, repeated>>

RefreshExpires(s) ==
  /\ s \in Issued \ dead
  /\ dead' = dead \cup {s}
  /\ UNCHANGED <<page, leaving, user, cookies, call, issued, era, signedIn, crossed, repeated>>

-----------------------------------------------------------------------------
Init ==
  /\ page = "home" /\ leaving = FALSE /\ user = FALSE
  /\ access = NoToken /\ refresh = NoSession
  /\ call = [c \in AllCalls |-> Idle]
  /\ issued = 0 /\ era = [s \in Sessions |-> 0] /\ dead = {}
  /\ signedIn = NoSession /\ crossed = FALSE /\ repeated = FALSE

\* What the server or the network does to a request in flight.
Progress(c) ==
  \/ Serve(c) \/ Answered(c) \/ (c = LoginCall /\ LoggedIn)
  \/ Refused(c) \/ Refreshed(c) \/ RefreshRefused(c) \/ RefreshedDeep(c)
  \/ ReplayRefused(c) \/ RetryRefused(c)

Next ==
  \/ \E c \in Calls : Send(c)
  \/ \E right \in BOOLEAN : SubmitLogin(right)
  \/ \E c \in AllCalls : Progress(c) \/ Lost(c)
  \/ Logout \/ Reload \/ Leave \/ HomeRedirect \/ ChangeTab \/ CookieLapses
  \/ \E s \in Sessions : AccessExpires(s) \/ RefreshExpires(s)

Spec == Init /\ [][Next]_vars

\* The server answers every request, and the browser goes where it is sent.
FairSpec == Spec /\ WF_vars(Leave) /\ \A c \in AllCalls : WF_vars(Progress(c))

-----------------------------------------------------------------------------
\* The cookies are those of the last sign-in that was not followed by a sign-out,
\* unless a refresh that was under way at that moment has written them since.
OwnSession ==
  ~crossed => /\ access # NoToken => access.session = signedIn
              /\ refresh # NoSession => refresh = signedIn

\* The server performs no call twice: whatever was refreshed and sent again on the way,
\* and whichever answers were lost, only a call it has refused is sent again.
PerformedOnce == ~repeated

\* While the refresh tokens are good every request of the page comes to an end.
CallsEnd == [](dead = {}) => \A c \in AllCalls : []<>~Pending(c)

\* "Refresh failed, redirect to login": a request whose session can no longer
\* be refreshed ends, with the page at the login form.
ExpiredSessionLeaves ==
  \A c \in Calls :
    (call[c].st \in {"refreshing", "deeper"} /\ call[c].tok \in dead) ~> ~Pending(c)
=============================================================================
