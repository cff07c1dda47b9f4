------------------------------ MODULE Sessions ------------------------------
(***************************************************************************)
(* Sign-in sessions: backend/app/auth_routes.py, auth_store.py and deps.py *)
(* on the server, frontend/src/lib/api.js and auth.jsx in the browser.     *)
(*                                                                         *)
(* The tabs of one browser share its cookies and nothing else.  A tab      *)
(* keeps a short-lived access token in memory; when a request is answered  *)
(* 401 it presents the refresh cookie, which the server rotates: the old   *)
(* token is revoked and a new one of the same family inserted, in two      *)
(* database calls.  A revoked token that is presented again revokes its    *)
(* family.  Calls of different tabs, a reload under a call, lost answers   *)
(* and expiries interleave with these steps.                               *)
(*                                                                         *)
(* A refresh token is named by the order in which it was minted, its CSRF  *)
(* token by the same number, a family by its first token; 0 is no cookie.  *)
(***************************************************************************)
EXTENDS Naturals, Sequences, FiniteSets

CONSTANTS
  Tabs,       \* tabs of the browser that show the staff application
  Requests,   \* names for the data requests their pages have open
  TabOf,      \* the tab of each
  MaxCalls,   \* bound: calls to /auth open at a time, enough never to block
  MaxEvents   \* bound: loads of a page, sign-outs, expiries, lost answers

ASSUME SessionsAssumption ==
  /\ MaxCalls \in Nat /\ MaxEvents \in Nat
  /\ Tabs \subseteq Nat \ {0}
  /\ TabOf \in [Requests -> Tabs]

VARIABLES
  sessions,  \* refresh_tokens, in the order of insertion
  jar,       \* the browser's refresh and CSRF cookies
  page,      \* per tab: AuthProvider's status, accessToken, refreshPromise
  request,   \* the data requests
  calls,     \* calls to /auth/login, /auth/refresh and /auth/logout
  events,    \* bounded events so far
  trouble    \* an answer was lost, or calls overlapped that single-flight
             \* does not keep apart (history)

vars == <<sessions, jar, page, request, calls, events, trouble>>

Calls == 1..MaxCalls
Token == 0..Len(sessions)
Family(k) == sessions[k].family
LiveOf(f) ==
  {k \in DOMAIN sessions : Family(k) = f /\ ~sessions[k].revoked}

Live(k) == k # 0 /\ ~sessions[k].revoked

Answered == {"done", "refused", "cleared", "lost"}
Gone == 0      \* in place of the tab of a call whose page is gone
NoCall == [at |-> "free", kind |-> "none", tab |-> Gone,
           header |-> 0, csrf |-> 0, cookie |-> 0, token |-> 0]
NoRequest == [at |-> "idle", carries |-> "none", retried |-> FALSE]
Open(c) == calls[c].at # "free"

TypeOK ==
  /\ sessions \in Seq([family : 1..Len(sessions), revoked : BOOLEAN,
                       expired : BOOLEAN])
  /\ jar \in [refresh : Token, csrf : Token]
  /\ page \in [Tabs -> [status : {"closed", "loading", "authenticated",
                                  "anonymous"},
                        access : {"none", "fresh", "expired"},
                        refreshing : {0} \cup Calls]]
  /\ request \in [Requests ->
       [at : {"idle", "sent", "waiting"},
        carries : {"none", "fresh", "expired"}, retried : BOOLEAN]]
  /\ calls \in [Calls ->
       [at : {"free", "sent", "reuse", "revoke", "rotate", "insert"}
               \cup Answered,
        kind : {"none", "login", "refresh", "logout"},
        tab : Tabs \cup {Gone},
        header : Token, csrf : Token, cookie : Token, token : Token]]
  /\ events \in 0..MaxEvents
  /\ trouble \in BOOLEAN

Init ==
  /\ sessions = <<>>
  /\ jar = [refresh |-> 0, csrf |-> 0]
  /\ page = [t \in Tabs |->
       [status |-> "closed", access |-> "none", refreshing |-> 0]]
  /\ request = [r \in Requests |-> NoRequest]
  /\ calls = [c \in Calls |-> NoCall]
  /\ events = 0
  /\ trouble = FALSE

Happens == events < MaxEvents /\ events' = events + 1

-----------------------------------------------------------------------------
(* The browser makes calls.                                                *)

FreeCall(cs) == CHOOSE c \in Calls : cs[c].at = "free"

\* A call of tab t joins the calls cs, with the cookies of the moment.
MakeCall(cs, t, kind, header) ==
  /\ \E c \in Calls : cs[c].at = "free"
  /\ calls' = [cs EXCEPT ![FreeCall(cs)] =
       [at |-> "sent", kind |-> kind, tab |-> t, header |-> header,
        csrf |-> jar.csrf, cookie |-> jar.refresh, token |-> 0]]

\* refreshSession copies the CSRF cookie into the header.
StartRefresh(cs, t) == MakeCall(cs, t, "refresh", jar.csrf)

\* Two calls of one kind from one tab are for refreshSession to keep apart;
\* any other overlap of calls counts as trouble.
Overlap(t, kind) ==
  trouble' = (trouble \/ \E c \in Calls :
    Open(c) /\ <<calls[c].tab, calls[c].kind>> # <<t, kind>>)

\* refreshSession, with a refresh of this tab under way or without.
JoinRefreshNever(t) ==
  /\ StartRefresh(calls, t)
  /\ page' = [page EXCEPT ![t].refreshing = FreeCall(calls)]
JoinRefresh(t) ==
  \/ /\ page[t].refreshing # 0
     /\ UNCHANGED <<calls, page>>
  \/ /\ page[t].refreshing = 0
     /\ StartRefresh(calls, t)
     /\ page' = [page EXCEPT ![t].refreshing = FreeCall(calls)]

\* The tab's calls go on without it; an answer on its way is discarded.
Abandoned(t) ==
  [c \in Calls |-> IF calls[c].tab # t THEN calls[c]
                   ELSE IF calls[c].at \in Answered THEN NoCall
                   ELSE [calls[c] EXCEPT !.tab = Gone]]

\* Every request of tab t becomes q.
InTab(t, q) ==
  [r \in Requests |-> IF TabOf[r] = t THEN q ELSE request[r]]

\* A page is loaded: nothing is in memory, and AuthProvider's effect refreshes.
LoadPage(t) ==
  /\ Happens
  /\ StartRefresh(Abandoned(t), t)
  /\ trouble' = (trouble \/ \E c \in Calls : Open(c))
  /\ page' = [page EXCEPT ![t] =
       [status |-> "loading", access |-> "none",
        refreshing |-> FreeCall(Abandoned(t))]]
  /\ request' = InTab(t, NoRequest)
  /\ UNCHANGED <<sessions, jar>>

OpenPage(t) == page[t].status = "closed" /\ LoadPage(t)
Reload(t) == page[t].status # "closed" /\ LoadPage(t)

Pending(t, kind) == \E c \in Calls : calls[c].tab = t /\ calls[c].kind = kind

SubmitLogin(t) ==
  /\ page[t].status = "anonymous"
  /\ ~Pending(t, "login")
  /\ MakeCall(calls, t, "login", 0)
  /\ Overlap(t, "login")
  /\ UNCHANGED <<sessions, jar, page, request, events>>

\* api.post('/auth/logout') sends the cookies and no X-CSRF-Token header.
ClickLogout(t) ==
  /\ page[t].status = "authenticated"
  /\ ~Pending(t, "logout")
  /\ Happens
  /\ MakeCall(calls, t, "logout", 0)
  /\ Overlap(t, "logout")
  /\ UNCHANGED <<sessions, jar, page, request>>

-----------------------------------------------------------------------------
(* The server.                                                             *)

notServer == <<jar, page, request, events, trouble>>
To(c, at) == calls' = [calls EXCEPT ![c].at = at]
\* The answer of a call whose page is gone is heard by nobody.
Answer(c, at, token) ==
  calls' = [calls EXCEPT ![c] = IF @.tab = Gone THEN NoCall
                                ELSE [@ EXCEPT !.at = at, !.token = token]]

\* require_csrf_header: the header is the cookie, and the session's own token.
CsrfOk(c) ==
  /\ calls[c].header # 0
  /\ calls[c].header = calls[c].csrf
  /\ calls[c].header = calls[c].cookie

\* find_refresh_session and the tests of refresh, on what was found.
LookupRefresh(c) ==
  /\ calls[c].at = "sent" /\ calls[c].kind = "refresh"
  /\ LET k == calls[c].cookie IN
       \/ /\ k = 0
          /\ Answer(c, "refused", 0)
       \/ /\ k # 0 /\ sessions[k].revoked
          /\ To(c, "reuse")
       \/ /\ Live(k)
          /\ sessions[k].expired \/ ~CsrfOk(c)
          /\ Answer(c, "refused", 0)
       \/ /\ Live(k) /\ ~sessions[k].expired /\ CsrfOk(c)
          /\ To(c, "rotate")
  /\ UNCHANGED <<sessions, notServer>>

\* logout: a live session is revoked only with the header; anything else
\* leads straight to clearing the cookies.
LookupLogout(c) ==
  /\ calls[c].at = "sent" /\ calls[c].kind = "logout"
  /\ LET k == calls[c].cookie
     IN  \/ ~Live(k) /\ Answer(c, "cleared", 0)
         \/ Live(k) /\ IF CsrfOk(c) THEN To(c, "revoke")
                       ELSE Answer(c, "refused", 0)
  /\ UNCHANGED <<sessions, notServer>>

RefuseLogin(c) ==
  /\ calls[c].at = "sent" /\ calls[c].kind = "login"
  /\ Answer(c, "refused", 0)
  /\ UNCHANGED <<sessions, notServer>>

\* revoke_family, for a reused token or a sign-out.
RevokeFamily(c) ==
  /\ calls[c].at \in {"reuse", "revoke"}
  /\ sessions' = [k \in DOMAIN sessions |->
       IF Family(k) = Family(calls[c].cookie)
       THEN [sessions[k] EXCEPT !.revoked = TRUE] ELSE sessions[k]]
  /\ Answer(c, IF calls[c].at = "reuse" THEN "refused" ELSE "cleared", 0)
  /\ UNCHANGED notServer

\* rotate_refresh_session: its update sets revoked whatever it was.
RevokeNothing(c) ==
  /\ calls[c].at = "rotate"
  /\ To(c, "insert")
  /\ UNCHANGED <<sessions, notServer>>
RevokeToken(c) ==
  /\ calls[c].at = "rotate"
  /\ sessions' = [sessions EXCEPT ![calls[c].cookie].revoked = TRUE]
  /\ To(c, "insert")
  /\ UNCHANGED notServer

\* The family of a new token: the presented one's, or a new one at a login.
FamilyOfTheCookie(c) ==
  IF calls[c].cookie = 0 THEN 0 ELSE Family(calls[c].cookie)
FamilyFor(c) ==
  IF calls[c].kind = "login" THEN Len(sessions) + 1
                             ELSE Family(calls[c].cookie)

\* _insert_session; the answer carries the new cookies.
InsertSession(c) ==
  /\ \/ calls[c].at = "insert"
     \/ calls[c].at = "sent" /\ calls[c].kind = "login"
  /\ sessions' = Append(sessions, [family |-> FamilyFor(c),
                                   revoked |-> FALSE, expired |-> FALSE])
  /\ Answer(c, "done", Len(sessions) + 1)
  /\ UNCHANGED notServer

ServerStep(c) ==
  \/ LookupRefresh(c) \/ LookupLogout(c) \/ RefuseLogin(c)
  \/ RevokeFamily(c) \/ RevokeToken(c) \/ InsertSession(c)

\* The connection breaks before the call arrives or before it is answered.
LoseAnswer(c) ==
  /\ calls[c].tab # Gone
  /\ calls[c].at \in {"sent", "done", "refused", "cleared"}
  /\ Happens
  /\ To(c, "lost")
  /\ trouble' = TRUE
  /\ UNCHANGED <<sessions, jar, page, request>>

-----------------------------------------------------------------------------
(* The browser hears answers.                                              *)

\* _set_cookies, _clear_cookies: the clearing names the path /api/auth, which
\* is not the CSRF cookie's.
JarAfter(c) ==
  CASE calls[c].at = "done" ->
         [refresh |-> calls[c].token, csrf |-> calls[c].token]
    [] calls[c].at = "cleared" -> [jar EXCEPT !.refresh = 0]
    [] OTHER -> jar

Heard(c, kind) ==
  /\ calls[c].kind = kind /\ calls[c].tab # Gone
  /\ calls[c].at \in Answered
  /\ jar' = JarAfter(c)
  /\ calls' = [calls EXCEPT ![c] = NoCall]
  /\ UNCHANGED <<sessions, events, trouble>>

\* The requests of tab t that wait for its refresh become q.
Released(t, q) ==
  [r \in Requests |-> IF TabOf[r] = t /\ request[r].at = "waiting"
                      THEN q ELSE request[r]]
Resent == [at |-> "sent", carries |-> "fresh", retried |-> TRUE]

\* The refresh of tab t succeeded: the mount effect signs the page in, and the
\* requests that waited are sent again.
HearRefreshed(c) ==
  LET t == calls[c].tab IN
  /\ calls[c].at = "done"
  /\ Heard(c, "refresh")
  /\ page' = [page EXCEPT ![t] =
       [status |-> IF @.status = "loading" THEN "authenticated" ELSE @.status,
        access |-> "fresh", refreshing |-> 0]]
  /\ request' = Released(t, Resent)

\* It failed: the mount effect, or the interceptor's catch and the handler
\* AuthProvider registered, sign the page out; what waited fails.
HearRefusedUnsettled(c) ==
  LET t == calls[c].tab IN
  /\ calls[c].at # "done"
  /\ Heard(c, "refresh")
  /\ page' = [page EXCEPT ![t].access = "none"]
  /\ request' = Released(t, NoRequest)
HearRefused(c) ==
  LET t == calls[c].tab IN
  /\ calls[c].at # "done"
  /\ Heard(c, "refresh")
  /\ page' = [page EXCEPT ![t] =
       [status |-> "anonymous", access |-> "none", refreshing |-> 0]]
  /\ request' = Released(t, NoRequest)

HearLogin(c) ==
  LET t == calls[c].tab IN
  /\ Heard(c, "login")
  /\ page' = IF calls[c].at = "done"
             THEN [page EXCEPT ![t].status = "authenticated",
                               ![t].access = "fresh"]
             ELSE page
  /\ UNCHANGED request

\* The finally of logout, whatever the answer.
HearLogout(c) ==
  LET t == calls[c].tab IN
  /\ Heard(c, "logout")
  /\ page' = [page EXCEPT ![t].status = "anonymous", ![t].access = "none"]
  /\ UNCHANGED request

-----------------------------------------------------------------------------
(* Data requests.                                                          *)

SendRequest(r) ==
  /\ page[TabOf[r]].status = "authenticated"
  /\ request[r].at = "idle"
  /\ request' = [request EXCEPT ![r] =
       [at |-> "sent", carries |-> page[TabOf[r]].access, retried |-> FALSE]]
  /\ UNCHANGED <<sessions, jar, page, calls, events, trouble>>

\* get_current_user accepts the token; or it answers 401 to a retried request,
\* whose error reaches the caller and changes nothing.
AnswerRequest(r) ==
  /\ request[r].at = "sent"
  /\ request[r].carries = "fresh" \/ request[r].retried
  /\ request' = [request EXCEPT ![r] = NoRequest]
  /\ UNCHANGED <<sessions, jar, page, calls, events, trouble>>

\* A first 401: the response interceptor waits for a refresh.
Unauthorized(r) ==
  /\ request[r].at = "sent"
  /\ request[r].carries # "fresh" /\ ~request[r].retried
  /\ request' = [request EXCEPT ![r].at = "waiting"]
  /\ JoinRefresh(TabOf[r])
  /\ Overlap(TabOf[r], "refresh")
  /\ UNCHANGED <<sessions, jar, events>>

\* Time passes: the tab's access tokens, or a refresh token, reach their ends.
AccessExpires(t) ==
  /\ page[t].access = "fresh"
  /\ Happens
  /\ page' = [page EXCEPT ![t].access = "expired"]
  /\ request' = [r \in Requests |->
       IF TabOf[r] = t /\ request[r].carries = "fresh"
       THEN [request[r] EXCEPT !.carries = "expired"] ELSE request[r]]
  /\ UNCHANGED <<sessions, jar, calls, trouble>>

SessionExpires ==
  /\ Live(jar.refresh) /\ ~sessions[jar.refresh].expired
  /\ Happens
  /\ sessions' = [sessions EXCEPT ![jar.refresh].expired = TRUE]
  /\ UNCHANGED <<jar, page, request, calls, trouble>>

-----------------------------------------------------------------------------
Hear(c) ==
  HearRefreshed(c) \/ HearRefused(c) \/ HearLogin(c) \/ HearLogout(c)

CallStep(c) == ServerStep(c) \/ Hear(c)

Next ==
  \/ \E t \in Tabs :
       \/ OpenPage(t) \/ Reload(t) \/ SubmitLogin(t) \/ ClickLogout(t)
       \/ AccessExpires(t)
  \/ \E r \in Requests :
       SendRequest(r) \/ AnswerRequest(r) \/ Unauthorized(r)
  \/ \E c \in Calls : CallStep(c) \/ LoseAnswer(c)
  \/ SessionExpires

Spec == Init /\ [][Next]_vars

\* A call that was made is sent, handled and heard (axios reports a broken
\* connection as an error), and a data request is answered.
FairSpec ==
  /\ Spec
  /\ \A c \in Calls : WF_vars(CallStep(c))
  /\ \A r \in Requests : WF_vars(AnswerRequest(r) \/ Unauthorized(r))

-----------------------------------------------------------------------------
(* Properties.                                                             *)

\* Rotation is invisible to the user: as long as no answer is lost and no
\* calls of different tabs or kinds overlap, a refresh that presents a cookie
\* before its end is neither taken for a reuse nor refused.  This is what the
\* single flight of refreshSession is for: several requests of one page that
\* are answered 401 at once must present the cookie once.
RefreshSucceeds ==
  ~trouble => \A c \in Calls :
    calls[c].kind = "refresh" /\ calls[c].at \in {"reuse", "refused"} =>
      calls[c].cookie = 0 \/ sessions[calls[c].cookie].expired

\* Browser and server agree about the session whenever no call is open and
\* there was no such trouble: the cookie the browser holds is a live token,
\* the only one of its family ("Refresh rotation revokes the presented token",
\* auth_routes.py), and the CSRF cookie is the one bound to it.
JarHoldsTheSession ==
  ~trouble /\ jar.refresh # 0 /\ (\A c \in Calls : ~Open(c)) =>
    /\ LiveOf(Family(jar.refresh)) = {jar.refresh}
    /\ jar.csrf = jar.refresh

\* Whatever is lost, reloaded or raced, no page hangs: the session restore of
\* a loading page ends, and a request that waits for a refresh is sent again
\* or fails.
PageSettles ==
  /\ \A t \in Tabs : page[t].status = "loading" ~> page[t].status # "loading"
  /\ \A r \in Requests : request[r].at = "waiting" ~> request[r].at # "waiting"

\* "Revokes the session family and clears both cookies" (docs/api-reference.md
\* on POST /api/auth/logout): once the server has answered a page's sign-out,
\* the session whose cookie came with it has no live token.
LogoutRevokes ==
  \A c \in Calls :
    /\ calls[c].kind = "logout" /\ calls[c].at \in {"refused", "cleared"}
    /\ calls[c].cookie # 0
    => LiveOf(Family(calls[c].cookie)) = {}
=============================================================================
