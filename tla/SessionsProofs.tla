----------------------------- MODULE SessionsProofs -----------------------------
(***************************************************************************)
(* What Sessions keeps for any number of tabs, requests, calls and faults. *)
(*                                                                         *)
(* Neither RefreshSucceeds nor JarHoldsTheSession is inductive.  As long   *)
(* as there is no trouble at most one call is open, made with the cookies  *)
(* the browser still has, and how far it is tells which token is live.     *)
(***************************************************************************)
EXTENDS Sessions, SequenceTheorems, TLAPS

Places == {"free", "sent", "reuse", "revoke", "rotate", "insert"} \cup Answered
CallKinds == {"none", "login", "refresh", "logout"}

\* The sessions and the calls when there are n tokens.
SessionRecord(n) == [family : 1..n, revoked : BOOLEAN, expired : BOOLEAN]
CallRecord(n) ==
  [at : Places, kind : CallKinds, tab : Tabs \cup {Gone},
   header : 0..n, csrf : 0..n, cookie : 0..n, token : 0..n]
PageRecord ==
  [status : {"closed", "loading", "authenticated", "anonymous"},
   access : {"none", "fresh", "expired"}, refreshing : {0} \cup Calls]
RequestRecord ==
  [at : {"idle", "sent", "waiting"}, carries : {"none", "fresh", "expired"},
   retried : BOOLEAN]

\* A name that is free holds nothing of the call it had.
FreeIsBlank == \A c \in Calls : ~Open(c) => calls[c] = NoCall

\* A tab has at most the refresh that its requests share.
SingleFlight ==
  \A c \in Calls : calls[c].kind = "refresh" /\ calls[c].tab # Gone =>
    page[calls[c].tab].refreshing = c

\* Only a refresh that came with a cookie rotates.
RotatesACookie ==
  \A c \in Calls : calls[c].at \in {"rotate", "insert"} =>
    calls[c].kind = "refresh" /\ calls[c].cookie # 0

\* Token k is the only live one of its family, or none of it is live.
OnlyLive(k) ==
  \A j \in DOMAIN sessions :
    Family(j) = Family(k) => (j = k <=> ~sessions[j].revoked)
NoneLive(k) ==
  \A j \in DOMAIN sessions : Family(j) = Family(k) => sessions[j].revoked

\* The browser holds the only live token of its family, and its CSRF token.
Settled ==
  jar.refresh # 0 => OnlyLive(jar.refresh) /\ jar.csrf = jar.refresh

\* The state of the session by the place of the one open call.
InFlight(c) ==
  /\ calls[c].tab # Gone
  /\ calls[c].cookie = jar.refresh /\ calls[c].csrf = jar.csrf
  /\ calls[c].kind = "refresh" => calls[c].header = jar.csrf
  /\ calls[c].kind = "logout" => calls[c].header = 0
  /\ calls[c].at \in {"sent", "rotate", "insert", "done", "refused", "cleared"}
  /\ calls[c].at \in {"sent", "rotate", "refused", "cleared"} => Settled
  /\ calls[c].at = "insert" => NoneLive(jar.refresh)
  /\ calls[c].at = "done" => calls[c].token # 0 /\ OnlyLive(calls[c].token)
  /\ calls[c].at = "refused" /\ calls[c].kind = "refresh" =>
       jar.refresh = 0 \/ sessions[jar.refresh].expired

\* Without trouble calls come one at a time, and browser and server agree
\* before and after each.
OneAtATime ==
  ~trouble =>
    /\ \A c, d \in Calls : Open(c) /\ Open(d) => c = d
    /\ (\A c \in Calls : ~Open(c)) => Settled
    /\ \A c \in Calls : Open(c) => InFlight(c)

SessionsInv ==
  /\ TypeOK
  /\ FreeIsBlank
  /\ SingleFlight
  /\ RotatesACookie
  /\ OneAtATime

-----------------------------------------------------------------------------
(* Types, and the steps of the calls.                                      *)

\* The types, with the sessions as a function on their numbers.
LEMMA Typed ==
  ASSUME TypeOK
  PROVE  /\ Len(sessions) \in Nat
         /\ DOMAIN sessions = 1..Len(sessions)
         /\ sessions \in Seq(SessionRecord(Len(sessions)))
         /\ sessions \in [1..Len(sessions) -> SessionRecord(Len(sessions))]
         /\ jar \in [refresh : 0..Len(sessions), csrf : 0..Len(sessions)]
         /\ calls \in [Calls -> CallRecord(Len(sessions))]
         /\ page \in [Tabs -> PageRecord]
         /\ request \in [Requests -> RequestRecord]
         /\ events \in 0..MaxEvents
         /\ trouble \in BOOLEAN
<1>1. sessions \in Seq(SessionRecord(Len(sessions)))
  BY DEF TypeOK, SessionRecord
<1>2. /\ Len(sessions) \in Nat
      /\ DOMAIN sessions = 1..Len(sessions)
      /\ sessions \in [1..Len(sessions) -> SessionRecord(Len(sessions))]
  BY <1>1, LenProperties
<1>3. calls \in [Calls -> CallRecord(Len(sessions))]
  BY DEF TypeOK, CallRecord, Token, Places, CallKinds
<1> QED
  BY <1>1, <1>2, <1>3 DEF TypeOK, Token, PageRecord, RequestRecord

\* And back, for the next state.
LEMMA TypedNext ==
  ASSUME sessions' \in Seq(SessionRecord(Len(sessions'))),
         jar' \in [refresh : 0..Len(sessions'), csrf : 0..Len(sessions')],
         calls' \in [Calls -> CallRecord(Len(sessions'))],
         page' \in [Tabs -> PageRecord],
         request' \in [Requests -> RequestRecord],
         events' \in 0..MaxEvents, trouble' \in BOOLEAN
  PROVE  TypeOK'
<1>1. calls' \in [Calls -> [at : {"free", "sent", "reuse", "revoke", "rotate",
                                 "insert"} \cup Answered,
                           kind : {"none", "login", "refresh", "logout"},
                           tab : Tabs \cup {Gone}, header : 0..Len(sessions'),
                           csrf : 0..Len(sessions'), cookie : 0..Len(sessions'),
                           token : 0..Len(sessions')]]
  BY DEF CallRecord, Places, CallKinds
<1> QED
  BY <1>1 DEF TypeOK, Token, SessionRecord, PageRecord, RequestRecord

LEMMA SessionsInit == Init => SessionsInv
<1> SUFFICES ASSUME Init PROVE SessionsInv
  OBVIOUS
<1> USE SessionsAssumption DEF Init
<1>1. sessions \in Seq([family : 1..Len(sessions), revoked : BOOLEAN,
                       expired : BOOLEAN])
  BY EmptySeq
<1>2. Len(sessions) = 0
  BY EmptySeq
<1>3. calls \in [Calls ->
       [at : {"free", "sent", "reuse", "revoke", "rotate", "insert"}
               \cup Answered,
        kind : {"none", "login", "refresh", "logout"},
        tab : Tabs \cup {Gone},
        header : Token, csrf : Token, cookie : Token, token : Token]]
  <2>1. 0 \in Token
    BY <1>2 DEF Token
  <2> QED
    BY <2>1 DEF NoCall
<1>4. TypeOK
  <2>1. /\ 0 \in Token /\ 0 \in 0..MaxEvents
        /\ NoRequest \in [at : {"idle", "sent", "waiting"},
                          carries : {"none", "fresh", "expired"},
                          retried : BOOLEAN]
    BY <1>2 DEF Token, NoRequest
  <2> QED
    BY <1>1, <1>3, <2>1 DEF TypeOK
<1>5. FreeIsBlank /\ SingleFlight /\ RotatesACookie
  BY DEF FreeIsBlank, SingleFlight, RotatesACookie, NoCall
<1>6. OneAtATime
  BY DEF OneAtATime, Open, NoCall, Settled
<1> QED
  BY <1>4, <1>5, <1>6 DEF SessionsInv

\* What a call is when it is sent.
Made(t, kind, header) ==
  [at |-> "sent", kind |-> kind, tab |-> t, header |-> header,
   csrf |-> jar.csrf, cookie |-> jar.refresh, token |-> 0]

LEMMA CallMade ==
  ASSUME TypeOK, NEW cs \in [Calls -> CallRecord(Len(sessions))],
         NEW t \in Tabs, NEW kind \in CallKinds,
         NEW header \in 0..Len(sessions), MakeCall(cs, t, kind, header)
  PROVE  /\ FreeCall(cs) \in Calls /\ cs[FreeCall(cs)].at = "free"
         /\ calls' \in [Calls -> CallRecord(Len(sessions))]
         /\ calls'[FreeCall(cs)] = Made(t, kind, header)
         /\ \A d \in Calls : d # FreeCall(cs) => calls'[d] = cs[d]
<1>1. FreeCall(cs) \in Calls /\ cs[FreeCall(cs)].at = "free"
  BY DEF MakeCall, FreeCall
<1>2. Made(t, kind, header) \in CallRecord(Len(sessions))
  <2>1. jar.csrf \in 0..Len(sessions) /\ jar.refresh \in 0..Len(sessions)
        /\ 0 \in 0..Len(sessions)
    BY Typed
  <2> QED
    BY <2>1 DEF Made, CallRecord, Places
<1>3. calls' = [cs EXCEPT ![FreeCall(cs)] = Made(t, kind, header)]
  BY DEF MakeCall, Made
<1> QED
  BY <1>1, <1>2, <1>3

\* Call c goes on at the server: its place and token change, or nobody waits
\* for its answer.
Advances(c) ==
  /\ \A d \in Calls : d # c => calls'[d] = calls[d]
  /\ \/ calls[c].tab = Gone /\ calls'[c] = NoCall
     \/ /\ calls'[c].at \in Places \ {"free"}
        /\ calls'[c].kind = calls[c].kind /\ calls'[c].tab = calls[c].tab
        /\ calls'[c].header = calls[c].header
        /\ calls'[c].csrf = calls[c].csrf
        /\ calls'[c].cookie = calls[c].cookie

LEMMA Placed ==
  ASSUME TypeOK, NEW c \in Calls, NEW at \in Places \ {"free"}, To(c, at)
  PROVE  /\ calls' \in [Calls -> CallRecord(Len(sessions))]
         /\ Advances(c) /\ calls'[c].at = at
<1>1. calls \in [Calls -> CallRecord(Len(sessions))]
  BY Typed
<1>2. [calls[c] EXCEPT !.at = at] \in CallRecord(Len(sessions))
  BY <1>1 DEF CallRecord
<1>3. calls' = [calls EXCEPT ![c] = [calls[c] EXCEPT !.at = at]]
  BY DEF To
<1> QED
  BY <1>1, <1>2, <1>3 DEF Advances, CallRecord

LEMMA Answering ==
  ASSUME TypeOK, NEW c \in Calls, NEW at \in Answered, NEW n \in Nat,
         Len(sessions) <= n, NEW token \in 0..n, Answer(c, at, token)
  PROVE  /\ calls' \in [Calls -> CallRecord(n)]
         /\ Advances(c)
         /\ IF calls[c].tab = Gone THEN calls'[c] = NoCall
            ELSE calls'[c].at = at /\ calls'[c].token = token
<1>1. calls \in [Calls -> CallRecord(Len(sessions))] /\ Len(sessions) \in Nat
  BY Typed
<1>2. \A d \in Calls : calls[d] \in CallRecord(n)
  BY <1>1 DEF CallRecord
<1>3. NoCall \in CallRecord(n)
  BY DEF NoCall, CallRecord, Places, CallKinds
<1>4. [calls[c] EXCEPT !.at = at, !.token = token] \in CallRecord(n)
  BY <1>2 DEF CallRecord, Places
<1>5. calls' = [calls EXCEPT ![c] =
        IF calls[c].tab = Gone THEN NoCall
        ELSE [calls[c] EXCEPT !.at = at, !.token = token]]
  BY DEF Answer
<1>6. calls' \in [Calls -> CallRecord(n)]
  BY <1>1, <1>2, <1>3, <1>4, <1>5
<1>7. \A d \in Calls : d # c => calls'[d] = calls[d]
  BY <1>1, <1>5
<1>8. CASE calls[c].tab = Gone
  <2>1. calls'[c] = NoCall
    BY <1>1, <1>5, <1>8
  <2> QED
    BY <1>6, <1>7, <1>8, <2>1 DEF Advances
<1>9. CASE calls[c].tab # Gone
  <2>1. calls'[c] = [calls[c] EXCEPT !.at = at, !.token = token]
    BY <1>1, <1>5, <1>9
  <2>2. /\ calls'[c].at = at /\ calls'[c].token = token
        /\ calls'[c].kind = calls[c].kind /\ calls'[c].tab = calls[c].tab
        /\ calls'[c].header = calls[c].header
        /\ calls'[c].csrf = calls[c].csrf
        /\ calls'[c].cookie = calls[c].cookie
    <3>1. calls[c] \in CallRecord(n)
      BY <1>2
    <3> QED
      BY <2>1, <3>1 DEF CallRecord
  <2>3. at \in Places \ {"free"}
    BY DEF Places, Answered
  <2> QED
    BY <1>6, <1>7, <1>9, <2>2, <2>3 DEF Advances
<1> QED
  BY <1>8, <1>9

-----------------------------------------------------------------------------
(* What keeps the invariant.                                               *)

\* Len(sessions) of them are in the table, and the next state's are typed.
TypedBrowser ==
  /\ page' \in [Tabs -> PageRecord]
  /\ request' \in [Requests -> RequestRecord]
  /\ events' \in 0..MaxEvents /\ trouble' \in BOOLEAN

\* Trouble is not forgotten.
Remembers == trouble => trouble'

\* A step that makes no call and answers none: sessions may only expire.
LEMMA CallsStay ==
  ASSUME SessionsInv, TypedBrowser, Remembers, UNCHANGED <<calls, jar>>,
         \A u \in Tabs : page'[u].refreshing = page[u].refreshing,
         sessions' \in Seq(SessionRecord(Len(sessions))),
         Len(sessions') = Len(sessions),
         \A k \in DOMAIN sessions :
           /\ sessions'[k].family = sessions[k].family
           /\ sessions'[k].revoked = sessions[k].revoked
           /\ sessions[k].expired => sessions'[k].expired
  PROVE  SessionsInv'
<1> USE DEF SessionsInv
<1>1. DOMAIN sessions' = DOMAIN sessions
  BY Typed, LenProperties
<1>2. TypeOK'
  BY Typed, TypedNext DEF TypedBrowser
<1>3. FreeIsBlank'
  BY DEF FreeIsBlank, Open
<1>4. SingleFlight'
  <2> SUFFICES ASSUME NEW c \in Calls, calls[c].kind = "refresh",
                      calls[c].tab # Gone
               PROVE  page'[calls[c].tab].refreshing = c
    BY DEF SingleFlight
  <2>1. calls[c].tab \in Tabs
    BY Typed DEF CallRecord
  <2> QED
    BY <2>1 DEF SingleFlight
<1>5. RotatesACookie'
  BY DEF RotatesACookie
<1>6. OneAtATime'
  <2> SUFFICES ASSUME ~trouble' PROVE OneAtATime'
    BY DEF OneAtATime
  <2>1. /\ \A c, d \in Calls : Open(c) /\ Open(d) => c = d
        /\ (\A c \in Calls : ~Open(c)) => Settled
        /\ \A c \in Calls : Open(c) => InFlight(c)
    BY DEF OneAtATime, Remembers
  <2>2. \A k \in 1..Len(sessions) :
          /\ OnlyLive(k) => OnlyLive(k)'
          /\ NoneLive(k) => NoneLive(k)'
    BY <1>1, Typed DEF OnlyLive, NoneLive, Family
  <2>3. Settled => Settled'
    BY <2>2, Typed DEF Settled
  <2>4. \A c \in Calls : Open(c) => InFlight(c)'
    <3> SUFFICES ASSUME NEW c \in Calls, Open(c) PROVE InFlight(c)'
      OBVIOUS
    <3>1. calls[c].token \in 0..Len(sessions) /\ jar.refresh \in 0..Len(sessions)
      BY Typed DEF CallRecord
    <3>2. calls[c].at = "done" => OnlyLive(calls[c].token)'
      BY <2>1, <2>2, <3>1, Typed DEF InFlight
    <3>3. calls[c].at = "insert" => NoneLive(jar.refresh)'
      <4>1. calls[c].at = "insert" => jar.refresh # 0
        BY <2>1 DEF InFlight, RotatesACookie
      <4> QED
        BY <2>1, <2>2, <3>1, <4>1, Typed DEF InFlight
    <3>4. jar.refresh # 0 /\ sessions[jar.refresh].expired =>
            sessions'[jar.refresh].expired
      BY <3>1, Typed
    <3> QED
      BY <2>1, <2>3, <3>2, <3>3, <3>4 DEF InFlight
  <2> QED
    BY <2>1, <2>3, <2>4 DEF OneAtATime, Open
<1> QED
  BY <1>2, <1>3, <1>4, <1>5, <1>6

\* A tab makes a call, when it has none of that kind.
LEMMA CallJoins ==
  ASSUME SessionsInv, TypedBrowser, UNCHANGED <<sessions, jar>>,
         NEW t \in Tabs, NEW kind \in {"login", "refresh", "logout"},
         NEW header \in {0, jar.csrf}, MakeCall(calls, t, kind, header),
         Overlap(t, kind),
         \A c \in Calls : ~ (calls[c].tab = t /\ calls[c].kind = kind),
         kind = "refresh" => header = jar.csrf,
         kind = "logout" => header = 0,
         \A u \in Tabs : page'[u].refreshing =
           IF u = t /\ kind = "refresh" THEN FreeCall(calls)
                                       ELSE page[u].refreshing
  PROVE  SessionsInv'
<1> USE DEF SessionsInv
<1>1. header \in 0..Len(sessions) /\ kind \in CallKinds /\ t # Gone
  BY Typed, SessionsAssumption DEF CallKinds, Gone
<1>2. calls \in [Calls -> CallRecord(Len(sessions))]
  BY Typed
<1>3. PICK f \in Calls :
        /\ f = FreeCall(calls) /\ calls[f].at = "free"
        /\ calls' \in [Calls -> CallRecord(Len(sessions))]
        /\ calls'[f] = Made(t, kind, header)
        /\ \A d \in Calls : d # f => calls'[d] = calls[d]
  BY <1>1, <1>2, CallMade
<1>4. calls[f] = NoCall
  BY <1>3 DEF FreeIsBlank, Open
<1>5. TypeOK'
  BY <1>3, Typed, TypedNext DEF TypedBrowser
<1>6. FreeIsBlank'
  BY <1>3 DEF FreeIsBlank, Open, Made
<1>7. SingleFlight'
  <2> SUFFICES ASSUME NEW c \in Calls, calls'[c].kind = "refresh",
                      calls'[c].tab # Gone
               PROVE  page'[calls'[c].tab].refreshing = c
    BY DEF SingleFlight
  <2>1. CASE c = f
    BY <1>3, <2>1 DEF Made
  <2>2. CASE c # f
    <3>1. calls'[c] = calls[c] /\ calls[c].tab \in Tabs
      BY <1>2, <1>3, <2>2 DEF CallRecord
    <3> QED
      BY <3>1 DEF SingleFlight
  <2> QED
    BY <2>1, <2>2
<1>8. RotatesACookie'
  BY <1>3 DEF RotatesACookie, Made
<1>9. OneAtATime'
  <2> SUFFICES ASSUME ~trouble' PROVE OneAtATime'
    BY DEF OneAtATime
  <2>1. ~trouble /\ \A c \in Calls : ~Open(c)
    BY DEF Overlap, Open
  <2>2. Settled
    BY <2>1 DEF OneAtATime
  <2>3. Settled'
    BY <2>2 DEF Settled, OnlyLive, Family
  <2>4. \A c \in Calls : Open(c)' => c = f
    BY <1>3, <2>1 DEF Open
  <2>5. InFlight(f)'
    BY <1>1, <1>3, <2>3 DEF InFlight, Made
  <2>6. Open(f)'
    BY <1>3 DEF Open, Made
  <2> QED
    BY <2>4, <2>5, <2>6 DEF OneAtATime
<1> QED
  BY <1>5, <1>6, <1>7, <1>8, <1>9

\* A call goes on at the server, or its connection breaks.
LEMMA CallAdvances ==
  ASSUME SessionsInv, NEW c \in Calls, Open(c), Advances(c), Remembers,
         TypedBrowser, UNCHANGED <<jar, page>>,
         sessions' \in Seq(SessionRecord(Len(sessions'))),
         Len(sessions) <= Len(sessions'),
         calls' \in [Calls -> CallRecord(Len(sessions'))],
         calls'[c].at \in {"rotate", "insert"} =>
           calls[c].kind = "refresh" /\ calls[c].cookie # 0,
         ~trouble' => InFlight(c)'
  PROVE  SessionsInv'
<1> USE DEF SessionsInv
<1>1. Len(sessions') \in Nat /\ Len(sessions) \in Nat
  BY Typed, LenProperties
<1>2. TypeOK'
  <2>1. jar' \in [refresh : 0..Len(sessions'), csrf : 0..Len(sessions')]
    BY <1>1, Typed
  <2> QED
    BY <2>1, TypedNext DEF TypedBrowser
<1>3. FreeIsBlank'
  BY DEF FreeIsBlank, Open, Advances
<1>4. SingleFlight'
  <2>1. \A d \in Calls : calls'[d].kind = "refresh" /\ calls'[d].tab # Gone =>
          calls[d].kind = "refresh" /\ calls[d].tab = calls'[d].tab
    BY DEF Advances, NoCall
  <2> QED
    BY <2>1 DEF SingleFlight
<1>5. RotatesACookie'
  <2> SUFFICES ASSUME NEW d \in Calls, calls'[d].at \in {"rotate", "insert"}
               PROVE  calls'[d].kind = "refresh" /\ calls'[d].cookie # 0
    BY DEF RotatesACookie
  <2>1. CASE d = c
    BY <2>1 DEF Advances, NoCall
  <2>2. CASE d # c
    BY <2>2 DEF Advances, RotatesACookie
  <2> QED
    BY <2>1, <2>2
<1>6. OneAtATime'
  <2> SUFFICES ASSUME ~trouble' PROVE OneAtATime'
    BY DEF OneAtATime
  <2>1. \A d, e \in Calls : Open(d) /\ Open(e) => d = e
    BY DEF OneAtATime, Remembers
  <2>2. \A d \in Calls : Open(d)' => d = c
    BY <2>1 DEF Advances, Open
  <2>3. InFlight(c)' /\ Open(c)'
    BY DEF InFlight, NoCall, Open, Gone
  <2> QED
    BY <2>2, <2>3 DEF OneAtATime
<1> QED
  BY <1>2, <1>3, <1>4, <1>5, <1>6

\* An answer is heard.
LEMMA HeardKeeps ==
  ASSUME SessionsInv, TypedBrowser, NEW c \in Calls, NEW kind \in CallKinds,
         Heard(c, kind),
         \A u \in Tabs : (kind = "refresh" /\ u = calls[c].tab)
           \/ page'[u].refreshing = page[u].refreshing
  PROVE  SessionsInv'
<1> USE DEF SessionsInv
<1>1. calls \in [Calls -> CallRecord(Len(sessions))] /\ Len(sessions) \in Nat
  BY Typed
<1>2. /\ calls'[c] = NoCall
      /\ \A d \in Calls : d # c => calls'[d] = calls[d]
      /\ UNCHANGED <<sessions, trouble>>
  BY <1>1 DEF Heard
<1>3. TypeOK'
  <2>1. NoCall \in CallRecord(Len(sessions))
    BY <1>1 DEF NoCall, CallRecord, Places, CallKinds
  <2>2. calls' \in [Calls -> CallRecord(Len(sessions))]
    BY <1>1, <2>1 DEF Heard
  <2>3. calls[c].token \in 0..Len(sessions)
    BY <1>1 DEF CallRecord
  <2>4. jar' \in [refresh : 0..Len(sessions), csrf : 0..Len(sessions)]
    BY <1>1, <2>3, Typed DEF Heard, JarAfter
  <2> QED
    BY <1>2, <2>2, <2>4, Typed, TypedNext DEF TypedBrowser
<1>4. FreeIsBlank'
  BY <1>2 DEF FreeIsBlank, Open, NoCall
<1>5. SingleFlight'
  <2> SUFFICES ASSUME NEW d \in Calls, calls'[d].kind = "refresh",
                      calls'[d].tab # Gone
               PROVE  page'[calls'[d].tab].refreshing = d
    BY DEF SingleFlight
  <2>1. d # c /\ calls'[d] = calls[d] /\ calls[d].tab \in Tabs
    BY <1>1, <1>2 DEF NoCall, CallRecord
  <2>2. page[calls[d].tab].refreshing = d
    BY <2>1 DEF SingleFlight
  <2>3. ~ (kind = "refresh" /\ calls[d].tab = calls[c].tab)
    BY <2>1, <2>2 DEF SingleFlight, Heard
  <2> QED
    BY <2>1, <2>2, <2>3
<1>6. RotatesACookie'
  BY <1>2 DEF RotatesACookie, NoCall
<1>7. OneAtATime'
  <2> SUFFICES ASSUME ~trouble PROVE OneAtATime'
    BY <1>2 DEF OneAtATime
  <2>1. Open(c) /\ InFlight(c)
    BY DEF OneAtATime, Heard, Open, Answered
  <2>2. \A d \in Calls : ~Open(d)'
    BY <1>2, <2>1 DEF OneAtATime, Open, NoCall
  <2>3. \A k \in 0..Len(sessions) : OnlyLive(k) => OnlyLive(k)'
    BY <1>2 DEF OnlyLive, Family
  <2>4. Settled'
    <3>1. CASE calls[c].at = "done"
      <4>1. calls[c].token \in 0..Len(sessions) /\ OnlyLive(calls[c].token)
        BY <1>1, <2>1, <3>1 DEF InFlight, CallRecord
      <4>2. jar' = [refresh |-> calls[c].token, csrf |-> calls[c].token]
        BY <3>1 DEF Heard, JarAfter
      <4> QED
        BY <2>3, <4>1, <4>2 DEF Settled
    <3>2. CASE calls[c].at = "cleared"
      <4>1. jar'.refresh = 0
        BY <3>2, Typed DEF Heard, JarAfter
      <4> QED
        BY <4>1 DEF Settled
    <3>3. CASE calls[c].at = "refused"
      <4>1. jar' = jar /\ jar.refresh \in 0..Len(sessions)
        BY <3>3, Typed DEF Heard, JarAfter
      <4> QED
        BY <2>1, <2>3, <3>3, <4>1 DEF Settled, InFlight
    <3> QED
      BY <2>1, <3>1, <3>2, <3>3 DEF InFlight, Heard, Answered
  <2> QED
    BY <2>2, <2>4 DEF OneAtATime
<1> QED
  BY <1>3, <1>4, <1>5, <1>6, <1>7

-----------------------------------------------------------------------------
(* The steps of the browser.                                               *)

\* What is left of a call when its page is gone.
LEMMA AbandonedCalls ==
  ASSUME TypeOK, NEW t \in Tabs
  PROVE  /\ Abandoned(t) \in [Calls -> CallRecord(Len(sessions))]
         /\ \A d \in Calls :
              \/ Abandoned(t)[d] = NoCall
              \/ Abandoned(t)[d] = calls[d] /\ calls[d].tab # t
              \/ /\ Abandoned(t)[d].tab = Gone
                 /\ Abandoned(t)[d].at = calls[d].at
                 /\ Abandoned(t)[d].kind = calls[d].kind
                 /\ Abandoned(t)[d].cookie = calls[d].cookie
                 /\ calls[d].tab = t
<1>1. calls \in [Calls -> CallRecord(Len(sessions))] /\ Len(sessions) \in Nat
  BY Typed
<1>2. NoCall \in CallRecord(Len(sessions))
  BY <1>1 DEF NoCall, CallRecord, Places, CallKinds
<1>3. \A d \in Calls : [calls[d] EXCEPT !.tab = Gone] \in CallRecord(Len(sessions))
  BY <1>1 DEF CallRecord
<1>4. Abandoned(t) \in [Calls -> CallRecord(Len(sessions))]
  BY <1>1, <1>2, <1>3 DEF Abandoned
<1>5. ASSUME NEW d \in Calls
      PROVE  \/ Abandoned(t)[d] = NoCall
             \/ Abandoned(t)[d] = calls[d] /\ calls[d].tab # t
             \/ /\ Abandoned(t)[d] = [calls[d] EXCEPT !.tab = Gone]
                /\ calls[d].tab = t
  BY DEF Abandoned
<1>6. ASSUME NEW d \in Calls, Abandoned(t)[d] = [calls[d] EXCEPT !.tab = Gone]
      PROVE  /\ Abandoned(t)[d].tab = Gone
             /\ Abandoned(t)[d].at = calls[d].at
             /\ Abandoned(t)[d].kind = calls[d].kind
             /\ Abandoned(t)[d].cookie = calls[d].cookie
  BY <1>1, <1>6 DEF CallRecord
<1> QED
  BY <1>4, <1>5, <1>6

LEMMA LoadPageKeeps ==
  ASSUME SessionsInv, NEW t \in Tabs, LoadPage(t)
  PROVE  SessionsInv'
<1> USE DEF SessionsInv
<1> DEFINE cs == Abandoned(t)
<1>1. /\ cs \in [Calls -> CallRecord(Len(sessions))]
      /\ \A d \in Calls :
           \/ cs[d] = NoCall
           \/ cs[d] = calls[d] /\ calls[d].tab # t
           \/ /\ cs[d].tab = Gone /\ cs[d].at = calls[d].at
              /\ cs[d].kind = calls[d].kind /\ cs[d].cookie = calls[d].cookie
              /\ calls[d].tab = t
  BY AbandonedCalls
<1>2. /\ MakeCall(cs, t, "refresh", jar.csrf)
      /\ trouble' = (trouble \/ \E c \in Calls : Open(c))
      /\ page' = [page EXCEPT ![t] = [status |-> "loading", access |-> "none",
                                     refreshing |-> FreeCall(cs)]]
      /\ request' = InTab(t, NoRequest)
      /\ events < MaxEvents /\ events' = events + 1
      /\ UNCHANGED <<sessions, jar>>
  BY DEF LoadPage, StartRefresh, Happens
<1> HIDE DEF cs
<1>3. jar.csrf \in 0..Len(sessions) /\ "refresh" \in CallKinds /\ t # Gone
  BY Typed, SessionsAssumption DEF CallKinds, Gone
<1>4. PICK f \in Calls :
        /\ f = FreeCall(cs) /\ cs[f].at = "free"
        /\ calls' \in [Calls -> CallRecord(Len(sessions))]
        /\ calls'[f] = Made(t, "refresh", jar.csrf)
        /\ \A d \in Calls : d # f => calls'[d] = cs[d]
  BY <1>1, <1>2, <1>3, CallMade
<1>5. calls \in [Calls -> CallRecord(Len(sessions))]
  BY Typed
<1>6. /\ page'[t].refreshing = f
      /\ \A u \in Tabs \ {t} : page'[u] = page[u]
      /\ page' \in [Tabs -> PageRecord]
  <2>1. [status |-> "loading", access |-> "none", refreshing |-> f] \in PageRecord
    BY DEF PageRecord
  <2> QED
    BY <1>2, <1>4, <2>1, Typed
<1>7. TypeOK'
  <2>1. request' \in [Requests -> RequestRecord]
    BY <1>2, Typed DEF InTab, NoRequest, RequestRecord
  <2>2. events' \in 0..MaxEvents /\ trouble' \in BOOLEAN
    BY <1>2, Typed, SessionsAssumption
  <2> QED
    BY <1>2, <1>4, <1>6, <2>1, <2>2, Typed, TypedNext
<1>8. FreeIsBlank'
  <2> SUFFICES ASSUME NEW d \in Calls, calls'[d].at = "free"
               PROVE  calls'[d] = NoCall
    BY DEF FreeIsBlank, Open
  <2>1. d # f /\ calls'[d] = cs[d]
    BY <1>4 DEF Made
  <2>2. CASE cs[d] = NoCall
    BY <2>1, <2>2
  <2>3. CASE cs[d].at = calls[d].at
    <3>1. calls[d] = NoCall
      BY <2>1, <2>3 DEF FreeIsBlank, Open
    <3> QED
      BY <1>1, <1>3, <2>1, <3>1 DEF NoCall
  <2> QED
    BY <1>1, <2>2, <2>3
<1>9. SingleFlight'
  <2> SUFFICES ASSUME NEW d \in Calls, calls'[d].kind = "refresh",
                      calls'[d].tab # Gone
               PROVE  page'[calls'[d].tab].refreshing = d
    BY DEF SingleFlight
  <2>1. CASE d = f
    BY <1>4, <1>6, <2>1 DEF Made
  <2>2. CASE d # f
    <3>1. calls'[d] = calls[d] /\ calls[d].tab # t
      BY <1>1, <1>4, <2>2 DEF NoCall
    <3>2. calls[d].tab \in Tabs
      BY <1>5, <3>1 DEF CallRecord
    <3> QED
      BY <1>6, <3>1, <3>2 DEF SingleFlight
  <2> QED
    BY <2>1, <2>2
<1>10. RotatesACookie'
  <2> SUFFICES ASSUME NEW d \in Calls, calls'[d].at \in {"rotate", "insert"}
               PROVE  calls'[d].kind = "refresh" /\ calls'[d].cookie # 0
    BY DEF RotatesACookie
  <2>1. d # f /\ calls'[d] = cs[d]
    BY <1>4 DEF Made
  <2> QED
    BY <1>1, <2>1 DEF RotatesACookie, NoCall
<1>11. OneAtATime'
  <2> SUFFICES ASSUME ~trouble' PROVE OneAtATime'
    BY DEF OneAtATime
  <2>1. ~trouble /\ \A c \in Calls : ~Open(c)
    BY <1>2
  <2>2. Settled'
    BY <1>2, <2>1 DEF OneAtATime, Settled, OnlyLive, Family
  <2>3. \A d \in Calls : Open(d)' => d = f
    BY <1>1, <1>4, <2>1 DEF Open, NoCall
  <2>4. InFlight(f)'
    BY <1>2, <1>3, <1>4, <2>2 DEF InFlight, Made
  <2>5. Open(f)'
    BY <1>4 DEF Open, Made
  <2> QED
    BY <2>3, <2>4, <2>5 DEF OneAtATime
<1> QED
  BY <1>7, <1>8, <1>9, <1>10, <1>11

LEMMA SubmitLoginKeeps ==
  ASSUME SessionsInv, NEW t \in Tabs, SubmitLogin(t)
  PROVE  SessionsInv'
<1>1. TypedBrowser
  BY Typed DEF SessionsInv, TypedBrowser, SubmitLogin, Overlap
<1>2. /\ MakeCall(calls, t, "login", 0) /\ Overlap(t, "login")
      /\ \A c \in Calls : ~ (calls[c].tab = t /\ calls[c].kind = "login")
      /\ UNCHANGED <<sessions, jar, page>>
  BY DEF SubmitLogin, Pending
<1> QED
  BY <1>1, <1>2, CallJoins

LEMMA ClickLogoutKeeps ==
  ASSUME SessionsInv, NEW t \in Tabs, ClickLogout(t)
  PROVE  SessionsInv'
<1>1. TypedBrowser
  BY Typed, SessionsAssumption
     DEF SessionsInv, TypedBrowser, ClickLogout, Overlap, Happens
<1>2. /\ MakeCall(calls, t, "logout", 0) /\ Overlap(t, "logout")
      /\ \A c \in Calls : ~ (calls[c].tab = t /\ calls[c].kind = "logout")
      /\ UNCHANGED <<sessions, jar, page>>
  BY DEF ClickLogout, Pending
<1> QED
  BY <1>1, <1>2, CallJoins

LEMMA UnauthorizedKeeps ==
  ASSUME SessionsInv, NEW r \in Requests, Unauthorized(r)
  PROVE  SessionsInv'
<1> DEFINE t == TabOf[r]
<1>1. t \in Tabs
  BY SessionsAssumption
<1>2. /\ request' \in [Requests -> RequestRecord]
      /\ events' \in 0..MaxEvents /\ trouble' \in BOOLEAN
      /\ Remembers /\ UNCHANGED <<sessions, jar>>
  BY Typed DEF SessionsInv, Unauthorized, Overlap, RequestRecord, Remembers
<1>3. CASE page[t].refreshing # 0
  <2>1. UNCHANGED <<calls, page>>
    BY <1>3 DEF Unauthorized, JoinRefresh
  <2> QED
    BY <1>2, <2>1, Typed, CallsStay DEF SessionsInv, TypedBrowser
<1>4. CASE page[t].refreshing = 0
  <2>1. /\ MakeCall(calls, t, "refresh", jar.csrf) /\ Overlap(t, "refresh")
        /\ page' = [page EXCEPT ![t].refreshing = FreeCall(calls)]
    BY <1>4 DEF Unauthorized, JoinRefresh, StartRefresh
  <2>2. \A c \in Calls : ~ (calls[c].tab = t /\ calls[c].kind = "refresh")
    BY <1>1, <1>4, SessionsAssumption DEF SessionsInv, SingleFlight, Gone, Calls
  <2>3. FreeCall(calls) \in Calls
    BY <2>1 DEF MakeCall, FreeCall
  <2>4. /\ page' \in [Tabs -> PageRecord]
        /\ \A u \in Tabs : page'[u].refreshing =
             IF u = t THEN FreeCall(calls) ELSE page[u].refreshing
    <3> DEFINE p == [page[t] EXCEPT !.refreshing = FreeCall(calls)]
    <3>1. page[t] \in PageRecord /\ page \in [Tabs -> PageRecord]
      BY <1>1, Typed DEF SessionsInv
    <3>2. p \in PageRecord /\ p.refreshing = FreeCall(calls)
      BY <2>3, <3>1 DEF PageRecord
    <3>3. page' = [page EXCEPT ![t] = p]
      BY <2>1
    <3> HIDE DEF p
    <3> QED
      BY <1>1, <3>1, <3>2, <3>3
  <2> QED
    BY <1>1, <1>2, <2>1, <2>2, <2>4, CallJoins DEF TypedBrowser
<1> QED
  BY <1>3, <1>4

-----------------------------------------------------------------------------
(* The steps of the server.                                                *)

\* A call that has changed nothing yet, or was refused, leaves browser and
\* server as they were.
LEMMA StaysSettled ==
  ASSUME NEW c \in Calls, InFlight(c), Advances(c), Settled,
         UNCHANGED <<sessions, jar>>,
         calls'[c].at \in {"sent", "rotate", "refused", "cleared"},
         calls'[c].at = "refused" /\ calls[c].kind = "refresh" =>
           jar.refresh = 0 \/ sessions[jar.refresh].expired
  PROVE  InFlight(c)'
<1>1. Settled'
  BY DEF Settled, OnlyLive, Family
<1> QED
  BY <1>1 DEF InFlight, Advances

LEMMA LookupRefreshKeeps ==
  ASSUME SessionsInv, NEW c \in Calls, LookupRefresh(c)
  PROVE  SessionsInv'
<1> USE DEF SessionsInv
<1> DEFINE k == calls[c].cookie
<1>1. /\ calls[c].at = "sent" /\ calls[c].kind = "refresh" /\ Open(c)
      /\ UNCHANGED <<sessions, jar, page, request, events, trouble>>
  BY DEF LookupRefresh, notServer, Open
<1>2. TypedBrowser /\ Remembers
  BY <1>1, Typed DEF TypedBrowser, Remembers
<1>3. /\ Len(sessions) \in Nat /\ Len(sessions) <= Len(sessions)
      /\ 0 \in 0..Len(sessions)
      /\ k \in 0..Len(sessions)
      /\ sessions \in Seq(SessionRecord(Len(sessions)))
      /\ DOMAIN sessions = 1..Len(sessions)
  BY Typed DEF CallRecord
<1>4. ~trouble => /\ InFlight(c) /\ Settled
                  /\ k = jar.refresh
                  /\ k # 0 => ~sessions[k].revoked /\ CsrfOk(c)
  <2> SUFFICES ASSUME ~trouble
               PROVE  /\ InFlight(c) /\ Settled
                      /\ k = jar.refresh
                      /\ k # 0 => ~sessions[k].revoked /\ CsrfOk(c)
    OBVIOUS
  <2>1. InFlight(c) /\ Settled /\ k = jar.refresh
    BY <1>1 DEF OneAtATime, InFlight
  <2>2. k # 0 => ~sessions[k].revoked
    BY <1>3, <2>1 DEF Settled, OnlyLive
  <2>3. k # 0 => CsrfOk(c)
    BY <1>1, <2>1 DEF InFlight, Settled, CsrfOk
  <2> QED
    BY <2>1, <2>2, <2>3
<1>5. CASE Answer(c, "refused", 0) /\ (k = 0 \/ sessions[k].expired \/ ~CsrfOk(c))
  <2>1. /\ calls' \in [Calls -> CallRecord(Len(sessions))]
        /\ Advances(c)
        /\ IF calls[c].tab = Gone THEN calls'[c] = NoCall ELSE calls'[c].at = "refused"
    BY <1>3, <1>5, Answering DEF Answered
  <2>2. calls'[c].at \notin {"rotate", "insert"}
    BY <2>1 DEF NoCall
  <2>3. ~trouble => InFlight(c)'
    <3> SUFFICES ASSUME ~trouble PROVE InFlight(c)'
      OBVIOUS
    <3>1. calls'[c].at = "refused"
      BY <1>4, <2>1 DEF InFlight
    <3> QED
      BY <1>1, <1>4, <1>5, <2>1, <3>1, StaysSettled
  <2> QED
    BY <1>1, <1>2, <1>3, <2>1, <2>2, <2>3, CallAdvances
<1>6. CASE k # 0 /\ sessions[k].revoked /\ To(c, "reuse")
  <2>1. /\ calls' \in [Calls -> CallRecord(Len(sessions))]
        /\ Advances(c) /\ calls'[c].at = "reuse"
    BY <1>6, Placed DEF Places
  <2>2. trouble
    BY <1>4, <1>6, Typed
  <2> QED
    BY <1>1, <1>2, <1>3, <2>1, <2>2, CallAdvances
<1>7. CASE Live(k) /\ To(c, "rotate")
  <2>1. /\ calls' \in [Calls -> CallRecord(Len(sessions))]
        /\ Advances(c) /\ calls'[c].at = "rotate"
    BY <1>7, Placed DEF Places
  <2>2. ~trouble => InFlight(c)'
    BY <1>1, <1>4, <2>1, StaysSettled
  <2> QED
    BY <1>1, <1>2, <1>3, <1>7, <2>1, <2>2, CallAdvances DEF Live
<1> QED
  BY <1>5, <1>6, <1>7 DEF LookupRefresh

LEMMA LookupLogoutKeeps ==
  ASSUME SessionsInv, NEW c \in Calls, LookupLogout(c)
  PROVE  SessionsInv'
<1> USE DEF SessionsInv
<1> DEFINE k == calls[c].cookie
<1>1. /\ calls[c].at = "sent" /\ calls[c].kind = "logout" /\ Open(c)
      /\ UNCHANGED <<sessions, jar, page, request, events, trouble>>
  BY DEF LookupLogout, notServer, Open
<1>2. TypedBrowser /\ Remembers
  BY <1>1, Typed DEF TypedBrowser, Remembers
<1>3. /\ Len(sessions) \in Nat /\ Len(sessions) <= Len(sessions)
      /\ 0 \in 0..Len(sessions)
      /\ sessions \in Seq(SessionRecord(Len(sessions)))
  BY Typed
<1>4. ~trouble => InFlight(c) /\ Settled /\ ~CsrfOk(c)
  BY <1>1 DEF OneAtATime, InFlight, CsrfOk
<1>5. ASSUME NEW place \in {"cleared", "refused"}, Answer(c, place, 0)
      PROVE  SessionsInv'
  <2>1. /\ calls' \in [Calls -> CallRecord(Len(sessions))]
        /\ Advances(c)
        /\ IF calls[c].tab = Gone THEN calls'[c] = NoCall ELSE calls'[c].at = place
    BY <1>3, <1>5, Answering DEF Answered
  <2>2. calls'[c].at \notin {"rotate", "insert"}
    BY <2>1 DEF NoCall
  <2>3. ~trouble => InFlight(c)'
    <3> SUFFICES ASSUME ~trouble PROVE InFlight(c)'
      OBVIOUS
    <3>1. calls'[c].at = place
      BY <1>4, <2>1 DEF InFlight
    <3> QED
      BY <1>1, <1>4, <2>1, <3>1, StaysSettled
  <2> QED
    BY <1>1, <1>2, <1>3, <2>1, <2>2, <2>3, CallAdvances
<1>6. CASE CsrfOk(c) /\ To(c, "revoke")
  <2>1. /\ calls' \in [Calls -> CallRecord(Len(sessions))]
        /\ Advances(c) /\ calls'[c].at = "revoke"
    BY <1>6, Placed DEF Places
  <2>2. trouble
    BY <1>4, <1>6, Typed
  <2> QED
    BY <1>1, <1>2, <1>3, <2>1, <2>2, CallAdvances
<1> QED
  BY <1>5, <1>6 DEF LookupLogout

LEMMA RefuseLoginKeeps ==
  ASSUME SessionsInv, NEW c \in Calls, RefuseLogin(c)
  PROVE  SessionsInv'
<1> USE DEF SessionsInv
<1>1. /\ calls[c].at = "sent" /\ calls[c].kind = "login" /\ Open(c)
      /\ Answer(c, "refused", 0)
      /\ UNCHANGED <<sessions, jar, page, request, events, trouble>>
  BY DEF RefuseLogin, notServer, Open
<1>2. TypedBrowser /\ Remembers
  BY <1>1, Typed DEF TypedBrowser, Remembers
<1>3. /\ Len(sessions) \in Nat /\ Len(sessions) <= Len(sessions)
      /\ 0 \in 0..Len(sessions)
      /\ sessions \in Seq(SessionRecord(Len(sessions)))
  BY Typed
<1>4. /\ calls' \in [Calls -> CallRecord(Len(sessions))]
      /\ Advances(c)
      /\ IF calls[c].tab = Gone THEN calls'[c] = NoCall ELSE calls'[c].at = "refused"
  BY <1>1, <1>3, Answering DEF Answered
<1>5. calls'[c].at \notin {"rotate", "insert"}
  BY <1>4 DEF NoCall
<1>6. ~trouble => InFlight(c)'
  <2> SUFFICES ASSUME ~trouble PROVE InFlight(c)'
    OBVIOUS
  <2>1. InFlight(c) /\ Settled /\ calls'[c].at = "refused"
    BY <1>1, <1>4 DEF OneAtATime, InFlight
  <2> QED
    BY <1>1, <1>4, <2>1, StaysSettled
<1> QED
  BY <1>1, <1>2, <1>3, <1>4, <1>5, <1>6, CallAdvances

LEMMA RevokeFamilyKeeps ==
  ASSUME SessionsInv, NEW c \in Calls, RevokeFamily(c)
  PROVE  SessionsInv'
<1> USE DEF SessionsInv
<1>1. /\ calls[c].at \in {"reuse", "revoke"} /\ Open(c)
      /\ UNCHANGED <<jar, page, request, events, trouble>>
  BY DEF RevokeFamily, notServer, Open
<1>2. trouble /\ trouble'
  BY <1>1, Typed DEF OneAtATime, InFlight
<1>3. TypedBrowser /\ Remembers
  BY <1>1, Typed DEF TypedBrowser, Remembers
<1>4. /\ sessions' \in Seq(SessionRecord(Len(sessions)))
      /\ Len(sessions') = Len(sessions) /\ Len(sessions) \in Nat
  <2>1. sessions' \in [1..Len(sessions) -> SessionRecord(Len(sessions))]
    BY Typed DEF RevokeFamily, SessionRecord
  <2>2. sessions' \in Seq(SessionRecord(Len(sessions)))
    BY <2>1, Typed, SeqDef
  <2> QED
    BY <2>1, <2>2, Typed, LenProperties
<1>5. PICK place \in {"refused", "cleared"} : Answer(c, place, 0)
  BY <1>1 DEF RevokeFamily
<1>6. calls' \in [Calls -> CallRecord(Len(sessions))] /\ Advances(c)
      /\ (IF calls[c].tab = Gone THEN calls'[c] = NoCall ELSE calls'[c].at = place)
  BY <1>4, <1>5, Answering DEF Answered
<1>7. calls'[c].at \notin {"rotate", "insert"}
  BY <1>6 DEF NoCall
<1> QED
  BY <1>1, <1>2, <1>3, <1>4, <1>6, <1>7, CallAdvances

LEMMA RevokeTokenKeeps ==
  ASSUME SessionsInv, NEW c \in Calls, RevokeToken(c)
  PROVE  SessionsInv'
<1> USE DEF SessionsInv
<1> DEFINE k == calls[c].cookie
<1>1. /\ calls[c].at = "rotate" /\ Open(c) /\ To(c, "insert")
      /\ calls[c].kind = "refresh" /\ k # 0
      /\ sessions' = [sessions EXCEPT ![k].revoked = TRUE]
      /\ UNCHANGED <<jar, page, request, events, trouble>>
  BY DEF RevokeToken, notServer, Open, RotatesACookie
<1>2. TypedBrowser /\ Remembers
  BY <1>1, Typed DEF TypedBrowser, Remembers
<1>3. /\ k \in 1..Len(sessions) /\ Len(sessions) \in Nat
      /\ sessions[k] \in SessionRecord(Len(sessions))
      /\ DOMAIN sessions = 1..Len(sessions)
  BY <1>1, Typed DEF CallRecord
<1>4. /\ sessions' \in Seq(SessionRecord(Len(sessions)))
      /\ Len(sessions') = Len(sessions)
      /\ DOMAIN sessions' = DOMAIN sessions
      /\ sessions'[k].revoked
      /\ \A j \in DOMAIN sessions :
           /\ sessions'[j].family = sessions[j].family
           /\ j # k => sessions'[j].revoked = sessions[j].revoked
  <2>1. [sessions[k] EXCEPT !.revoked = TRUE] \in SessionRecord(Len(sessions))
    BY <1>3 DEF SessionRecord
  <2>2. sessions' = [sessions EXCEPT ![k] = [sessions[k] EXCEPT !.revoked = TRUE]]
    BY <1>1
  <2>3. /\ sessions' \in Seq(SessionRecord(Len(sessions)))
        /\ Len(sessions') = Len(sessions)
    BY <1>3, <2>1, <2>2, Typed, ExceptSeq
  <2>4. DOMAIN sessions' = DOMAIN sessions
    BY <2>2
  <2>5. sessions'[k] = [sessions[k] EXCEPT !.revoked = TRUE]
    BY <1>3, <2>2
  <2>6. \A j \in DOMAIN sessions : j # k => sessions'[j] = sessions[j]
    BY <2>2
  <2>7. sessions'[k].revoked /\ sessions'[k].family = sessions[k].family
    BY <1>3, <2>5 DEF SessionRecord
  <2> QED
    BY <2>3, <2>4, <2>6, <2>7
<1>5. /\ calls' \in [Calls -> CallRecord(Len(sessions))]
      /\ Advances(c) /\ calls'[c].at = "insert"
  BY <1>1, Placed DEF Places
<1>6. ~trouble => InFlight(c)'
  <2> SUFFICES ASSUME ~trouble PROVE InFlight(c)'
    OBVIOUS
  <2>1. InFlight(c) /\ Settled /\ k = jar.refresh
    BY <1>1 DEF OneAtATime, InFlight
  <2>2. OnlyLive(k)
    BY <1>1, <2>1 DEF Settled
  <2>3. NoneLive(jar.refresh)'
    BY <1>1, <1>3, <1>4, <2>1, <2>2, Typed DEF NoneLive, OnlyLive, Family, SessionRecord
  <2> QED
    BY <1>1, <1>5, <2>1, <2>3 DEF InFlight, Advances
<1>7. /\ sessions' \in Seq(SessionRecord(Len(sessions')))
      /\ Len(sessions) <= Len(sessions')
      /\ calls' \in [Calls -> CallRecord(Len(sessions'))]
  BY <1>3, <1>4, <1>5
<1> QED
  BY <1>1, <1>2, <1>5, <1>6, <1>7, CallAdvances

LEMMA InsertSessionKeeps ==
  ASSUME SessionsInv, NEW c \in Calls, InsertSession(c)
  PROVE  SessionsInv'
<1> USE DEF SessionsInv
<1> DEFINE n == Len(sessions) + 1
           new == [family |-> FamilyFor(c), revoked |-> FALSE, expired |-> FALSE]
<1>1. /\ \/ calls[c].at = "insert" /\ calls[c].kind = "refresh"
         \/ calls[c].at = "sent" /\ calls[c].kind = "login"
      /\ Open(c) /\ Answer(c, "done", n)
      /\ sessions' = Append(sessions, new)
      /\ UNCHANGED <<jar, page, request, events, trouble>>
  BY DEF InsertSession, notServer, Open, RotatesACookie
<1>2. TypedBrowser /\ Remembers
  BY <1>1, Typed DEF TypedBrowser, Remembers
<1>3. /\ Len(sessions) \in Nat /\ n \in Nat /\ Len(sessions) <= n /\ n \in 0..n
      /\ DOMAIN sessions = 1..Len(sessions)
      /\ calls[c].cookie \in 0..Len(sessions)
      /\ \A j \in 1..Len(sessions) : sessions[j].family \in 1..Len(sessions)
  <2>1. \A j \in 1..Len(sessions) : sessions[j] \in SessionRecord(Len(sessions))
    BY Typed
  <2>2. \A j \in 1..Len(sessions) : sessions[j].family \in 1..Len(sessions)
    BY <2>1 DEF SessionRecord
  <2>3. calls[c].cookie \in 0..Len(sessions)
    BY Typed DEF CallRecord
  <2> QED
    BY <2>2, <2>3, Typed
<1>4. /\ calls[c].kind = "login" => FamilyFor(c) = n
      /\ calls[c].kind = "refresh" =>
           FamilyFor(c) = sessions[calls[c].cookie].family
      /\ FamilyFor(c) \in 1..n
  BY <1>1, <1>3 DEF FamilyFor, Family, RotatesACookie
<1>5. /\ sessions' \in Seq(SessionRecord(n)) /\ Len(sessions') = n
      /\ DOMAIN sessions' = 1..n
      /\ sessions'[n] = new
      /\ \A j \in 1..Len(sessions) : sessions'[j] = sessions[j]
  <2>1. new \in SessionRecord(n)
    BY <1>4 DEF SessionRecord
  <2>2. SessionRecord(Len(sessions)) \subseteq SessionRecord(n)
    BY <1>3 DEF SessionRecord
  <2>3. sessions \in Seq(SessionRecord(n))
    BY <2>2, Typed, SeqMonotonic
  <2> QED
    BY <1>1, <2>1, <2>3, AppendProperties, LenProperties
<1>6. /\ calls' \in [Calls -> CallRecord(n)]
      /\ Advances(c)
      /\ IF calls[c].tab = Gone THEN calls'[c] = NoCall
         ELSE calls'[c].at = "done" /\ calls'[c].token = n
  BY <1>1, <1>3, Answering DEF Answered
<1>7. calls'[c].at \notin {"rotate", "insert"}
  BY <1>6 DEF NoCall
<1>8. ~trouble => InFlight(c)'
  <2> SUFFICES ASSUME ~trouble PROVE InFlight(c)'
    OBVIOUS
  <2>1. InFlight(c)
    BY <1>1 DEF OneAtATime
  <2>2. calls'[c].at = "done" /\ calls'[c].token = n /\ n # 0
    BY <1>3, <1>6, <2>1 DEF InFlight
  <2>3. SUFFICES OnlyLive(calls[c].token)'
    BY <1>1, <1>6, <2>1, <2>2 DEF InFlight, Advances
  <2>4. SUFFICES ASSUME NEW j \in 1..n, sessions'[j].family = new.family
                 PROVE  j = n <=> ~sessions'[j].revoked
    BY <1>5, <2>2 DEF OnlyLive, Family
  <2>5. CASE j = n
    BY <1>5, <2>5
  <2>6. CASE j # n
    <3>1. /\ j \in 1..Len(sessions) /\ sessions'[j] = sessions[j]
          /\ sessions[j].family = FamilyFor(c)
      BY <1>3, <1>5, <2>4, <2>6
    <3>2. calls[c].kind # "login"
      BY <1>3, <1>4, <3>1
    <3>3. NoneLive(jar.refresh) /\ calls[c].cookie = jar.refresh
      BY <1>1, <2>1, <3>2 DEF InFlight
    <3>4. sessions[j].revoked
      BY <1>1, <1>3, <1>4, <3>1, <3>2, <3>3 DEF NoneLive, Family
    <3> QED
      BY <2>6, <3>1, <3>4
  <2> QED
    BY <2>5, <2>6
<1> QED
  BY <1>1, <1>2, <1>3, <1>5, <1>6, <1>7, <1>8, CallAdvances

LEMMA LoseAnswerKeeps ==
  ASSUME SessionsInv, NEW c \in Calls, LoseAnswer(c)
  PROVE  SessionsInv'
<1> USE DEF SessionsInv
<1>1. /\ Open(c) /\ To(c, "lost") /\ trouble' = TRUE
      /\ UNCHANGED <<sessions, jar, page, request>>
  BY DEF LoseAnswer, Open
<1>2. TypedBrowser /\ Remembers
  BY <1>1, Typed, SessionsAssumption
     DEF TypedBrowser, Remembers, LoseAnswer, Happens
<1>3. /\ calls' \in [Calls -> CallRecord(Len(sessions))]
      /\ Advances(c) /\ calls'[c].at = "lost"
  BY <1>1, Placed DEF Places, Answered
<1>4. /\ Len(sessions) \in Nat /\ Len(sessions) <= Len(sessions)
      /\ sessions \in Seq(SessionRecord(Len(sessions)))
  BY Typed
<1> QED
  BY <1>1, <1>2, <1>3, <1>4, CallAdvances

-----------------------------------------------------------------------------
(* Answers, requests and expiries.                                         *)

LEMMA HearKeeps ==
  ASSUME SessionsInv, NEW c \in Calls, Hear(c)
  PROVE  SessionsInv'
<1> USE DEF SessionsInv
<1> DEFINE t == calls[c].tab
<1>1. t # Gone => t \in Tabs
  BY Typed DEF CallRecord
<1>2. ASSUME NEW q \in RequestRecord
      PROVE  Released(t, q) \in [Requests -> RequestRecord]
  BY Typed DEF Released
<1>3. NoRequest \in RequestRecord /\ Resent \in RequestRecord
  BY DEF NoRequest, Resent, RequestRecord
<1>4. ASSUME NEW kind \in CallKinds, Heard(c, kind)
      PROVE  /\ t \in Tabs /\ events' \in 0..MaxEvents /\ trouble' \in BOOLEAN
             /\ page \in [Tabs -> PageRecord]
             /\ request \in [Requests -> RequestRecord]
  BY <1>1, <1>4, Typed DEF Heard
<1>5. CASE HearRefreshed(c) \/ HearRefused(c)
  <2>1. Heard(c, "refresh") /\ "refresh" \in CallKinds
    BY <1>5 DEF HearRefreshed, HearRefused, CallKinds
  <2>2. PICK p \in PageRecord : page' = [page EXCEPT ![t] = p]
    <3>1. page[t] \in PageRecord
      BY <1>4, <2>1
    <3>2. /\ [status |-> IF page[t].status = "loading" THEN "authenticated"
                         ELSE page[t].status,
              access |-> "fresh", refreshing |-> 0] \in PageRecord
          /\ [status |-> "anonymous", access |-> "none", refreshing |-> 0]
               \in PageRecord
      BY <3>1 DEF PageRecord
    <3> QED
      BY <1>5, <3>2 DEF HearRefreshed, HearRefused
  <2>3. request' \in [Requests -> RequestRecord]
    BY <1>2, <1>3, <1>5 DEF HearRefreshed, HearRefused
  <2>4. TypedBrowser
    BY <1>4, <2>1, <2>2, <2>3 DEF TypedBrowser
  <2>5. \A u \in Tabs : u = t \/ page'[u].refreshing = page[u].refreshing
    BY <1>4, <2>1, <2>2
  <2> QED
    BY <2>1, <2>4, <2>5, HeardKeeps
<1>6. CASE HearLogin(c) \/ HearLogout(c)
  <2>1. PICK kind \in {"login", "logout"} : Heard(c, kind)
    BY <1>6 DEF HearLogin, HearLogout
  <2>2. kind \in CallKinds
    BY DEF CallKinds
  <2>3. PICK p \in PageRecord : /\ page' = [page EXCEPT ![t] = p]
                                /\ p.refreshing = page[t].refreshing
    <3>1. page[t] \in PageRecord /\ page = [page EXCEPT ![t] = page[t]]
      BY <1>4, <2>1, <2>2
    <3>2. ASSUME NEW s \in {"authenticated", "anonymous"},
                 NEW a \in {"none", "fresh"}
          PROVE  /\ [page[t] EXCEPT !.status = s, !.access = a] \in PageRecord
                 /\ [page[t] EXCEPT !.status = s, !.access = a].refreshing =
                      page[t].refreshing
      BY <3>1 DEF PageRecord
    <3>3. \/ page' = page
          \/ \E s \in {"authenticated", "anonymous"}, a \in {"none", "fresh"} :
               page' = [page EXCEPT ![t] =
                          [page[t] EXCEPT !.status = s, !.access = a]]
      <4>1. CASE HearLogin(c) /\ calls[c].at = "done"
        <5>1. page' = [page EXCEPT ![t] = [page[t] EXCEPT
                         !.status = "authenticated", !.access = "fresh"]]
          BY <1>4, <2>1, <2>2, <3>1, <4>1 DEF HearLogin
        <5> QED
          BY <5>1
      <4>2. CASE HearLogin(c) /\ calls[c].at # "done"
        BY <4>2 DEF HearLogin
      <4>3. CASE HearLogout(c)
        <5>1. page' = [page EXCEPT ![t] = [page[t] EXCEPT
                         !.status = "anonymous", !.access = "none"]]
          BY <1>4, <2>1, <2>2, <3>1, <4>3 DEF HearLogout
        <5> QED
          BY <5>1
      <4> QED
        BY <1>6, <4>1, <4>2, <4>3
    <3> QED
      BY <3>1, <3>2, <3>3
  <2>4. request' = request
    BY <1>6 DEF HearLogin, HearLogout
  <2>5. TypedBrowser
    BY <1>4, <2>1, <2>2, <2>3, <2>4 DEF TypedBrowser
  <2>6. \A u \in Tabs : page'[u].refreshing = page[u].refreshing
    BY <1>4, <2>1, <2>2, <2>3
  <2> QED
    BY <2>1, <2>2, <2>5, <2>6, HeardKeeps
<1> QED
  BY <1>5, <1>6 DEF Hear

LEMMA DataRequestKeeps ==
  ASSUME SessionsInv, NEW r \in Requests, SendRequest(r) \/ AnswerRequest(r)
  PROVE  SessionsInv'
<1> USE DEF SessionsInv
<1>1. UNCHANGED <<sessions, jar, page, calls, events, trouble>>
  BY DEF SendRequest, AnswerRequest
<1>2. request' \in [Requests -> RequestRecord]
  <2>1. page[TabOf[r]].access \in {"none", "fresh", "expired"}
    BY Typed, SessionsAssumption DEF PageRecord
  <2>2. NoRequest \in RequestRecord
    BY DEF NoRequest, RequestRecord
  <2>3. [at |-> "sent", carries |-> page[TabOf[r]].access, retried |-> FALSE]
          \in RequestRecord
    BY <2>1 DEF RequestRecord
  <2> QED
    BY <2>2, <2>3, Typed DEF SendRequest, AnswerRequest
<1>3. TypedBrowser /\ Remembers
  BY <1>1, <1>2, Typed DEF TypedBrowser, Remembers
<1> QED
  BY <1>1, <1>3, Typed, CallsStay

LEMMA AccessExpiresKeeps ==
  ASSUME SessionsInv, NEW t \in Tabs, AccessExpires(t)
  PROVE  SessionsInv'
<1> USE DEF SessionsInv
<1>1. UNCHANGED <<sessions, jar, calls, trouble>> /\ events' \in 0..MaxEvents
  BY Typed, SessionsAssumption DEF AccessExpires, Happens
<1>2. request' \in [Requests -> RequestRecord]
  <2>1. \A r \in Requests :
          [request[r] EXCEPT !.carries = "expired"] \in RequestRecord
    BY Typed DEF RequestRecord
  <2> QED
    BY <2>1, Typed DEF AccessExpires
<1>3. /\ page' \in [Tabs -> PageRecord]
      /\ \A u \in Tabs : page'[u].refreshing = page[u].refreshing
  BY Typed DEF AccessExpires, PageRecord
<1>4. TypedBrowser /\ Remembers
  BY <1>1, <1>2, <1>3, Typed DEF TypedBrowser, Remembers
<1> QED
  BY <1>1, <1>3, <1>4, Typed, CallsStay

LEMMA SessionExpiresKeeps ==
  ASSUME SessionsInv, SessionExpires
  PROVE  SessionsInv'
<1> USE DEF SessionsInv
<1> DEFINE k == jar.refresh
<1>1. /\ UNCHANGED <<jar, page, request, calls, trouble>>
      /\ events' \in 0..MaxEvents
      /\ k \in 1..Len(sessions)
      /\ sessions' = [sessions EXCEPT ![k].expired = TRUE]
  BY Typed, SessionsAssumption DEF SessionExpires, Happens, Live
<1>2. sessions[k] \in SessionRecord(Len(sessions))
  BY <1>1, Typed
<1>3. [sessions[k] EXCEPT !.expired = TRUE] \in SessionRecord(Len(sessions))
  BY <1>2 DEF SessionRecord
<1>4. sessions' = [sessions EXCEPT ![k] = [sessions[k] EXCEPT !.expired = TRUE]]
  BY <1>1
<1>5. /\ sessions' \in Seq(SessionRecord(Len(sessions)))
      /\ Len(sessions') = Len(sessions)
  BY <1>1, <1>3, <1>4, Typed, ExceptSeq
<1>6. sessions'[k] = [sessions[k] EXCEPT !.expired = TRUE]
  BY <1>1, <1>4, Typed
<1>7. \A j \in DOMAIN sessions : j # k => sessions'[j] = sessions[j]
  BY <1>4
<1>8. /\ sessions'[k].family = sessions[k].family
      /\ sessions'[k].revoked = sessions[k].revoked
      /\ sessions'[k].expired
  BY <1>2, <1>6 DEF SessionRecord
<1>9. TypedBrowser /\ Remembers
  BY <1>1, Typed DEF TypedBrowser, Remembers
<1> QED
  BY <1>1, <1>5, <1>7, <1>8, <1>9, CallsStay

LEMMA SessionsStep == SessionsInv /\ [Next]_vars => SessionsInv'
<1> SUFFICES ASSUME SessionsInv, [Next]_vars PROVE SessionsInv'
  OBVIOUS
<1>1. CASE UNCHANGED vars
  <2>1. /\ UNCHANGED <<sessions, jar, page, request, calls, events, trouble>>
        /\ TypedBrowser /\ Remembers
    BY <1>1, Typed DEF vars, TypedBrowser, Remembers, SessionsInv
  <2> QED
    BY <2>1, Typed, CallsStay DEF SessionsInv
<1>2. ASSUME NEW t \in Tabs, \/ OpenPage(t) \/ Reload(t) \/ SubmitLogin(t)
                              \/ ClickLogout(t) \/ AccessExpires(t)
      PROVE  SessionsInv'
  BY <1>2, LoadPageKeeps, SubmitLoginKeeps, ClickLogoutKeeps,
     AccessExpiresKeeps DEF OpenPage, Reload
<1>3. ASSUME NEW r \in Requests,
             SendRequest(r) \/ AnswerRequest(r) \/ Unauthorized(r)
      PROVE  SessionsInv'
  BY <1>3, DataRequestKeeps, UnauthorizedKeeps
<1>4. ASSUME NEW c \in Calls, ServerStep(c) PROVE SessionsInv'
  BY <1>4, LookupRefreshKeeps, LookupLogoutKeeps, RefuseLoginKeeps,
     RevokeFamilyKeeps, RevokeTokenKeeps, InsertSessionKeeps DEF ServerStep
<1>5. ASSUME NEW c \in Calls, Hear(c) \/ LoseAnswer(c) PROVE SessionsInv'
  BY <1>5, HearKeeps, LoseAnswerKeeps
<1> QED
  BY <1>1, <1>2, <1>3, <1>4, <1>5, SessionExpiresKeeps DEF Next, CallStep

\* The inductive invariant.
THEOREM SessionsInvariant == Spec => []SessionsInv
<1> QED
  BY SessionsInit, SessionsStep, PTL DEF Spec

\* Every token, cookie and call is what the code's records say it is, however
\* many there are.
THEOREM SessionsTypes == Spec => []TypeOK
<1>1. SessionsInv => TypeOK
  BY DEF SessionsInv
<1> QED
  BY <1>1, SessionsInvariant, PTL

\* Rotation is invisible: without lost answers and overlapping calls a refresh
\* is neither taken for a reuse nor refused before the token's end, however
\* many requests of a page are answered 401 together.
THEOREM RefreshAlwaysSucceeds == Spec => []RefreshSucceeds
<1>1. SessionsInv => RefreshSucceeds
  BY DEF SessionsInv, OneAtATime, InFlight, Open, RefreshSucceeds
<1> QED
  BY <1>1, SessionsInvariant, PTL

\* And between calls the browser's cookie is the only live token of its family,
\* with its CSRF token beside it.
THEOREM JarAlwaysHoldsTheSession == Spec => []JarHoldsTheSession
<1>1. ASSUME SessionsInv, ~trouble, jar.refresh # 0, \A c \in Calls : ~Open(c)
      PROVE  /\ LiveOf(Family(jar.refresh)) = {jar.refresh}
             /\ jar.csrf = jar.refresh
  <2>1. OnlyLive(jar.refresh) /\ jar.csrf = jar.refresh
    BY <1>1 DEF SessionsInv, OneAtATime, Settled
  <2>2. jar.refresh \in DOMAIN sessions
    BY <1>1, Typed DEF SessionsInv
  <2> QED
    BY <2>1, <2>2 DEF OnlyLive, LiveOf
<1>2. SessionsInv => JarHoldsTheSession
  BY <1>1 DEF JarHoldsTheSession
<1> QED
  BY <1>2, SessionsInvariant, PTL

=============================================================================
