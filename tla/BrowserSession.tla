---------------------------- MODULE BrowserSession ----------------------------
(***************************************************************************)
(* The cookie session of the single-page application: tabs that share one   *)
(* cookie jar and each keep a CSRF token in memory (auth.ts, api.ts,         *)
(* App.tsx), against the handlers that plant the cookies and the middleware  *)
(* that compares header and cookie (security_csrf.py, api/auth.py).          *)
(*                                                                         *)
(* A call is sent with the cookies and the header of that moment, served,   *)
(* its Set-Cookie headers are applied when its answer arrives, and the       *)
(* script of the tab goes on later.  A token is the number of its answer:    *)
(* a login issues a session and a CSRF token, /auth/csrf a CSRF token.       *)
(***************************************************************************)
EXTENDS Naturals

CONSTANTS
    Tabs,
    Calls,     \* requests that can be in flight at once
    MaxIssued  \* bound: answers that issue a token

Tokens == 1..MaxIssued
NoToken == 0

ASSUME SessionAssumption == MaxIssued \in Nat

VARIABLES
    jar,     \* the cookies waf_session and waf_csrf
    expired, \* sessions whose JWT no longer verifies
    issued,  \* the last token issued
    owner,   \* history: the tab a token was issued to
    under,   \* history: the session a token was issued under
    page,    \* of each tab: "closed", "boot", or "ready"
    authed,  \* of each tab: its mirror of being logged in
    store,   \* of each tab: its CSRF token
    call     \* of each call: what it carries

sessionVars == <<jar, expired, issued, owner, under, page, authed, store, call>>
server == <<expired, issued, owner, under>>
script == <<page, authed, store>>

Pair(session, csrf) == [session |-> session, csrf |-> csrf]
Clear == Pair(NoToken, NoToken)
Keep == [keep |-> TRUE]   \* an answer without Set-Cookie

NoCall == [at |-> "free"]
Ops == {"me", "csrf", "login", "logout", "query", "mutate"}

SessionInit ==
    /\ jar = Clear
    /\ expired = {}
    /\ issued = 0
    /\ owner = [n \in Tokens |-> NoToken]
    /\ under = [n \in Tokens |-> NoToken]
    /\ page = [t \in Tabs |-> "closed"]
    /\ authed = [t \in Tabs |-> FALSE]
    /\ store = [t \in Tabs |-> NoToken]
    /\ call = [c \in Calls |-> NoCall]

-----------------------------------------------------------------------------
(* The tab *)

Put(c, state) == call' = [call EXCEPT ![c] = state]

SentBy(t, c) == call[c].at # "free" /\ call[c].tab = t

\* fetch with credentials: 'include' and, for the mutating verbs, the X-CSRF-Token
\* of the store.  Only what the server will look at is kept.
Sent(t, op) ==
    [at |-> "sent", tab |-> t, op |-> op,
     session |-> IF op \in {"login", "logout"} THEN NoToken ELSE jar.session,
     cookie |-> IF op = "mutate" THEN jar.csrf ELSE NoToken,
     header |-> IF op = "mutate" THEN store[t] ELSE NoToken]

\* useBootstrapSession of a page that is opened or reloaded, whose old calls are
\* cut off.
Boot(t, c) ==
    /\ call[c].at = "free" \/ SentBy(t, c)
    /\ page' = [page EXCEPT ![t] = "boot"]
    /\ authed' = [authed EXCEPT ![t] = FALSE]
    /\ store' = [store EXCEPT ![t] = NoToken]
    /\ call' = [d \in Calls |->
                 IF d = c THEN Sent(t, "me")
                 ELSE IF SentBy(t, d) THEN NoCall
                 ELSE call[d]]
    /\ UNCHANGED <<jar, server>>

\* What the pages send: logging in once at a time while the tab is not logged
\* in, anything else while it is.
Send(t, c, op) ==
    /\ page[t] = "ready"
    /\ call[c].at = "free"
    /\ IF op = "login"
       THEN /\ ~authed[t]
            /\ \A d \in Calls : SentBy(t, d) => call[d].op # "login"
       ELSE op \in {"logout", "query", "mutate"} /\ authed[t]
    /\ Put(c, Sent(t, op))
    /\ UNCHANGED <<jar, server, script>>

-----------------------------------------------------------------------------
(* The server *)

Verifies(session) == session # NoToken /\ session \notin expired

\* CsrfMiddleware, for the mutating calls that are not exempt: no session cookie,
\* no check.
Refuses(r) ==
    /\ r.session # NoToken
    /\ r.cookie = NoToken \/ r.header = NoToken \/ r.cookie # r.header

\* The middleware and current_user.
Status(r) ==
    IF r.op = "logout" THEN 200
    ELSE IF r.op = "mutate" /\ Refuses(r) THEN 403
    ELSE IF Verifies(r.session) THEN 200 ELSE 401

Answer(c, status, cookies, token) ==
    Put(c, [at |-> "served", tab |-> call[c].tab, op |-> call[c].op,
            status |-> status,
            session |-> IF call[c].op = "mutate" THEN call[c].session ELSE NoToken,
            cookie |-> call[c].cookie, header |-> call[c].header,
            cookies |-> cookies, token |-> token])


\* A token is issued to the tab of c, under session s.
Issue(c, s) ==
    /\ issued < MaxIssued
    /\ issued' = issued + 1
    /\ owner' = [owner EXCEPT ![issued'] = call[c].tab]
    /\ under' = [under EXCEPT ![issued'] = s]
    /\ UNCHANGED expired

\* login: right or wrong credentials.
ServeLogin(c, right) ==
    /\ call[c].at = "sent" /\ call[c].op = "login"
    /\ IF right
       THEN /\ Issue(c, issued + 1)
            /\ Answer(c, 200, Pair(issued + 1, issued + 1), issued + 1)
       ELSE Answer(c, 401, Keep, NoToken) /\ UNCHANGED server
    /\ UNCHANGED <<jar, script>>

\* Mutated form of the step below: set_session_cookies is called without
\* csrf_token and plants a token of its own.
ServeCsrfOther(c) ==
    /\ call[c].at = "sent" /\ call[c].op = "csrf"
    /\ IF Verifies(call[c].session)
       THEN /\ issued + 2 <= MaxIssued
            /\ issued' = issued + 2
            /\ owner' = [owner EXCEPT ![issued + 1] = call[c].tab,
                                      ![issued + 2] = call[c].tab]
            /\ under' = [under EXCEPT ![issued + 1] = call[c].session,
                                      ![issued + 2] = call[c].session]
            /\ Answer(c, 200, Pair(call[c].session, issued + 1),
                      issued + 2)
            /\ UNCHANGED expired
       ELSE Answer(c, 401, Keep, NoToken) /\ UNCHANGED server
    /\ UNCHANGED <<jar, script>>

\* csrf: a fresh token, planted with the session the call came with.
ServeCsrf(c) ==
    /\ call[c].at = "sent" /\ call[c].op = "csrf"
    /\ IF Verifies(call[c].session)
       THEN /\ Issue(c, call[c].session)
            /\ Answer(c, 200, Pair(call[c].session, issued + 1), issued + 1)
       ELSE Answer(c, 401, Keep, NoToken) /\ UNCHANGED server
    /\ UNCHANGED <<jar, script>>

\* Everything else; logout clears the cookies whatever they are.
Serve(c) ==
    /\ call[c].at = "sent" /\ call[c].op \notin {"login", "csrf"}
    /\ Answer(c, Status(call[c]), IF call[c].op = "logout" THEN Clear ELSE Keep, NoToken)
    /\ UNCHANGED <<jar, server, script>>

-----------------------------------------------------------------------------
(* The browser, and the script of the tab *)

\* Mutated form of the step below: /auth/csrf replaces the CSRF cookie alone.
ArriveAlone(c) ==
    /\ call[c].at = "served"
    /\ jar' = CASE call[c].cookies = Keep -> jar
                [] call[c].op = "csrf" -> Pair(jar.session, call[c].cookies.csrf)
                [] OTHER -> call[c].cookies
    /\ Put(c, [call[c] EXCEPT !.at = "arrived"])
    /\ UNCHANGED <<server, script>>

\* The answer arrives and its Set-Cookie headers are applied.
Arrive(c) ==
    /\ call[c].at = "served"
    /\ jar' = IF call[c].cookies = Keep THEN jar ELSE call[c].cookies
    /\ Put(c, [call[c] EXCEPT !.at = "arrived"])
    /\ UNCHANGED <<server, script>>

SetAuth(t, token, flag) ==
    /\ store' = [store EXCEPT ![t] = token]
    /\ authed' = [authed EXCEPT ![t] = flag]

\* request() and its caller go on: a 401 and the end of a logout clear the tab's
\* state, a login and /auth/csrf set it, /auth/me goes on to /auth/csrf.
Resolve(c) ==
    LET r == call[c]
        t == r.tab IN
    /\ r.at = "arrived"
    /\ CASE r.status = 401 \/ r.op = "logout" -> SetAuth(t, NoToken, FALSE)
         [] r.status = 200 /\ r.op \in {"login", "csrf"} -> SetAuth(t, r.token, TRUE)
         [] OTHER -> UNCHANGED <<store, authed>>
    /\ IF r.op = "me" /\ r.status = 200
       THEN Put(c, Sent(t, "csrf")) /\ UNCHANGED page
       ELSE /\ Put(c, NoCall)
            /\ page' = IF r.op \in {"me", "csrf"} THEN [page EXCEPT ![t] = "ready"]
                       ELSE page
    /\ UNCHANGED <<jar, server>>

\* The call or its answer is lost: fetch rejects, which only a logout and a boot
\* mind.
Lose(c) ==
    LET r == call[c] IN
    /\ r.at \in {"sent", "served"}
    /\ IF r.op = "logout" THEN SetAuth(r.tab, NoToken, FALSE)
       ELSE UNCHANGED <<store, authed>>
    /\ page' = IF r.op \in {"me", "csrf"} THEN [page EXCEPT ![r.tab] = "ready"] ELSE page
    /\ Put(c, NoCall)
    /\ UNCHANGED <<jar, server>>

\* max-age of the two cookies, and exp of a session's token.
CookiesExpire ==
    /\ jar.session # NoToken
    /\ jar' = Clear
    /\ UNCHANGED <<server, script, call>>

SessionExpires(n) ==
    /\ n <= issued /\ under[n] = n /\ n \notin expired
    /\ expired' = expired \cup {n}
    /\ UNCHANGED <<jar, issued, owner, under, script, call>>

-----------------------------------------------------------------------------
SessionNext ==
    \/ \E t \in Tabs, c \in Calls :
          Boot(t, c) \/ \E op \in Ops : Send(t, c, op)
    \/ \E c \in Calls :
          \/ \E right \in BOOLEAN : ServeLogin(c, right)
          \/ ServeCsrf(c) \/ Serve(c) \/ Arrive(c) \/ Resolve(c) \/ Lose(c)
    \/ CookiesExpire
    \/ \E n \in Tokens : SessionExpires(n)

SessionSpec == SessionInit /\ [][SessionNext]_sessionVars

-----------------------------------------------------------------------------
(* Properties *)

Answered(c) == call[c].at \in {"served", "arrived"}

SessionTypeOK ==
    /\ jar \in [session : {NoToken} \cup Tokens, csrf : {NoToken} \cup Tokens]
    /\ expired \subseteq Tokens
    /\ issued \in 0..MaxIssued
    /\ owner \in [Tokens -> Tabs \cup {NoToken}]
    /\ under \in [Tokens -> {NoToken} \cup Tokens]
    /\ page \in [Tabs -> {"closed", "boot", "ready"}]
    /\ authed \in [Tabs -> BOOLEAN]
    /\ store \in [Tabs -> {NoToken} \cup Tokens]
    /\ \A c \in Calls :
        call[c].at \in {"free", "sent", "served", "arrived"}

\* A tab is refused with 403 only because another tab has logged in or booted
\* since this one got its token; its own calls never make it stale.
RefusedOnlyByAnother ==
    \A c \in Calls :
        Answered(c) /\ call[c].status = 403 =>
            /\ call[c].header # NoToken
            /\ owner[call[c].cookie] # call[c].tab

\* A tab's writes stay in the session its token was issued under: when another
\* tab has signed in as somebody else, they are refused, whatever answers crossed.
WritesStayInSession ==
    \A c \in Calls :
        Answered(c) /\ call[c].op = "mutate" /\ call[c].status = 200 =>
            under[call[c].header] = call[c].session
=============================================================================
