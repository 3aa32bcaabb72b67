---------------------------- MODULE LiveDashboard ----------------------------
(***************************************************************************)
(* The live feed of the dashboard: the server's loop (api/ws_dashboard.py)  *)
(* and the hook that keeps a socket to it (useLiveDashboard.ts), in one tab  *)
(* that mounts and unmounts the page (App.tsx, Dashboard.tsx).               *)
(*                                                                         *)
(* The server looks at the session only in the handshake and ends a loop     *)
(* only when a send fails.  The hook closes its socket when the page goes.   *)
(* A tab that is hidden or offline does not poll, and may be throttled or    *)
(* frozen.  What is in a frame, and how long a back-off lasts, is left out,  *)
(* and so is the second mount of StrictMode, which a production build has    *)
(* not.                                                                     *)
(***************************************************************************)
EXTENDS Naturals, FiniteSets

CONSTANTS
    Sockets,   \* WebSocket objects the tab can have, one after another
    MaxFaults  \* bound: that many dropped links and server deaths

ConstantsAssumption == MaxFaults \in Nat

VARIABLES
    up,       \* the panel process runs
    session,  \* the cookie the browser sends holds a token that verifies
    authed,   \* the tab's mirror of that, which RequireAuth renders by
    shown,    \* the tab is in the foreground and online
    mounted,  \* the page is rendered: aliveRef of the present hook
    ref,      \* socketRef: the socket of the present hook, if it has one
    timer,    \* retryRef: a reconnect is scheduled
    client,   \* readyState of each socket, "lost" with its close event due
    loop,     \* sockets the server is running a loop for
    faults

vars == <<up, session, authed, shown, mounted, ref, timer, client, loop, faults>>
page == <<authed, shown, mounted, ref, timer>>

NoSocket == "none"
Free == {s \in Sockets : client[s] = "closed" /\ s \notin loop}

Init ==
    /\ up = TRUE
    /\ session = TRUE
    /\ authed = TRUE
    /\ shown = TRUE
    /\ mounted = FALSE
    /\ ref = NoSocket
    /\ timer = FALSE
    /\ client = [s \in Sockets |-> "closed"]
    /\ loop = {}
    /\ faults = 0

-----------------------------------------------------------------------------
(* The hook *)

\* connect.
Connect(s) ==
    /\ s \in Free
    /\ ref' = s
    /\ client' = [client EXCEPT ![s] = "connecting"]

\* The page is rendered and the effect runs.
Mount(s) ==
    /\ authed /\ ~mounted
    /\ mounted' = TRUE
    /\ Connect(s)
    /\ UNCHANGED <<up, session, authed, shown, timer, loop, faults>>

\* The reconnect that is due.
Fire(s) ==
    /\ timer
    /\ timer' = FALSE
    /\ Connect(s)
    /\ UNCHANGED <<up, session, authed, shown, mounted, loop, faults>>

\* The open event of an accepted socket.
Open(s) ==
    /\ client[s] = "connecting" /\ s \in loop
    /\ client' = [client EXCEPT ![s] = "open"]
    /\ UNCHANGED <<up, session, page, loop, faults>>

\* Mutated form of the step below: only an error before the first open retries.
CloseWithoutRetry(s) ==
    /\ client[s] = "lost"
    /\ client' = [client EXCEPT ![s] = "closed"]
    /\ timer' = (timer \/ (mounted /\ s \notin loop))
    /\ UNCHANGED <<up, session, authed, shown, mounted, ref, loop, faults>>

\* The close event of a socket whose hook still lives: a reconnect is scheduled.
Close(s) ==
    /\ client[s] = "lost"
    /\ client' = [client EXCEPT ![s] = "closed"]
    /\ timer' = (timer \/ mounted)
    /\ UNCHANGED <<up, session, authed, shown, mounted, ref, loop, faults>>

\* Mutated form of the operator below: readyState = OPEN in place of <= OPEN.
CleanupOpenOnly ==
    /\ mounted' = FALSE
    /\ timer' = FALSE
    /\ ref' = NoSocket
    /\ client' = [s \in Sockets |->
                   IF s = ref /\ client[s] = "connecting" THEN "connecting"
                   ELSE "closed"]

\* The effect's clean-up: it closes the socket of the hook; a close event that is
\* still due, of this hook, will find aliveRef cleared and do nothing.
Cleanup ==
    /\ mounted' = FALSE
    /\ timer' = FALSE
    /\ ref' = NoSocket
    /\ client' = [s \in Sockets |->
                   IF s = ref \/ client[s] = "lost" THEN "closed" ELSE client[s]]

\* The user goes to another page, ...
Leave ==
    /\ mounted
    /\ Cleanup
    /\ UNCHANGED <<up, session, authed, shown, loop, faults>>

\* ... or the overview asked for over REST is answered 401 and clearAuth sends the
\* tab to the login page.
Bounce ==
    /\ mounted /\ up /\ ~session
    /\ authed' = FALSE
    /\ Cleanup
    /\ UNCHANGED <<up, session, shown, loop, faults>>

\* Logging out here: the cookies go if the server answers, the mirror always.
Logout ==
    /\ authed
    /\ authed' = FALSE
    /\ session' = (session /\ ~up)
    /\ Cleanup
    /\ UNCHANGED <<up, shown, loop, faults>>

Login ==
    /\ up /\ ~authed
    /\ session' = TRUE
    /\ authed' = TRUE
    /\ UNCHANGED <<up, shown, mounted, ref, timer, client, loop, faults>>

-----------------------------------------------------------------------------
(* The server *)

\* dashboard_ws accepts a handshake with a token that verifies, ...
Accept(s) ==
    /\ client[s] = "connecting" /\ s \notin loop
    /\ up /\ session
    /\ loop' = loop \cup {s}
    /\ UNCHANGED <<up, session, page, client, faults>>

\* ... and closes any other with 1008; a server that is down answers nobody.
Refuse(s) ==
    /\ client[s] = "connecting" /\ s \notin loop
    /\ ~(up /\ session)
    /\ client' = [client EXCEPT ![s] = "lost"]
    /\ UNCHANGED <<up, session, page, loop, faults>>

\* Mutated form of the step below: an error of send_json is caught in the loop.
SendForEver(s) ==
    /\ s \in loop
    /\ client[s] = "lost"
    /\ loop' = loop \ {s}
    /\ UNCHANGED <<up, session, page, client, faults>>

\* send_json raises on a socket whose other end is gone, and the loop is over.
\* (A send that succeeds changes nothing here.)
SendFails(s) ==
    /\ s \in loop
    /\ client[s] \notin {"connecting", "open"}
    /\ loop' = loop \ {s}
    /\ UNCHANGED <<up, session, page, client, faults>>

-----------------------------------------------------------------------------
(* The rest of the world *)

\* The link of a socket breaks; the server does not know.
Drop(s) ==
    /\ client[s] \in {"connecting", "open"}
    /\ faults < MaxFaults
    /\ faults' = faults + 1
    /\ client' = [client EXCEPT ![s] = "lost"]
    /\ UNCHANGED <<up, session, page, loop>>

Die ==
    /\ up /\ faults < MaxFaults
    /\ faults' = faults + 1
    /\ up' = FALSE
    /\ loop' = {}
    /\ client' = [s \in Sockets |->
                   IF client[s] = "closed" THEN "closed" ELSE "lost"]
    /\ UNCHANGED <<session, page>>

Start ==
    /\ ~up
    /\ up' = TRUE
    /\ UNCHANGED <<session, page, client, loop, faults>>

\* The token or the cookie expires, or another tab logs out.
Expire ==
    /\ session
    /\ session' = FALSE
    /\ UNCHANGED <<up, page, client, loop, faults>>

\* The tab goes to the background or offline, or comes back.
Switch ==
    /\ shown' = ~shown
    /\ UNCHANGED <<up, session, authed, mounted, ref, timer, client, loop, faults>>

-----------------------------------------------------------------------------
Browser == \E s \in Sockets : Fire(s) \/ Open(s) \/ Close(s)
Server == \E s \in Sockets : Accept(s) \/ Refuse(s) \/ SendFails(s)

Next ==
    \/ Browser \/ Server \/ Bounce
    \/ \E s \in Sockets : Mount(s) \/ Drop(s)
    \/ Leave \/ Login \/ Logout \/ Die \/ Start \/ Expire \/ Switch

Spec == Init /\ [][Next]_vars

\* The event loop of the server resumes its loops.  That of the browser dispatches
\* events and timers, and the page polls, while the tab is shown: in a hidden or
\* offline one refetchInterval pauses.  Users, expiries, faults and restarts are
\* under no obligation.
Fairness ==
    /\ \A s \in Sockets :
        /\ WF_vars(shown /\ Open(s)) /\ WF_vars(shown /\ Close(s))
        /\ WF_vars(Accept(s) \/ Refuse(s)) /\ WF_vars(SendFails(s))
    /\ WF_vars(shown /\ \E s \in Sockets : Fire(s))
    /\ WF_vars(shown /\ Bounce)

FairSpec == Spec /\ Fairness

-----------------------------------------------------------------------------
(* Properties *)

TypeOK ==
    /\ {up, session, authed, shown, mounted, timer} \subseteq BOOLEAN
    /\ ref \in Sockets \cup {NoSocket}
    /\ client \in [Sockets -> {"closed", "connecting", "open", "lost"}]
    /\ loop \subseteq Sockets
    /\ faults \in 0..MaxFaults

\* One feed at a time: the tab has a live socket only while the page is rendered,
\* it is the one the hook knows, and no reconnect is scheduled beside it.
OneSocket ==
    \A s \in Sockets :
        client[s] \in {"connecting", "open"} => mounted /\ s = ref /\ ~timer

\* The feed ends with the session: a loop that outlives its token, which nobody
\* checks again, ends once the tab has noticed, unless its page stays in a tab that
\* is hidden now and again, and so may never poll.
FeedEndsWithSession ==
    <>[](~session /\ up /\ (mounted => shown)) => <>[](loop = {})

\* The hook keeps trying: a page that stays and is shown, with a server and a
\* session that stay, has an open socket again and again.
Reconnects ==
    <>[](up /\ session /\ mounted /\ shown)
        => []<>(\E s \in Sockets : client[s] = "open")
=============================================================================
