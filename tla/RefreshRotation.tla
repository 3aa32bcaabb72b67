--------------------------- MODULE RefreshRotation ---------------------------
(***************************************************************************)
(* Refresh-token families of the panel (api/auth.py, security_refresh.py,   *)
(* services/auth_service.py, PgRefreshFamiliesRepo), served by concurrent   *)
(* requests, each inside the one transaction that db/session.py opens for   *)
(* it.  PostgreSQL runs at READ COMMITTED: a statement reads the committed  *)
(* rows, an UPDATE whose WHERE matches a row another transaction has        *)
(* written waits for that transaction and then re-evaluates its WHERE.      *)
(*                                                                         *)
(* A request is cut at its await points that touch the database.  Requests  *)
(* that end in 401 or 429 before they write anything (no cookie, decode     *)
(* failure, REJECT, rate limit, unknown or inactive user at login) change   *)
(* no state and so are stuttering steps here.                               *)
(***************************************************************************)
EXTENDS Naturals

CONSTANTS
    Families,     \* UUIDs the family table's default can generate
    Users,
    Requests,     \* request slots: how many requests can be in flight
    MaxGen,       \* bound: tokens of this generation are not refreshed
    CommitFirst,  \* does get_session's exit (the COMMIT) run before the
                  \* response leaves?  fastapi >= 0.111 is unpinned: TRUE up to
                  \* 0.117, FALSE from 0.118 on
    NoToken, NoRow

Gens == 0..MaxGen
Tokens == [fam : Families, gen : Gens, user : Users]
Actions == {"auth.login.ok", "auth.login.failed", "auth.logout",
            "auth.refresh.replay_revoked"}
Rows == [action : Actions, target : Families \cup Users]

ASSUME ConstantsAssumption ==
    /\ MaxGen \in Nat
    /\ CommitFirst \in BOOLEAN
    /\ NoToken \notin Tokens
    /\ NoRow \notin Rows

VARIABLES
    family,    \* committed refresh_token_families
    active,    \* committed users.is_active
    audit,     \* committed audit_log rows
    minted,    \* family ids ever generated, rolled back ones included
    pc,        \* where each request stands in its handler
    tok,       \* the claims a request presents, or the token it opens
    write,     \* the family write pending in a request's transaction
    row,       \* the audit row pending in a request's transaction
    held,      \* refresh tokens a response has delivered
    spent,     \* history: <<family, generation>> whose rotation committed
    answered,  \* history: revocations that answered requests have reported
    lost,      \* history: what a 200 delivered or reported, of transactions
               \* that were lost after it had left
    overtaken  \* history: families a logout looked for and did not find

vars == <<family, active, audit, minted, pc, tok, write, row, held, spent,
          answered, lost, overtaken>>
database == <<family, active, audit>>
client == <<held, answered, lost, overtaken>>

Steps == {"idle", "login", "rotate", "replay", "bumped", "logout",
          "returned", "raised", "replied", "committed"}

-----------------------------------------------------------------------------
(* The transaction of a request and what it can see. *)

\* The request's transaction is open: begun, neither committed nor rolled back.
InTx(r) == pc[r] \notin {"idle", "committed"}

\* r's transaction holds the row lock of family f.
Writes(r, f) == InTx(r) /\ write[r] \in {"bump", "revoke"} /\ tok[r].fam = f

Locked(f) == \E r \in Requests : Writes(r, f)

Live(f) == family[f].status = "live"

\* evaluate_replay, on the family row that by_id read.
Verdict(t) ==
    IF ~Live(t.fam) \/ t.gen > family[t.fam].gen THEN "reject"
    ELSE IF t.gen < family[t.fam].gen THEN "replay"
    ELSE "rotate"

\* Mutated forms of the CAS: without the expected generation (the race the
\* docstring of bump_generation describes), and without revoked_at IS NULL.
CasWithoutGeneration(t) == Live(t.fam)
CasWithoutRevoked(t) ==
    family[t.fam].status # "absent" /\ family[t.fam].gen = t.gen

\* The WHERE of bump_generation's UPDATE.
CasMatches(t) == Live(t.fam) /\ family[t.fam].gen = t.gen

\* The refresh token the response carries, if it carries one.
NewTokens(r) ==
    CASE write[r] = "open" -> {tok[r]}
      [] write[r] = "bump" -> {[tok[r] EXCEPT !.gen = @ + 1]}
      [] OTHER -> {}

\* The revocation that the answer of r reports, if it reports one.
Reported(r) ==
    {a \in {row[r]} \ {NoRow} :
        a.action \in {"auth.logout", "auth.refresh.replay_revoked"}}

\* What the 200 of r hands over, or reports as done.
Said(r) == NewTokens(r) \cup Reported(r)

\* What the requests of R have said and can no longer commit, once they die.
Unkept(R) == UNION {Said(r) : r \in {q \in R : pc[q] = "replied"}}

\* Mutated form of the commit: the UPDATE of a rotation is lost.
AppliedWithoutBump(r) ==
    CASE write[r] = "open" ->
            [family EXCEPT ![tok[r].fam] = [status |-> "live", gen |-> 0]]
      [] write[r] = "revoke" -> [family EXCEPT ![tok[r].fam].status = "revoked"]
      [] OTHER -> family

\* The family table once r's transaction commits.
Applied(r) ==
    CASE write[r] = "open" ->
            [family EXCEPT ![tok[r].fam] = [status |-> "live", gen |-> 0]]
      [] write[r] = "bump" -> [family EXCEPT ![tok[r].fam].gen = @ + 1]
      [] write[r] = "revoke" -> [family EXCEPT ![tok[r].fam].status = "revoked"]
      [] OTHER -> family

Goto(r, step) == pc' = [pc EXCEPT ![r] = step]

\* The request is over and its slot is free again.
Over(r) ==
    /\ pc' = [pc EXCEPT ![r] = "idle"]
    /\ tok' = [tok EXCEPT ![r] = NoToken]
    /\ write' = [write EXCEPT ![r] = "none"]
    /\ row' = [row EXCEPT ![r] = NoRow]

Init ==
    /\ family = [f \in Families |-> [status |-> "absent", gen |-> 0]]
    /\ active = [u \in Users |-> TRUE]
    /\ audit = {}
    /\ minted = {}
    /\ pc = [r \in Requests |-> "idle"]
    /\ tok = [r \in Requests |-> NoToken]
    /\ write = [r \in Requests |-> "none"]
    /\ row = [r \in Requests |-> NoRow]
    /\ held = {}
    /\ spent = {}
    /\ answered = {}
    /\ lost = {}
    /\ overtaken = {}

-----------------------------------------------------------------------------
(* POST /auth/login *)

\* by_email finds an active user and the password verifies; touch_login and the
\* login.ok row are written.  f is the id the INSERT below will draw.
LoginVerify(r, u, f) ==
    /\ pc[r] = "idle"
    /\ active[u]
    /\ f \notin minted
    /\ minted' = minted \cup {f}
    /\ tok' = [tok EXCEPT ![r] = [fam |-> f, gen |-> 0, user |-> u]]
    /\ row' = [row EXCEPT ![r] = [action |-> "auth.login.ok", target |-> u]]
    /\ Goto(r, "login")
    /\ UNCHANGED <<database, client, write, spent>>

\* Wrong password: the row is recorded and then AuthError is raised.
LoginFail(r, u) ==
    /\ pc[r] = "idle"
    /\ active[u]
    /\ row' = [row EXCEPT ![r] = [action |-> "auth.login.failed", target |-> u]]
    /\ Goto(r, "raised")
    /\ UNCHANGED <<database, client, minted, tok, write, spent>>

\* refresh_repo.create: INSERT at generation 0, flushed and not yet committed.
LoginOpen(r) ==
    /\ pc[r] = "login"
    /\ write' = [write EXCEPT ![r] = "open"]
    /\ Goto(r, "returned")
    /\ UNCHANGED <<database, client, minted, tok, row, spent>>

-----------------------------------------------------------------------------
(* POST /auth/refresh *)

\* Decode, by_id, evaluate_replay.
RefreshRead(r, t) ==
    /\ pc[r] = "idle"
    /\ t.gen < MaxGen
    /\ Verdict(t) # "reject"
    /\ tok' = [tok EXCEPT ![r] = t]
    /\ Goto(r, Verdict(t))
    /\ UNCHANGED <<database, client, minted, write, row, spent>>

\* bump_generation matches the row and takes its lock.
BumpWins(r) ==
    /\ pc[r] = "rotate"
    /\ CasMatches(tok[r])
    /\ ~Locked(tok[r].fam)
    /\ write' = [write EXCEPT ![r] = "bump"]
    /\ Goto(r, "bumped")
    /\ UNCHANGED <<database, client, minted, tok, row, spent>>

\* bump_generation returns no row: 401, nothing written.
BumpLoses(r) ==
    /\ pc[r] = "rotate"
    /\ ~CasMatches(tok[r])
    /\ Over(r)
    /\ UNCHANGED <<database, client, minted, spent>>

\* users.by_id after the bump: an active user gets a new pair ...
UserActive(r) ==
    /\ pc[r] = "bumped"
    /\ active[tok[r].user]
    /\ Goto(r, "returned")
    /\ UNCHANGED <<database, client, minted, tok, write, row, spent>>

\* ... and for an inactive one the family is revoked and the handler raises.
UserInactive(r) ==
    /\ pc[r] = "bumped"
    /\ ~active[tok[r].user]
    /\ write' = [write EXCEPT ![r] = "revoke"]
    /\ Goto(r, "raised")
    /\ UNCHANGED <<database, client, minted, tok, row, spent>>

\* REVOKE verdict: revoke the family, record the row, raise.
ReplayRevoke(r) ==
    /\ pc[r] = "replay"
    /\ ~Locked(tok[r].fam)
    /\ write' = [write EXCEPT ![r] = "revoke"]
    /\ row' = [row EXCEPT ![r] = [action |-> "auth.refresh.replay_revoked",
                                  target |-> tok[r].fam]]
    /\ Goto(r, "raised")
    /\ UNCHANGED <<database, client, minted, tok, spent>>

-----------------------------------------------------------------------------
(* POST /auth/logout *)

LogoutRead(r, t) ==
    /\ pc[r] = "idle"
    /\ tok' = [tok EXCEPT ![r] = t]
    /\ Goto(r, "logout")
    /\ UNCHANGED <<database, client, minted, write, row, spent>>

\* Mutated form of the step below: the revoke is forgotten.
LogoutOnlyRecords(r) ==
    LET f == tok[r].fam IN
    /\ pc[r] = "logout"
    /\ row' = [row EXCEPT ![r] = [action |-> "auth.logout", target |-> f]]
    /\ Goto(r, "returned")
    /\ UNCHANGED <<database, client, minted, tok, write, spent>>

\* revoke updates the row by id alone, whatever its state; an id that is not
\* committed matches no row.  The audit row is recorded either way.
LogoutRevoke(r) ==
    LET f == tok[r].fam IN
    /\ pc[r] = "logout"
    /\ ~Locked(f)
    /\ write' = IF family[f].status = "absent" THEN write
                ELSE [write EXCEPT ![r] = "revoke"]
    /\ overtaken' = IF family[f].status = "absent" THEN overtaken \cup {f}
                    ELSE overtaken
    /\ row' = [row EXCEPT ![r] = [action |-> "auth.logout", target |-> f]]
    /\ Goto(r, "returned")
    /\ UNCHANGED <<database, held, answered, lost, minted, tok, spent>>

-----------------------------------------------------------------------------
(* The end of every request: get_session and the response *)

\* The handler returned: get_session commits.
Commit(r) ==
    /\ pc[r] = IF CommitFirst THEN "returned" ELSE "replied"
    /\ family' = Applied(r)
    /\ audit' = audit \cup ({row[r]} \ {NoRow})
    /\ spent' = IF write[r] = "bump"
                THEN spent \cup {<<tok[r].fam, tok[r].gen>>} ELSE spent
    /\ IF CommitFirst THEN Goto(r, "committed") /\ UNCHANGED <<tok, write, row>>
       ELSE Over(r)
    /\ UNCHANGED <<active, minted, client>>

\* The 200 leaves, with the cookies the handler set; delivered is FALSE when it
\* is lost on the way.
Reply(r, delivered) ==
    /\ pc[r] = IF CommitFirst THEN "committed" ELSE "returned"
    /\ IF delivered
       THEN /\ held' = held \cup NewTokens(r)
            /\ answered' = answered \cup Reported(r)
            /\ UNCHANGED <<lost, overtaken>>
       ELSE UNCHANGED client
    /\ IF CommitFirst THEN Over(r)
       ELSE Goto(r, "replied") /\ UNCHANGED <<tok, write, row>>
    /\ UNCHANGED <<database, minted, spent>>

\* Mutated form of the step below: get_session has no except clause and leaves the
\* transaction open.
RollbackMissing(r) ==
    /\ pc[r] = "raised"
    /\ answered' = answered \cup Reported(r)
    /\ UNCHANGED <<database, minted, pc, tok, write, row, held, spent, lost, overtaken>>

\* The handler raised: get_session rolls back and re-raises, and the exception
\* becomes the 401 the client sees.
Rollback(r) ==
    /\ pc[r] = "raised"
    /\ answered' = answered \cup Reported(r)
    /\ Over(r)
    /\ UNCHANGED <<database, held, lost, overtaken, minted, spent>>

\* The database connection drops or the COMMIT fails: the transaction is gone.
Abort(r) ==
    /\ InTx(r)
    /\ lost' = lost \cup Unkept({r})
    /\ Over(r)
    /\ UNCHANGED <<database, held, answered, overtaken, minted, spent>>

\* The panel process dies and is started again: every request with it.
Restart ==
    /\ \E r \in Requests : pc[r] # "idle"
    /\ pc' = [r \in Requests |-> "idle"]
    /\ tok' = [r \in Requests |-> NoToken]
    /\ write' = [r \in Requests |-> "none"]
    /\ row' = [r \in Requests |-> NoRow]
    /\ lost' = lost \cup Unkept(Requests)
    /\ UNCHANGED <<database, held, answered, overtaken, minted, spent>>

\* An administrator disables or re-enables a user (PATCH and DELETE /users).
SetActive(u) ==
    /\ active' = [active EXCEPT ![u] = ~@]
    /\ UNCHANGED <<family, audit, minted, pc, tok, write, row, client, spent>>

-----------------------------------------------------------------------------
Arrive(r) ==
    \/ \E u \in Users, f \in Families : LoginVerify(r, u, f)
    \/ \E u \in Users : LoginFail(r, u)
    \/ \E t \in held : RefreshRead(r, t)
    \/ \E t \in held : LogoutRead(r, t)

\* Steps of a handler that wait on the row lock of its family.
LockRow(r) == BumpWins(r) \/ ReplayRevoke(r) \/ LogoutRevoke(r)

Proceed(r) ==
    \/ LoginOpen(r)
    \/ BumpLoses(r)
    \/ UserActive(r)
    \/ UserInactive(r)
    \/ Commit(r)
    \/ \E delivered \in BOOLEAN : Reply(r, delivered)
    \/ Rollback(r)

Next ==
    \/ \E r \in Requests : Arrive(r) \/ LockRow(r) \/ Proceed(r) \/ Abort(r)
    \/ Restart
    \/ \E u \in Users : SetActive(u)

Spec == Init /\ [][Next]_vars

\* The event loop resumes every request whose await is ready, and PostgreSQL
\* hands a row lock to its waiters in turn.  Clients, administrators, crashes
\* and lost responses are under no obligation.
Fairness ==
    \A r \in Requests : WF_vars(Proceed(r)) /\ SF_vars(LockRow(r))

FairSpec == Spec /\ Fairness

-----------------------------------------------------------------------------
(* Properties *)

TypeOK ==
    /\ family \in [Families -> [status : {"absent", "live", "revoked"}, gen : Gens]]
    /\ active \in [Users -> BOOLEAN]
    /\ audit \subseteq Rows
    /\ minted \subseteq Families
    /\ pc \in [Requests -> Steps]
    /\ tok \in [Requests -> Tokens \cup {NoToken}]
    /\ write \in [Requests -> {"none", "open", "bump", "revoke"}]
    /\ row \in [Requests -> Rows \cup {NoRow}]
    /\ held \subseteq Tokens
    /\ spent \subseteq Families \X Gens
    /\ answered \subseteq Rows
    /\ lost \subseteq Tokens \cup Rows
    /\ overtaken \subseteq Families

\* A refresh token buys one successor: a transaction that is about to commit a
\* rotation holds a token nobody has redeemed, and no other transaction has
\* written its family (bump_generation's compare-and-swap, whatever the reads of
\* the two requests saw).
SingleUse ==
    \A r \in Requests :
        InTx(r) /\ write[r] = "bump" =>
            /\ <<tok[r].fam, tok[r].gen>> \notin spent
            /\ \A s \in Requests \ {r} : ~Writes(s, tok[r].fam)

\* The transaction behind x, which a 200 has said, has yet to commit or was lost:
\* never so where the COMMIT comes first.
Unsettled(x) ==
    /\ ~CommitFirst
    /\ x \in lost \cup Unkept(Requests)

\* "We never issued a generation higher than the current one" (the comment that
\* lets evaluate_replay call such a token forged): no delivered token is ahead
\* of the committed row of its family, but for one whose own transaction has not
\* committed behind its response.
NeverAhead ==
    \A t \in held :
        \/ family[t.fam].status # "absent" /\ t.gen <= family[t.fam].gen
        \/ Unsettled(t)

\* A logout that was answered 200 for a readable cookie has revoked the family
\* and left its audit row, whatever raced with it, but for one whose own
\* transaction has not committed behind its response, or which came before the
\* COMMIT of the login it undoes and left that family as it was.
LogoutIsDurable ==
    \A a \in answered :
        a.action = "auth.logout" =>
            \/ a \in audit /\ family[a.target].status = "revoked"
            \/ a \in audit /\ a.target \in overtaken /\ ~CommitFirst
            \/ Unsettled(a)

\* No family is revoked without the audit row that says so: the two are written
\* by one transaction and are committed or lost together.
RevocationIsAudited ==
    \A f \in Families :
        family[f].status = "revoked" =>
            \E a \in audit : a.target = f /\ a.action \in
                {"auth.logout", "auth.refresh.replay_revoked"}

\* Revocation is final: no step rotates or revives a revoked family, and the
\* generation of a family never goes back or skips one.
RevokedIsFinal ==
    [][\A f \in Families :
        /\ family[f].status = "revoked" => family'[f] = family[f]
        /\ family'[f].gen \in {family[f].gen, family[f].gen + 1}]_vars

\* Every request ends: no handler waits for ever on a row lock, which every
\* path out of a handler, the raising ones included, gives back.
EveryRequestEnds == \A r \in Requests : pc[r] # "idle" ~> pc[r] = "idle"

\* The committed table implements single-use tokens: what is outstanding is the
\* current generation of each live family.
Abstract == INSTANCE SingleUseTokens WITH
    outstanding <- {<<f, family[f].gen>> : f \in {g \in Families : Live(g)}},
    spent <- spent,
    closed <- {f \in Families : family[f].status = "revoked"}

ImplementsSingleUse == Abstract!Spec

\* What api/auth.py, ADR-0015 and its follow-ups say of a replay: a refresh
\* answered "refresh replay; family revoked" has revoked the family.
ReplayRevokesFamily ==
    \A a \in answered :
        a.action = "auth.refresh.replay_revoked" =>
            family[a.target].status = "revoked"
=============================================================================
