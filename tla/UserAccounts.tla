----------------------------- MODULE UserAccounts -----------------------------
(***************************************************************************)
(* User administration (api/users.py, PgUsersRepo) against the access       *)
(* tokens that carry a role (security.py, api/auth.py), the seeded          *)
(* administrator (alembic 0003), the guard that looks at it when the panel   *)
(* starts (main.py) and the CLI that rotates its password (cli.py).          *)
(*                                                                         *)
(* A request is authorised by its token alone; the users table is read at   *)
(* login and refresh.  Its UPDATE waits for the row lock of another open     *)
(* transaction, an INSERT for an open one of the same e-mail.  Requests that *)
(* end in 400, 401, 403, 404, 409 or 422 change nothing and stutter.  Audit  *)
(* rows of logins and the refresh families are RefreshRotation's.            *)
(***************************************************************************)
EXTENDS Integers

CONSTANTS
    Users,     \* e-mail addresses, one user each
    Seeded,    \* admin@example.com
    Requests,  \* request slots
    Ttl,       \* jwt_ttl_minutes, in ticks of the clock
    Span       \* assumption: a login sees the clock move at most Span times

Roles == {"admin", "viewer"}
Passwords == {"seeded", "rehashed", "strong"}  \* the first two verify "admin"
Absent == [role |-> "none", active |-> FALSE, pw |-> "none"]
Accounts == [role : Roles, active : BOOLEAN, pw : Passwords]
Rows == [actor : Users, action : {"create", "change"}, target : Users]

ASSUME ConstantsAssumption ==
    /\ Seeded \in Users
    /\ Ttl \in Nat
    /\ Span \in Nat

VARIABLES
    table,     \* committed users
    audit,     \* committed audit_log rows of user administration
    serving,   \* the panel runs, in production
    life,      \* ticks left to the newest access token with sub a user, role admin
    req,       \* where each request stands, and what its transaction holds
    gone,      \* history: ticks since a user was last an active admin
    unchecked  \* history: this start could not look at the seeded account

vars == <<table, audit, serving, life, req, gone, unchecked>>
panel == <<serving, unchecked>>

Idle == [step |-> "idle"]

Forever == Ttl + Span + 1  \* gone stops counting there

-----------------------------------------------------------------------------
Exists(u) == table[u] # Absent
IsAdmin(row) == row.role = "admin" /\ row.active

\* current_user and require_role("admin"): a token that has not expired says so.
Authorised(u) == life[u] > 0

\* An open transaction has written the row of u, or is inserting it.
RowLocked(u) == \E r \in Requests : req[r].step = "written" /\ req[r].target = u

Become(r, state) == req' = [req EXCEPT ![r] = state]

\* issue_access_token; no token of the same claims opens more than the newest.
Issue(u, ticks) == life' = [life EXCEPT ![u] = IF ticks > @ THEN ticks ELSE @]

\* The committed account u becomes state.
Put(u, state) ==
    /\ table' = [table EXCEPT ![u] = state]
    /\ gone' = IF IsAdmin(table[u]) \/ IsAdmin(state)
               THEN [gone EXCEPT ![u] = 0] ELSE gone

Init ==
    /\ table \in {[u \in Users |-> IF u = Seeded THEN a ELSE Absent] :
                    a \in {Absent, [role |-> "admin", active |-> TRUE,
                                    pw |-> "strong"]}}
    /\ audit = {}
    /\ serving = FALSE
    /\ life = [u \in Users |-> 0]
    /\ req = [r \in Requests |-> Idle]
    /\ gone = [u \in Users |-> IF IsAdmin(table[u]) THEN 0 ELSE Forever]
    /\ unchecked = FALSE

-----------------------------------------------------------------------------
(* Operators of the deployment *)

\* Mutated form of the step below: ON CONFLICT DO UPDATE.
MigrateOverwrites ==
    /\ Put(Seeded, [role |-> "admin", active |-> TRUE, pw |-> "seeded"])
    /\ UNCHANGED <<audit, life, req, panel>>

\* alembic 0003, also against a running panel: INSERT ... ON CONFLICT DO NOTHING.
Migrate ==
    /\ ~Exists(Seeded)
    /\ ~RowLocked(Seeded)
    /\ Put(Seeded, [role |-> "admin", active |-> TRUE, pw |-> "seeded"])
    /\ UNCHANGED <<audit, life, req, panel>>

\* rotate-admin: a password of at least 8 characters, which "admin" is not.
RotateAdmin(u) ==
    /\ Exists(u)
    /\ ~RowLocked(u)
    /\ Put(u, [table[u] EXCEPT !.pw = "strong"])
    /\ UNCHANGED <<audit, life, req, panel>>

\* An operator who hashed "admin" again and pasted the hash into the row.
RehashByHand ==
    /\ Exists(Seeded) /\ table[Seeded].pw = "seeded"
    /\ ~RowLocked(Seeded)
    /\ Put(Seeded, [table[Seeded] EXCEPT !.pw = "rehashed"])
    /\ UNCHANGED <<audit, life, req, panel>>

\* Mutated form of the test below: the stored hash is compared with the literal.
GuardComparesHash ==
    ~(Exists(Seeded) /\ table[Seeded].active /\ table[Seeded].pw = "seeded")

\* _check_admin_password.
GuardPasses ==
    ~(Exists(Seeded) /\ table[Seeded].active /\ table[Seeded].pw # "strong")

\* _lifespan in production: the guard is skipped when the users table cannot be
\* queried.  A start may bring a new JWT_SECRET, under which no old token verifies.
Boot(reachable, newSecret) ==
    /\ ~serving
    /\ reachable => GuardPasses
    /\ serving' = TRUE
    /\ unchecked' = ~reachable
    /\ life' = IF newSecret THEN [u \in Users |-> 0] ELSE life
    /\ UNCHANGED <<table, audit, req, gone>>

\* The process ends, with every request in it.
Stop ==
    /\ serving
    /\ serving' = FALSE
    /\ req' = [r \in Requests |-> Idle]
    /\ unchecked' = FALSE
    /\ UNCHANGED <<table, audit, life, gone>>

-----------------------------------------------------------------------------
(* POST /auth/login and /auth/refresh, as far as they issue access tokens *)

\* by_email and verify_password of an administrator (the token of anybody else
\* authorises nothing here).
LoginRead(r, u) ==
    /\ serving /\ req[r] = Idle
    /\ IsAdmin(table[u])
    /\ Become(r, [step |-> "login", actor |-> u, age |-> 0])
    /\ UNCHANGED <<table, audit, life, gone, panel>>

\* touch_login updates the row, behind whoever has its lock, and the token is
\* issued from the row as it was read.
LoginTouch(r) ==
    /\ req[r].step = "login"
    /\ ~RowLocked(req[r].actor)
    /\ Become(r, [step |-> "written", op |-> "login", target |-> req[r].actor,
                  ticks |-> Ttl])
    /\ UNCHANGED <<table, audit, life, gone, panel>>

\* Mutated form of the step below: the user is read, and is_active is not.
RefreshWithoutCheck(u) ==
    /\ serving
    /\ table[u].role = "admin"
    /\ Issue(u, Ttl)
    /\ UNCHANGED <<table, audit, req, gone, panel>>

\* users.by_id and a token of the role it finds, for whoever has a refresh token.
Refresh(u) ==
    /\ serving
    /\ IsAdmin(table[u])
    /\ Issue(u, Ttl)
    /\ UNCHANGED <<table, audit, req, gone, panel>>

-----------------------------------------------------------------------------
(* POST, PATCH and DELETE /users: authorise, then write *)

\* The transaction of r has written state into the row of u, and its audit row.
Written(r, action, u, state) ==
    Become(r, [step |-> "written", op |-> action, actor |-> req[r].actor,
               target |-> u, state |-> state])

\* by_email finds nobody: the account may still appear before the INSERT.
CreateRead(r, actor, u) ==
    /\ serving /\ req[r] = Idle
    /\ Authorised(actor)
    /\ ~Exists(u)
    /\ Become(r, [step |-> "create", actor |-> actor, target |-> u])
    /\ UNCHANGED <<table, audit, life, gone, panel>>

\* The INSERT, or the IntegrityError when the e-mail is there by then.
CreateInsert(r, role) ==
    LET u == req[r].target IN
    /\ req[r].step = "create"
    /\ ~RowLocked(u)
    /\ IF Exists(u) THEN Become(r, Idle)
       ELSE Written(r, "create", u, [role |-> role, active |-> TRUE, pw |-> "strong"])
    /\ UNCHANGED <<table, audit, life, gone, panel>>

\* Mutated form of the step below: no refusal of one's own account.
ChangeSelfToo(r, actor, u) ==
    /\ serving /\ req[r] = Idle
    /\ Authorised(actor)
    /\ Exists(u)
    /\ Become(r, [step |-> "change", actor |-> actor, target |-> u])
    /\ UNCHANGED <<table, audit, life, gone, panel>>

\* update_user and delete_user up to their UPDATE: only the target's identity is
\* compared with the actor's.  (An unknown id, 404, changes nothing.)
Change(r, actor, u) ==
    /\ serving /\ req[r] = Idle
    /\ Authorised(actor)
    /\ actor # u
    /\ Exists(u)
    /\ Become(r, [step |-> "change", actor |-> actor, target |-> u])
    /\ UNCHANGED <<table, audit, life, gone, panel>>

\* update_partial: the UPDATE of role, is_active or both.
UpdateWrite(r, role, isActive) ==
    LET u == req[r].target IN
    /\ req[r].step = "change"
    /\ ~RowLocked(u)
    /\ Written(r, "change", u, [table[u] EXCEPT !.role = role, !.active = isActive])
    /\ UNCHANGED <<table, audit, life, gone, panel>>

\* An empty patch only reads the row, takes no lock and is audited all the same.
UpdateNothing(r) ==
    /\ req[r].step = "change"
    /\ Become(r, [req[r] EXCEPT !.step = "read"])
    /\ UNCHANGED <<table, audit, life, gone, panel>>

\* delete: is_active becomes false.
DeleteWrite(r) ==
    LET u == req[r].target IN
    /\ req[r].step = "change"
    /\ ~RowLocked(u)
    /\ Written(r, "change", u, [table[u] EXCEPT !.active = FALSE])
    /\ UNCHANGED <<table, audit, life, gone, panel>>

Recorded(r, action) ==
    audit' = audit \cup {[actor |-> req[r].actor, action |-> action,
                          target |-> req[r].target]}

\* get_session commits and the response leaves: of a login, ...
CommitLogin(r) ==
    /\ req[r].step = "written" /\ req[r].op = "login"
    /\ Issue(req[r].target, req[r].ticks)
    /\ Become(r, Idle)
    /\ UNCHANGED <<table, audit, gone, panel>>

\* ... of a change to the users table, ...
CommitChange(r) ==
    /\ req[r].step = "written" /\ req[r].op # "login"
    /\ Put(req[r].target, req[r].state)
    /\ Recorded(r, req[r].op)
    /\ Become(r, Idle)
    /\ UNCHANGED <<life, panel>>

\* ... and of an empty patch.
CommitNothing(r) ==
    /\ req[r].step = "read"
    /\ Recorded(r, "change")
    /\ Become(r, Idle)
    /\ UNCHANGED <<table, life, gone, panel>>

\* An exception or a lost connection: rolled back.
Abort(r) ==
    /\ req[r] # Idle
    /\ Become(r, Idle)
    /\ UNCHANGED <<table, audit, life, gone, panel>>

-----------------------------------------------------------------------------
Less(n) == IF n > 0 THEN n - 1 ELSE 0

\* One tick of the clock.
Tick ==
    /\ \A r \in Requests : req[r].step = "login" => req[r].age < Span
    /\ life' = [u \in Users |-> Less(life[u])]
    /\ req' = [r \in Requests |->
                CASE req[r].step = "login" -> [req[r] EXCEPT !.age = @ + 1]
                  [] req[r].step = "written" /\ req[r].op = "login" ->
                        [req[r] EXCEPT !.ticks = Less(@)]
                  [] OTHER -> req[r]]
    /\ gone' = [u \in Users |-> IF IsAdmin(table[u]) \/ gone[u] = Forever
                                THEN gone[u] ELSE gone[u] + 1]
    /\ UNCHANGED <<table, audit, panel>>

Deploy ==
    \/ Migrate
    \/ \E u \in Users : RotateAdmin(u)
    \/ RehashByHand
    \/ \E reachable, newSecret \in BOOLEAN : Boot(reachable, newSecret)
    \/ Stop

SignIn ==
    \/ \E r \in Requests, u \in Users : LoginRead(r, u)
    \/ \E r \in Requests : LoginTouch(r)
    \/ \E u \in Users : Refresh(u)

Administer ==
    \/ \E r \in Requests, a, u \in Users : CreateRead(r, a, u) \/ Change(r, a, u)
    \/ \E r \in Requests, role \in Roles : CreateInsert(r, role)
    \/ \E r \in Requests, role \in Roles, isActive \in BOOLEAN :
          UpdateWrite(r, role, isActive)
    \/ \E r \in Requests : UpdateNothing(r) \/ DeleteWrite(r)

Next ==
    \/ Deploy \/ SignIn \/ Administer
    \/ \E r \in Requests :
          CommitLogin(r) \/ CommitChange(r) \/ CommitNothing(r) \/ Abort(r)
    \/ Tick

Spec == Init /\ [][Next]_vars

-----------------------------------------------------------------------------
(* Properties *)

Waiting == [step : {"login"}, actor : Users, age : 0..Span]
             \cup [step : {"create", "change", "read"}, actor : Users, target : Users]
Writing == [step : {"written"}, op : {"login"}, target : Users, ticks : 0..Ttl]
             \cup [step : {"written"}, op : {"create", "change"}, actor : Users,
                   target : Users, state : Accounts]

TypeOK ==
    /\ table \in [Users -> Accounts \cup {Absent}]
    /\ audit \subseteq Rows
    /\ serving \in BOOLEAN
    /\ life \in [Users -> 0..Ttl]
    /\ req \in [Requests -> {Idle} \cup Waiting \cup Writing]
    /\ gone \in [Users -> 0..Forever]
    /\ unchecked \in BOOLEAN

\* Authority fades: an access token that verifies dies at most a token's life and
\* the length of one login after its user was last an active administrator.
\* Refreshes, and logins that wait behind the transaction that takes the role
\* away, add nothing to that.
AuthorityFades == \A u \in Users : Authorised(u) => gone[u] + life[u] <= Ttl + Span

Changers == {a.actor : a \in {b \in audit : b.action = "change"}}

\* "An admin can't lock themselves out by accident": when a panel that had an
\* administrator has none, the log names two people who changed accounts.
LockoutNeedsTwo ==
    Exists(Seeded) /\ (\A u \in Users : ~IsAdmin(table[u])) =>
        \E a, b \in Changers : a # b

Exposed == serving /\ IsAdmin(table[Seeded]) /\ table[Seeded].pw # "strong"

\* A production panel begins to accept "admin" for the seeded account when it is
\* started without a look at the table, or when the account is seeded or enabled
\* under it; a start that looks never begins it.
ExposureIsExplained ==
    [][~Exposed /\ Exposed' =>
        unchecked' \/ ~Exists(Seeded) \/ ~IsAdmin(table[Seeded])]_vars

\* Neither migrations nor administration put a rotated password back.
RotationIsFinal ==
    [][\A u \in Users :
        table[u].pw = "strong" => table'[u].pw = "strong"]_vars
=============================================================================
