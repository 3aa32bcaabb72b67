-------------------------- MODULE UserAccountsProofs --------------------------
(***************************************************************************)
(* Theorems about UserAccounts, for any users, request slots, life of a      *)
(* token and length of a login.                                              *)
(***************************************************************************)
EXTENDS UserAccounts, TLAPS

-----------------------------------------------------------------------------
(* The inductive invariant: what holds of each request and of each user *)

Writes(r) == req[r].step = "written"
Creates(r) == Writes(r) /\ req[r].op = "create"
Changes(r) == Writes(r) /\ req[r].op = "change"

\* An administrator whom somebody else has changed.
Fallen(a) == \E b \in Users \ {a} :
                [actor |-> b, action |-> "change", target |-> a] \in audit

\* r acts with the authority of a.
ActsFor(r, a) ==
    \/ req[r].step \in {"login", "create", "change", "read"} /\ req[r].actor = a
    \/ Writes(r) /\ req[r].op = "login" /\ req[r].target = a
    \/ Writes(r) /\ req[r].op # "login" /\ req[r].actor = a

\* Whoever has authority is an administrator, or was until somebody else said no.
Earned(a) == IsAdmin(table[a]) \/ Fallen(a)

\* Changes are of existing accounts, other than one's own.
OfAnother(r) ==
    req[r].step \in {"change", "read"} \/ Changes(r) =>
        Exists(req[r].target) /\ req[r].actor # req[r].target

\* The row a pending write starts from is still the committed one, ...
WriteIsCurrent(r) ==
    /\ Creates(r) => ~Exists(req[r].target) /\ req[r].state.pw = "strong"
    /\ Changes(r) => req[r].state.pw = table[req[r].target].pw

\* ... because its lock is not shared.
Exclusive(r) ==
    \A s \in Requests : Writes(r) /\ Writes(s) /\ req[r].target = req[s].target => r = s

\* Time since a user was an administrator, against the time left to his login.
Fades(r) ==
    /\ req[r].step = "login" => gone[req[r].actor] <= req[r].age
    /\ Writes(r) /\ req[r].op = "login" /\ req[r].ticks > 0 =>
          gone[req[r].target] + req[r].ticks <= Ttl + Span

\* Before the first administrator there is nothing.
InFlight(r) ==
    /\ \A a \in Users : ActsFor(r, a) => Earned(a)
    /\ OfAnother(r)
    /\ WriteIsCurrent(r)
    /\ Exclusive(r)
    /\ Fades(r)
    /\ ~Exists(Seeded) => req[r] = Idle

Standing(u) ==
    /\ Authorised(u) => Earned(u) /\ gone[u] + life[u] <= Ttl + Span
    /\ IsAdmin(table[u]) => gone[u] = 0
    /\ ~Exists(Seeded) => ~Exists(u) /\ ~Authorised(u)

IInv ==
    /\ TypeOK
    /\ \A r \in Requests : InFlight(r)
    /\ \A u \in Users : Standing(u)
    /\ LockoutNeedsTwo

-----------------------------------------------------------------------------
\* The empty table, and the one with an administrator, satisfy the invariant.
LEMMA InitIInv == Init => IInv
<1> SUFFICES ASSUME Init PROVE IInv
  OBVIOUS
<1> USE ConstantsAssumption
<1>1. table \in [Users -> Accounts \cup {Absent}]
  <2>1. PICK a \in {Absent, [role |-> "admin", active |-> TRUE, pw |-> "strong"]} :
          table = [u \in Users |-> IF u = Seeded THEN a ELSE Absent]
    BY DEF Init
  <2>2. [role |-> "admin", active |-> TRUE, pw |-> "strong"] \in Accounts
    BY DEF Accounts, Roles, Passwords
  <2> QED BY <2>1, <2>2
<1>2. Forever \in Nat
  BY DEF Forever
<1>3. TypeOK
  <2>1. gone \in [Users -> 0..Forever]
    BY <1>2 DEF Init
  <2>2. life \in [Users -> 0..Ttl]
    BY DEF Init
  <2>3. req \in [Requests -> {Idle} \cup Waiting \cup Writing]
    BY DEF Init
  <2>4. audit \subseteq Rows /\ serving \in BOOLEAN /\ unchecked \in BOOLEAN
    BY DEF Init
  <2> QED BY <1>1, <2>1, <2>2, <2>3, <2>4 DEF TypeOK
<1>4. \A u \in Users : ~Authorised(u)
  <2> SUFFICES ASSUME NEW u \in Users PROVE ~Authorised(u)
    OBVIOUS
  <2>1. life[u] = 0
    BY DEF Init
  <2> QED BY <2>1 DEF Authorised
<1>5. \A r \in Requests : InFlight(r)
  <2>1. \A r \in Requests : req[r] = Idle /\ req[r].step = "idle"
    BY DEF Init, Idle
  <2> QED BY <2>1 DEF InFlight, ActsFor, OfAnother, WriteIsCurrent, Exclusive, Fades,
             Writes, Creates, Changes
<1>6. Exists(Seeded) => IsAdmin(table[Seeded])
  BY DEF Init, Exists, IsAdmin
<1>7. \A u \in Users : Standing(u)
  <2>1. \A u \in Users : IsAdmin(table[u]) => gone[u] = 0
    BY DEF Init
  <2>2. ~Exists(Seeded) => \A u \in Users : ~Exists(u)
    BY DEF Init, Exists
  <2> QED BY <1>4, <2>1, <2>2 DEF Standing
<1>8. LockoutNeedsTwo
  BY <1>6 DEF LockoutNeedsTwo
<1> QED BY <1>3, <1>5, <1>7, <1>8 DEF IInv

\* What TypeOK says of one request.
LEMMA Shape ==
  ASSUME TypeOK, NEW r \in Requests
  PROVE  /\ req[r].step \in {"idle", "login", "create", "change", "read", "written"}
         /\ req[r].step = "idle" => req[r] = Idle
         /\ req[r].step = "login" =>
               req[r].actor \in Users /\ req[r].age \in 0..Span
         /\ req[r].step \in {"create", "change", "read"} =>
               req[r].actor \in Users /\ req[r].target \in Users
         /\ Writes(r) => req[r].op \in {"login", "create", "change"}
                         /\ req[r].target \in Users
         /\ Writes(r) /\ req[r].op = "login" => req[r].ticks \in 0..Ttl
         /\ Writes(r) /\ req[r].op # "login" =>
               req[r].actor \in Users /\ req[r].state \in Accounts
<1>1. req[r] \in {Idle} \cup Waiting \cup Writing
  BY DEF TypeOK
<1>2. CASE req[r] = Idle
  BY <1>2 DEF Idle, Writes
<1>3. CASE req[r] \in Waiting
  <2>1. CASE req[r] \in [step : {"login"}, actor : Users, age : 0..Span]
    BY <2>1 DEF Writes
  <2>2. CASE req[r] \in [step : {"create", "change", "read"}, actor : Users, target : Users]
    BY <2>2 DEF Writes
  <2> QED BY <1>3, <2>1, <2>2 DEF Waiting
<1>4. CASE req[r] \in Writing
  <2>1. CASE req[r] \in [step : {"written"}, op : {"login"}, target : Users, ticks : 0..Ttl]
    BY <2>1 DEF Writes
  <2>2. CASE req[r] \in [step : {"written"}, op : {"create", "change"}, actor : Users,
                          target : Users, state : Accounts]
    BY <2>2 DEF Writes
  <2> QED BY <1>4, <2>1, <2>2 DEF Writing
<1> QED BY <1>1, <1>2, <1>3, <1>4

\* Accounts are not Absent, and stay accounts when a field is replaced.
LEMMA AccountShape ==
  ASSUME NEW a \in Accounts
  PROVE  /\ a # Absent
         /\ a.role \in Roles /\ a.active \in BOOLEAN /\ a.pw \in Passwords
         /\ [a EXCEPT !.pw = "strong"] \in Accounts
         /\ [a EXCEPT !.pw = "rehashed"] \in Accounts
         /\ [a EXCEPT !.active = FALSE] \in Accounts
         /\ \A role \in Roles, act \in BOOLEAN :
               [a EXCEPT !.role = role, !.active = act] \in Accounts
<1>1. /\ a.role \in Roles /\ a.active \in BOOLEAN /\ a.pw \in Passwords
      /\ a = [role |-> a.role, active |-> a.active, pw |-> a.pw]
  BY DEF Accounts
<1>2. a # Absent
  BY <1>1 DEF Absent, Roles
<1>3. [a EXCEPT !.pw = "strong"] \in Accounts /\ [a EXCEPT !.pw = "rehashed"] \in Accounts
  BY DEF Accounts, Passwords
<1>4. [a EXCEPT !.active = FALSE] \in Accounts
  BY DEF Accounts
<1>5. \A role \in Roles, act \in BOOLEAN :
         [a EXCEPT !.role = role, !.active = act] \in Accounts
  BY DEF Accounts
<1> QED BY <1>1, <1>2, <1>3, <1>4, <1>5

-----------------------------------------------------------------------------
(* Steps *)

\* Steps keep the types, if nobody changes an account that does not exist.
LEMMA TypeStep ==
    TypeOK /\ (\A r \in Requests : OfAnother(r)) /\ [Next]_vars => TypeOK'
<1> SUFFICES ASSUME TypeOK, \A r \in Requests : OfAnother(r), [Next]_vars
             PROVE  TypeOK'
  OBVIOUS
<1> USE ConstantsAssumption
<1>a. Forever \in Nat /\ 0 \in 0..Ttl /\ Ttl \in 0..Ttl /\ 0 \in 0..Forever
  BY DEF Forever
<1>b. ASSUME NEW r \in Requests, NEW state \in {Idle} \cup Waiting \cup Writing, Become(r, state)
      PROVE  req' \in [Requests -> {Idle} \cup Waiting \cup Writing]
  BY <1>b DEF TypeOK, Become
<1>c. ASSUME NEW u \in Users, NEW state \in Accounts, Put(u, state)
      PROVE  /\ table' \in [Users -> Accounts \cup {Absent}]
             /\ gone' \in [Users -> 0..Forever]
  BY <1>a, <1>c DEF TypeOK, Put
<1>d. ASSUME NEW u \in Users, NEW n \in 0..Ttl, Issue(u, n)
      PROVE  life' \in [Users -> 0..Ttl]
  BY <1>d DEF TypeOK, Issue
<1>e. Idle \in {Idle} \cup Waiting \cup Writing
  OBVIOUS
<1>f. ASSUME NEW r \in Requests, NEW action \in {"create", "change"},
             req[r].actor \in Users, req[r].target \in Users, Recorded(r, action)
      PROVE  audit' \subseteq Rows
  BY <1>f DEF TypeOK, Recorded, Rows
<1>1. CASE Migrate
  <2>1. [role |-> "admin", active |-> TRUE, pw |-> "seeded"] \in Accounts
    BY DEF Accounts, Roles, Passwords
  <2> QED BY <1>1, <1>c, <2>1 DEF Migrate, TypeOK, panel
<1>2. ASSUME NEW u \in Users, RotateAdmin(u) PROVE TypeOK'
  <2>1. [table[u] EXCEPT !.pw = "strong"] \in Accounts
    BY <1>2, AccountShape DEF TypeOK, RotateAdmin, Exists
  <2> QED BY <1>2, <1>c, <2>1 DEF RotateAdmin, TypeOK, panel
<1>3. CASE RehashByHand
  <2>1. [table[Seeded] EXCEPT !.pw = "rehashed"] \in Accounts
    BY <1>3, AccountShape DEF TypeOK, RehashByHand, Exists
  <2> QED BY <1>3, <1>c, <2>1 DEF RehashByHand, TypeOK, panel
<1>4. ASSUME NEW p \in BOOLEAN, NEW q \in BOOLEAN, Boot(p, q) PROVE TypeOK'
  BY <1>4, <1>a DEF Boot, TypeOK
<1>5. CASE Stop
  BY <1>5, <1>e DEF Stop, TypeOK
<1>6. ASSUME NEW r \in Requests, NEW u \in Users, LoginRead(r, u) PROVE TypeOK'
  <2>1. [step |-> "login", actor |-> u, age |-> 0] \in Waiting
    BY DEF Waiting
  <2> QED BY <1>6, <1>b, <2>1 DEF LoginRead, TypeOK, panel
<1>7. ASSUME NEW r \in Requests, LoginTouch(r) PROVE TypeOK'
  <2>1. req[r].actor \in Users
    BY <1>7, Shape DEF LoginTouch
  <2>2. [step |-> "written", op |-> "login", target |-> req[r].actor, ticks |-> Ttl] \in Writing
    BY <2>1, <1>a DEF Writing
  <2> QED BY <1>7, <1>b, <2>2 DEF LoginTouch, TypeOK, panel
<1>8. ASSUME NEW u \in Users, Refresh(u) PROVE TypeOK'
  BY <1>8, <1>a, <1>d DEF Refresh, TypeOK, panel
<1>9. ASSUME NEW r \in Requests, NEW a \in Users, NEW u \in Users, CreateRead(r, a, u)
      PROVE TypeOK'
  <2>1. [step |-> "create", actor |-> a, target |-> u] \in Waiting
    BY DEF Waiting
  <2> QED BY <1>9, <1>b, <2>1 DEF CreateRead, TypeOK, panel
<1>10. ASSUME NEW r \in Requests, NEW a \in Users, NEW u \in Users, Change(r, a, u)
       PROVE TypeOK'
  <2>1. [step |-> "change", actor |-> a, target |-> u] \in Waiting
    BY DEF Waiting
  <2> QED BY <1>10, <1>b, <2>1 DEF Change, TypeOK, panel
<1>g. ASSUME NEW r \in Requests, req[r].actor \in Users, NEW u \in Users,
             NEW op \in {"create", "change"}, NEW state \in Accounts,
             Written(r, op, u, state)
      PROVE  req' \in [Requests -> {Idle} \cup Waiting \cup Writing]
  <2>1. [step |-> "written", op |-> op, actor |-> req[r].actor, target |-> u,
         state |-> state] \in Writing
    BY <1>g DEF Writing
  <2> QED BY <1>b, <1>g, <2>1 DEF Written
<1>11. ASSUME NEW r \in Requests, NEW role \in Roles, CreateInsert(r, role) PROVE TypeOK'
  <2>1. req[r].actor \in Users /\ req[r].target \in Users
    BY <1>11, Shape DEF CreateInsert
  <2>2. [role |-> role, active |-> TRUE, pw |-> "strong"] \in Accounts
    BY DEF Accounts, Passwords
  <2>3. req' \in [Requests -> {Idle} \cup Waiting \cup Writing]
    BY <1>11, <1>b, <1>e, <1>g, <2>1, <2>2 DEF CreateInsert
  <2> QED BY <1>11, <2>3 DEF CreateInsert, TypeOK, panel
<1>12. ASSUME NEW r \in Requests, NEW role \in Roles, NEW act \in BOOLEAN,
              UpdateWrite(r, role, act)
       PROVE TypeOK'
  <2>1. req[r].actor \in Users /\ req[r].target \in Users
    BY <1>12, Shape DEF UpdateWrite
  <2>2. [table[req[r].target] EXCEPT !.role = role, !.active = act] \in Accounts
    <3>1. table[req[r].target] \in Accounts
      BY <1>12, <2>1 DEF UpdateWrite, OfAnother, TypeOK, Exists
    <3> QED BY <3>1, AccountShape
  <2>3. req' \in [Requests -> {Idle} \cup Waiting \cup Writing]
    BY <1>12, <1>g, <2>1, <2>2 DEF UpdateWrite
  <2> QED BY <1>12, <2>3 DEF UpdateWrite, TypeOK, panel
<1>13. ASSUME NEW r \in Requests, UpdateNothing(r) PROVE TypeOK'
  <2>1. req[r] \in [step : {"create", "change", "read"}, actor : Users, target : Users]
    BY <1>13 DEF UpdateNothing, TypeOK, Idle, Waiting, Writing
  <2>2. [req[r] EXCEPT !.step = "read"] \in Waiting
    BY <2>1 DEF Waiting
  <2> QED BY <1>13, <1>b, <2>2 DEF UpdateNothing, TypeOK, panel
<1>14. ASSUME NEW r \in Requests, DeleteWrite(r) PROVE TypeOK'
  <2>1. req[r].actor \in Users /\ req[r].target \in Users
    BY <1>14, Shape DEF DeleteWrite
  <2>2. [table[req[r].target] EXCEPT !.active = FALSE] \in Accounts
    <3>1. table[req[r].target] \in Accounts
      BY <1>14, <2>1 DEF DeleteWrite, OfAnother, TypeOK, Exists
    <3> QED BY <3>1, AccountShape
  <2>3. req' \in [Requests -> {Idle} \cup Waiting \cup Writing]
    BY <1>14, <1>g, <2>1, <2>2 DEF DeleteWrite
  <2> QED BY <1>14, <2>3 DEF DeleteWrite, TypeOK, panel
<1>15. ASSUME NEW r \in Requests, CommitLogin(r) PROVE TypeOK'
  <2>1. req[r].target \in Users /\ req[r].ticks \in 0..Ttl
    BY <1>15, Shape DEF CommitLogin, Writes
  <2> QED BY <1>15, <1>b, <1>d, <1>e, <2>1 DEF CommitLogin, TypeOK, panel
<1>16. ASSUME NEW r \in Requests, CommitChange(r) PROVE TypeOK'
  <2>1. /\ req[r].actor \in Users /\ req[r].target \in Users
        /\ req[r].state \in Accounts /\ req[r].op \in {"create", "change"}
    BY <1>16, Shape DEF CommitChange, Writes
  <2> QED BY <1>16, <1>b, <1>c, <1>e, <1>f, <2>1 DEF CommitChange, TypeOK, panel
<1>17. ASSUME NEW r \in Requests, CommitNothing(r) PROVE TypeOK'
  <2>1. req[r].actor \in Users /\ req[r].target \in Users
    BY <1>17, Shape DEF CommitNothing
  <2> QED BY <1>17, <1>b, <1>e, <1>f, <2>1 DEF CommitNothing, TypeOK, panel
<1>18. ASSUME NEW r \in Requests, Abort(r) PROVE TypeOK'
  BY <1>18, <1>b, <1>e DEF Abort, TypeOK, panel
<1>19. CASE Tick
  <2>1. life' \in [Users -> 0..Ttl]
    BY <1>19 DEF Tick, TypeOK, Less
  <2>2. gone' \in [Users -> 0..Forever]
    <3>1. ASSUME NEW u \in Users
          PROVE  (IF IsAdmin(table[u]) \/ gone[u] = Forever
                  THEN gone[u] ELSE gone[u] + 1) \in 0..Forever
      <4>1. gone[u] \in 0..Forever
        BY DEF TypeOK
      <4> QED BY <1>a, <4>1
    <3> QED BY <1>19, <3>1 DEF Tick
  <2>3. ASSUME NEW r \in Requests PROVE req'[r] \in {Idle} \cup Waiting \cup Writing
    <3>1. CASE req[r].step = "login"
      <4>1. req[r] \in [step : {"login"}, actor : Users, age : 0..Span] /\ req[r].age < Span
        BY <1>19, <3>1 DEF TypeOK, Idle, Waiting, Writing, Tick
      <4>2. [req[r] EXCEPT !.age = @ + 1] \in Waiting
        BY <4>1 DEF Waiting
      <4> QED BY <1>19, <3>1, <4>2 DEF Tick
    <3>2. CASE req[r].step = "written" /\ req[r].op = "login"
      <4>1. req[r] \in [step : {"written"}, op : {"login"}, target : Users, ticks : 0..Ttl]
        BY <3>2 DEF TypeOK, Idle, Waiting, Writing
      <4>2. [req[r] EXCEPT !.ticks = Less(@)] \in Writing
        BY <4>1 DEF Writing, Less
      <4> QED BY <1>19, <3>2, <4>2 DEF Tick
    <3>3. CASE req[r].step # "login" /\ ~(req[r].step = "written" /\ req[r].op = "login")
      BY <1>19, <3>3 DEF Tick, TypeOK
    <3> QED BY <3>1, <3>2, <3>3
  <2>4. req' \in [Requests -> {Idle} \cup Waiting \cup Writing]
    BY <1>19, <2>3 DEF Tick
  <2> QED BY <1>19, <2>1, <2>2, <2>4 DEF Tick, TypeOK, panel
<1>20. CASE UNCHANGED vars
  BY <1>20 DEF TypeOK, vars
<1> QED BY <1>1, <1>2, <1>3, <1>4, <1>5, <1>6, <1>7, <1>8, <1>9, <1>10, <1>11, <1>12, <1>13,
           <1>14, <1>15, <1>16, <1>17, <1>18, <1>19, <1>20
        DEF Next, Deploy, SignIn, Administer

\* A step of one request that leaves the tables and the tokens alone.
LEMMA RequestMoves ==
  ASSUME IInv, TypeOK', NEW r \in Requests, NEW state, Become(r, state),
         UNCHANGED <<table, audit, life, gone>>, InFlight(r)'
  PROVE  IInv'
<1>1. ASSUME NEW s \in Requests, s # r PROVE InFlight(s)'
  <2>1. req'[s] = req[s] /\ InFlight(s)
    BY <1>1 DEF IInv, TypeOK, Become
  <2>2. \A a \in Users : ActsFor(s, a)' => Earned(a)'
    BY <2>1 DEF InFlight, ActsFor, Writes, Earned, Fallen
  <2>3. OfAnother(s)' /\ WriteIsCurrent(s)'
    BY <2>1 DEF InFlight, OfAnother, WriteIsCurrent, Creates, Changes, Writes, Exists
  <2>4. Exclusive(s)'
    <3>1. \A q \in Requests \ {r} : req'[q] = req[q]
      BY DEF IInv, TypeOK, Become
    <3>2. Exclusive(r)'
      BY DEF InFlight
    <3> QED BY <1>1, <2>1, <3>1, <3>2 DEF InFlight, Exclusive, Writes
  <2>5. Fades(s)'
    BY <2>1 DEF InFlight, Fades, Writes
  <2>6. ~Exists(Seeded)' => req'[s] = Idle
    BY <2>1 DEF InFlight, Exists
  <2> QED BY <2>2, <2>3, <2>4, <2>5, <2>6 DEF InFlight
<1>2. ASSUME NEW u \in Users PROVE Standing(u)'
  BY DEF IInv, Standing, Authorised, Earned, Fallen, Exists
<1>3. LockoutNeedsTwo'
  BY DEF IInv, LockoutNeedsTwo, Exists, Changers
<1> QED BY <1>1, <1>2, <1>3 DEF IInv

\* A request that ends, without a trace in the tables or the tokens.
LEMMA IdleIsInFlight ==
  ASSUME NEW r \in Requests, req'[r] = Idle
  PROVE  InFlight(r)'
<1>1. req'[r].step = "idle"
  BY DEF Idle
<1> QED BY <1>1 DEF InFlight, ActsFor, OfAnother, WriteIsCurrent, Exclusive, Fades,
           Writes, Creates, Changes

\* Putting an account never makes the time since its user was an administrator
\* longer, ...
LEMMA GoneDrops ==
  ASSUME IInv, TypeOK', NEW u \in Users, NEW state \in Accounts, Put(u, state),
         NEW v \in Users
  PROVE  gone'[v] <= gone[v] /\ (IsAdmin(table'[v]) => gone'[v] = 0)
<1>1. gone[v] \in 0..Forever /\ gone \in [Users -> 0..Forever]
  BY DEF IInv, TypeOK
<1>2. IsAdmin(table[v]) => gone[v] = 0
  BY DEF IInv, Standing
<1>3. table'[u] = state /\ \A w \in Users \ {u} : table'[w] = table[w]
  BY DEF Put, IInv, TypeOK
<1> QED BY ConstantsAssumption, <1>1, <1>2, <1>3 DEF Put, Forever

\* ... which is all that matters to a request that does not move.
LEMMA FadesOn ==
  ASSUME IInv, TypeOK', NEW s \in Requests, req'[s] = req[s],
         \A v \in Users : gone'[v] <= gone[v]
  PROVE  Fades(s)'
<1> USE ConstantsAssumption
<1>1. Fades(s)
  BY DEF IInv, InFlight
<1>2. CASE req[s].step = "login"
  <2>1. req[s].actor \in Users /\ req[s].age \in 0..Span
    BY <1>2, Shape DEF IInv
  <2>2. gone[req[s].actor] \in 0..Forever /\ gone'[req[s].actor] \in 0..Forever
    BY <2>1 DEF IInv, TypeOK
  <2> QED BY <1>1, <1>2, <2>1, <2>2 DEF Fades, Writes, Forever
<1>3. CASE Writes(s) /\ req[s].op = "login"
  <2>1. req[s].target \in Users /\ req[s].ticks \in 0..Ttl
    BY <1>3, Shape DEF IInv
  <2>2. gone[req[s].target] \in 0..Forever /\ gone'[req[s].target] \in 0..Forever
    BY <2>1 DEF IInv, TypeOK
  <2> QED BY <1>1, <1>3, <2>1, <2>2 DEF Fades, Writes, Forever
<1> QED BY <1>2, <1>3 DEF Fades, Writes

\* A deployment step that writes an account nobody has locked.
LEMMA OperatorPuts ==
  ASSUME IInv, TypeOK', NEW u \in Users, NEW state \in Accounts, Put(u, state),
         UNCHANGED <<audit, life, req>>, ~RowLocked(u),
         Exists(u) \/ u = Seeded, IsAdmin(table[u]) => IsAdmin(state),
         ~Exists(Seeded) => IsAdmin(state) /\ u = Seeded
  PROVE  IInv'
<1> USE ConstantsAssumption
<1>1. /\ table' = [table EXCEPT ![u] = state]
      /\ table' [u] = state
      /\ \A v \in Users \ {u} : table'[v] = table[v]
      /\ \A v \in Users : IsAdmin(table[v]) => IsAdmin(table'[v])
  BY DEF Put, IInv, TypeOK
<1>2. Exists(u)' /\ Exists(Seeded)' /\ \A v \in Users : Exists(v) => Exists(v)'
  BY <1>1, AccountShape DEF Exists
<1>3. \A v \in Users : gone'[v] <= gone[v] /\ (IsAdmin(table'[v]) => gone'[v] = 0)
  BY GoneDrops
<1>4. \A a \in Users : Earned(a) => Earned(a)'
  BY <1>1 DEF Earned, Fallen
<1>5. ASSUME NEW r \in Requests PROVE InFlight(r)'
  <2>1. InFlight(r) /\ (Writes(r) => req[r].target \in Users \ {u})
    BY Shape DEF IInv, RowLocked, Writes
  <2>2. \A a \in Users : ActsFor(r, a)' => Earned(a)'
    BY <1>4, <2>1 DEF InFlight, ActsFor, Writes
  <2>3. OfAnother(r)'
    <3>1. req[r].step \in {"change", "read"} \/ Changes(r) => req[r].target \in Users
      BY Shape DEF IInv, Changes
    <3> QED BY <1>2, <2>1, <3>1 DEF InFlight, OfAnother, Changes, Writes
  <2>4. WriteIsCurrent(r)'
    BY <1>1, <2>1 DEF InFlight, WriteIsCurrent, Creates, Changes, Writes, Exists
  <2>5. Exclusive(r)'
    BY <2>1 DEF InFlight, Exclusive, Writes
  <2>6. Fades(r)'
    BY <1>3, FadesOn
  <2> QED BY <1>2, <2>2, <2>3, <2>4, <2>5, <2>6 DEF InFlight
<1>6. ASSUME NEW v \in Users PROVE Standing(v)'
  <2>1. gone[v] \in 0..Forever /\ gone'[v] \in 0..Forever /\ life[v] \in 0..Ttl
    BY DEF IInv, TypeOK
  <2>2. Authorised(v)' => Earned(v)' /\ gone'[v] + life'[v] <= Ttl + Span
    <3>1. Authorised(v) => Earned(v) /\ gone[v] + life[v] <= Ttl + Span
      BY DEF IInv, Standing
    <3> QED BY <1>3, <1>4, <2>1, <3>1 DEF Authorised, Forever
  <2> QED BY <1>2, <1>3, <2>2 DEF Standing
<1>7. LockoutNeedsTwo'
  BY <1>1 DEF IInv, LockoutNeedsTwo, Exists, Changers
<1> QED BY <1>5, <1>6, <1>7 DEF IInv

\* A step that ends one request, leaves the accounts alone and may add to the log.
LEMMA RequestEnds ==
  ASSUME IInv, TypeOK', NEW r \in Requests, Become(r, Idle),
         UNCHANGED <<table, gone>>, audit \subseteq audit'
  PROVE  /\ \A a \in Users : Earned(a) => Earned(a)'
         /\ \A s \in Requests : InFlight(s)'
         /\ LockoutNeedsTwo'
<1>1. \A a \in Users : Earned(a) => Earned(a)'
  BY DEF Earned, Fallen
<1>2. /\ req'[r] = Idle /\ req'[r].step = "idle"
      /\ \A s \in Requests \ {r} : req'[s] = req[s]
  BY DEF IInv, TypeOK, Become, Idle
<1>3. ASSUME NEW s \in Requests, s # r PROVE InFlight(s)'
  <2>1. req'[s] = req[s] /\ InFlight(s)
    BY <1>2, <1>3 DEF IInv
  <2>2. \A a \in Users : ActsFor(s, a)' => Earned(a)'
    BY <1>1, <2>1 DEF InFlight, ActsFor, Writes
  <2>3. OfAnother(s)' /\ WriteIsCurrent(s)'
    BY <2>1 DEF InFlight, OfAnother, WriteIsCurrent, Creates, Changes, Writes, Exists
  <2>4. Exclusive(s)'
    BY <1>2, <1>3, <2>1 DEF InFlight, Exclusive, Writes
  <2>5. Fades(s)'
    BY <2>1 DEF InFlight, Fades, Writes
  <2>6. ~Exists(Seeded)' => req'[s] = Idle
    BY <2>1 DEF InFlight, Exists
  <2> QED BY <2>2, <2>3, <2>4, <2>5, <2>6 DEF InFlight
<1>4. LockoutNeedsTwo'
  BY DEF IInv, LockoutNeedsTwo, Exists, Changers
<1> QED BY <1>1, <1>2, <1>3, <1>4, IdleIsInFlight

LEMMA CommitLoginStep ==
  ASSUME IInv, TypeOK', NEW r \in Requests, CommitLogin(r)
  PROVE  IInv'
<1> USE ConstantsAssumption
<1> DEFINE u == req[r].target
<1>1. u \in Users /\ req[r].ticks \in 0..Ttl /\ ActsFor(r, u) /\ InFlight(r)
  BY Shape DEF IInv, CommitLogin, ActsFor, Writes
<1>2. /\ \A a \in Users : Earned(a) => Earned(a)'
      /\ \A s \in Requests : InFlight(s)'
      /\ LockoutNeedsTwo'
  BY RequestEnds DEF CommitLogin
<1>3. ASSUME NEW v \in Users PROVE Standing(v)'
  <2>1. Standing(v) /\ table' = table /\ gone' = gone
    BY DEF IInv, CommitLogin
  <2>2. life'[v] = life[v] \/ (v = u /\ life'[v] = req[r].ticks)
    BY DEF CommitLogin, Issue, IInv, TypeOK
  <2>3. CASE life'[v] = life[v]
    BY <1>2, <2>1, <2>3 DEF Standing, Authorised, Exists
  <2>4. CASE v = u /\ life'[v] = req[r].ticks
    <3>1. Earned(u) /\ (req[r].ticks > 0 => gone[u] + req[r].ticks <= Ttl + Span)
      BY <1>1 DEF InFlight, Fades, CommitLogin, Writes
    <3>2. Exists(Seeded)
      BY <1>1 DEF InFlight, CommitLogin, Idle
    <3> QED BY <1>2, <2>1, <2>4, <3>1, <3>2 DEF Standing, Authorised, Exists
  <2> QED BY <2>2, <2>3, <2>4
<1> QED BY <1>2, <1>3 DEF IInv

LEMMA CommitNothingStep ==
  ASSUME IInv, TypeOK', NEW r \in Requests, CommitNothing(r)
  PROVE  IInv'
<1>1. /\ \A a \in Users : Earned(a) => Earned(a)'
      /\ \A s \in Requests : InFlight(s)'
      /\ LockoutNeedsTwo'
  BY RequestEnds DEF CommitNothing, Recorded
<1>2. ASSUME NEW u \in Users PROVE Standing(u)'
  BY <1>1 DEF CommitNothing, IInv, Standing, Authorised, Exists
<1> QED BY <1>1, <1>2 DEF IInv

\* The commit of a change: whoever made it is an administrator or fallen, and
\* another than the one it is about.
LEMMA CommitChangeStep ==
  ASSUME IInv, TypeOK', NEW r \in Requests, CommitChange(r)
  PROVE  IInv'
<1> USE ConstantsAssumption
<1>0. PICK a \in Users, u \in Users : a = req[r].actor /\ u = req[r].target
  BY Shape DEF IInv, CommitChange, Writes
<1>1. /\ req[r].actor = a /\ req[r].target = u /\ req[r].state \in Accounts
      /\ Writes(r) /\ (Creates(r) \/ Changes(r)) /\ InFlight(r) /\ Earned(a)
  <2>1. Writes(r) /\ req[r].op # "login"
    BY DEF CommitChange, Writes
  <2>2. req[r].state \in Accounts /\ (Creates(r) \/ Changes(r))
    BY <2>1, Shape DEF IInv, Creates, Changes
  <2>3. InFlight(r) /\ ActsFor(r, a)
    BY <1>0, <2>1 DEF IInv, ActsFor
  <2> QED BY <1>0, <2>1, <2>2, <2>3 DEF InFlight
<1>2. /\ table'[u] = req[r].state
      /\ \A v \in Users \ {u} : table'[v] = table[v]
      /\ audit' = audit \cup {[actor |-> a, action |-> req[r].op, target |-> u]}
  BY <1>1 DEF CommitChange, Put, Recorded, IInv, TypeOK
<1>3. Exists(Seeded) /\ Exists(u)' /\ \A v \in Users : Exists(v) => Exists(v)'
  <2>1. req[r] # Idle
    BY <1>1 DEF Writes, Idle
  <2>2. req[r].state # Absent
    BY <1>1, AccountShape
  <2> QED BY <1>1, <1>2, <2>1, <2>2 DEF Exists, InFlight
<1>5. \A v \in Users : Earned(v) => Earned(v)'
  <2>1. CASE Changes(r)
    <3>1. Fallen(u)'
      BY <1>1, <1>2, <2>1 DEF InFlight, OfAnother, Fallen, Changes
    <3> QED BY <1>2, <3>1 DEF Earned, Fallen
  <2>2. CASE Creates(r)
    <3>1. ~IsAdmin(table[u])
      BY <1>1, <2>2 DEF InFlight, WriteIsCurrent, Exists, Absent, IsAdmin
    <3> QED BY <1>2, <3>1 DEF Earned, Fallen
  <2> QED BY <1>1, <2>1, <2>2
<1>6. LockoutNeedsTwo'
  <2> SUFFICES ASSUME \A v \in Users : ~IsAdmin(table'[v])
               PROVE  \E b, c \in Changers' : b # c
    BY DEF LockoutNeedsTwo
  <2>1. CASE Changes(r)
    <3>1. Fallen(a)'
      BY <1>1, <1>5 DEF Earned
    <3>2. PICK b \in Users \ {a} :
            [actor |-> b, action |-> "change", target |-> a] \in audit'
      BY <3>1 DEF Fallen
    <3>3. b \in Changers'
      BY <3>2 DEF Changers
    <3>4. [actor |-> a, action |-> "change", target |-> u] \in audit'
      BY <1>2, <2>1 DEF Changes
    <3>5. a \in Changers'
      BY <3>4 DEF Changers
    <3> QED BY <3>2, <3>3, <3>5
  <2>2. CASE Creates(r)
    <3>1. \A v \in Users : ~IsAdmin(table[v])
      BY <1>1, <1>2, <2>2 DEF InFlight, WriteIsCurrent, Exists, Absent, IsAdmin
    <3>2. \E b, c \in Changers : b # c
      BY <1>3, <3>1 DEF IInv, LockoutNeedsTwo
    <3> QED BY <1>2, <3>2 DEF Changers
  <2> QED BY <1>1, <2>1, <2>2
<1>7. \A v \in Users : gone'[v] <= gone[v] /\ (IsAdmin(table'[v]) => gone'[v] = 0)
  BY <1>1, GoneDrops DEF CommitChange
<1>8. req'[r] = Idle /\ \A s \in Requests \ {r} : req'[s] = req[s]
  BY DEF CommitChange, Become, IInv, TypeOK
<1>9. ASSUME NEW s \in Requests, s # r PROVE InFlight(s)'
  <2>1. req'[s] = req[s] /\ InFlight(s)
    BY <1>8, <1>9 DEF IInv
  <2>2. \A b \in Users : ActsFor(s, b)' => Earned(b)'
    BY <1>5, <2>1 DEF InFlight, ActsFor, Writes
  <2>3. OfAnother(s)'
    <3>1. req[s].step \in {"change", "read"} \/ Changes(s) => req[s].target \in Users
      BY Shape DEF IInv, Changes
    <3> QED BY <1>3, <2>1, <3>1 DEF InFlight, OfAnother, Changes, Writes
  <2>4. WriteIsCurrent(s)'
    <3>1. Writes(s) => req[s].target \in Users \ {u}
      BY <1>1, <1>9, Shape DEF IInv, InFlight, Exclusive
    <3> QED BY <1>2, <2>1, <3>1 DEF InFlight, WriteIsCurrent, Creates, Changes, Writes, Exists
  <2>5. Exclusive(s)'
    <3>1. ~Writes(r)'
      BY <1>8 DEF Writes, Idle
    <3> QED BY <1>8, <1>9, <2>1, <3>1 DEF InFlight, Exclusive, Writes
  <2>6. Fades(s)'
    BY <1>7, <2>1, FadesOn
  <2> QED BY <1>3, <2>2, <2>3, <2>4, <2>5, <2>6 DEF InFlight
<1>10. ASSUME NEW v \in Users PROVE Standing(v)'
  <2>1. gone[v] \in 0..Forever /\ gone'[v] \in 0..Forever /\ life[v] \in 0..Ttl
    BY DEF IInv, TypeOK
  <2>2. Authorised(v)' => Earned(v)' /\ gone'[v] + life'[v] <= Ttl + Span
    <3>1. Authorised(v) => Earned(v) /\ gone[v] + life[v] <= Ttl + Span
      BY DEF IInv, Standing
    <3>2. life' = life
      BY DEF CommitChange
    <3> QED BY <1>5, <1>7, <2>1, <3>1, <3>2 DEF Authorised, Forever
  <2> QED BY <1>3, <1>7, <2>2 DEF Standing
<1> QED BY <1>6, <1>8, <1>9, <1>10, IdleIsInFlight DEF IInv

\* The steps of the deployment.
LEMMA DeployStep ==
  ASSUME IInv, TypeOK', Deploy
  PROVE  IInv'
<1> USE ConstantsAssumption
<1>1. CASE Migrate
  <2>1. [role |-> "admin", active |-> TRUE, pw |-> "seeded"] \in Accounts
    BY DEF Accounts, Roles, Passwords
  <2> QED BY <1>1, <2>1, OperatorPuts DEF Migrate, IsAdmin
<1>2. ASSUME NEW u \in Users, RotateAdmin(u) PROVE IInv'
  <2>1. table[u] \in Accounts /\ [table[u] EXCEPT !.pw = "strong"] \in Accounts
    BY <1>2, AccountShape DEF IInv, TypeOK, RotateAdmin, Exists
  <2>2. IsAdmin(table[u]) => IsAdmin([table[u] EXCEPT !.pw = "strong"])
    BY <2>1 DEF IsAdmin, Accounts
  <2>3. Exists(Seeded)
    BY <1>2 DEF IInv, Standing, RotateAdmin
  <2> QED BY <1>2, <2>1, <2>2, <2>3, OperatorPuts DEF RotateAdmin
<1>3. CASE RehashByHand
  <2>1. table[Seeded] \in Accounts /\ [table[Seeded] EXCEPT !.pw = "rehashed"] \in Accounts
    BY <1>3, AccountShape DEF IInv, TypeOK, RehashByHand, Exists
  <2>2. IsAdmin(table[Seeded]) => IsAdmin([table[Seeded] EXCEPT !.pw = "rehashed"])
    BY <2>1 DEF IsAdmin, Accounts
  <2> QED BY <1>3, <2>1, <2>2, OperatorPuts DEF RehashByHand
<1>4. ASSUME NEW p \in BOOLEAN, NEW q \in BOOLEAN, Boot(p, q) PROVE IInv'
  <2>1. \A u \in Users : Authorised(u)' => Authorised(u) /\ life'[u] = life[u]
    BY <1>4 DEF Boot, Authorised, IInv, TypeOK
  <2>2. \A u \in Users : Standing(u)'
    BY <1>4, <2>1 DEF Boot, IInv, Standing, Earned, Fallen, Exists
  <2>3. ASSUME NEW r \in Requests PROVE InFlight(r)'
    <3>1. InFlight(r) /\ req' = req
      BY <1>4 DEF IInv, Boot
    <3>2. \A a \in Users : ActsFor(r, a)' => Earned(a)'
      BY <1>4, <3>1 DEF Boot, InFlight, ActsFor, Writes, Earned, Fallen
    <3>3. OfAnother(r)' /\ WriteIsCurrent(r)' /\ Exclusive(r)' /\ Fades(r)'
      BY <1>4, <3>1 DEF Boot, InFlight, OfAnother, WriteIsCurrent, Exclusive, Fades,
         Creates, Changes, Writes, Exists
    <3> QED BY <1>4, <3>1, <3>2, <3>3 DEF Boot, InFlight, Exists
  <2> QED BY <1>4, <2>2, <2>3 DEF Boot, IInv, LockoutNeedsTwo, Exists, Changers
<1>5. CASE Stop
  <2>1. \A r \in Requests : InFlight(r)'
    <3>1. \A r \in Requests : req'[r] = Idle
      BY <1>5 DEF Stop
    <3> QED BY <3>1, IdleIsInFlight
  <2>2. \A u \in Users : Standing(u)'
    BY <1>5 DEF Stop, IInv, Standing, Authorised, Earned, Fallen, Exists
  <2> QED BY <1>5, <2>1, <2>2 DEF Stop, IInv, LockoutNeedsTwo, Exists, Changers
<1> QED BY <1>1, <1>2, <1>3, <1>4, <1>5 DEF Deploy

\* What is left of a request by a step that sets its record.
LEMMA Became ==
  ASSUME TypeOK, NEW r \in Requests, NEW state, Become(r, state)
  PROVE  req'[r] = state /\ \A s \in Requests \ {r} : req'[s] = req[s]
  BY DEF TypeOK, Become

LEMMA SignInStep ==
  ASSUME IInv, TypeOK', SignIn
  PROVE  IInv'
<1> USE ConstantsAssumption
<1>0. TypeOK
  BY DEF IInv
<1>1. ASSUME NEW r \in Requests, NEW u \in Users, LoginRead(r, u) PROVE IInv'
  <2>1. req'[r] = [step |-> "login", actor |-> u, age |-> 0]
    BY <1>0, <1>1, Became DEF LoginRead
  <2>2. gone[u] = 0 /\ Exists(Seeded)
    BY <1>1 DEF LoginRead, IInv, Standing, Exists, IsAdmin, Absent
  <2>3. InFlight(r)'
    BY <1>1, <2>1, <2>2 DEF LoginRead, InFlight, ActsFor, Earned, OfAnother, WriteIsCurrent,
       Exclusive, Fades, Writes, Creates, Changes, Exists
  <2> QED BY <1>1, <2>3, RequestMoves DEF LoginRead
<1>2. ASSUME NEW r \in Requests, LoginTouch(r) PROVE IInv'
  <2>1. PICK u \in Users : u = req[r].actor
    BY <1>0, <1>2, Shape DEF LoginTouch
  <2>2. /\ req'[r] = [step |-> "written", op |-> "login", target |-> u, ticks |-> Ttl]
        /\ \A s \in Requests \ {r} : req'[s] = req[s]
    BY <1>0, <1>2, <2>1, Became DEF LoginTouch
  <2>3. Earned(u) /\ Exists(Seeded)
    BY <1>2, <2>1 DEF LoginTouch, IInv, InFlight, ActsFor, Idle
  <2>4. gone[u] + Ttl <= Ttl + Span
    <3>1. req[r].age \in 0..Span /\ gone[u] \in 0..Forever /\ gone[u] <= req[r].age
      BY <1>0, <1>2, <2>1, Shape DEF LoginTouch, IInv, InFlight, Fades, TypeOK
    <3> QED BY <3>1 DEF Forever
  <2>5. Exclusive(r)'
    BY <1>2, <2>1, <2>2 DEF LoginTouch, RowLocked, Exclusive, Writes
  <2>6. InFlight(r)'
    BY <1>2, <2>2, <2>3, <2>4, <2>5 DEF LoginTouch, InFlight, ActsFor, Earned, Fallen,
       OfAnother, WriteIsCurrent, Fades, Writes, Creates, Changes, Exists
  <2> QED BY <1>2, <2>6, RequestMoves DEF LoginTouch
<1>3. ASSUME NEW u \in Users, Refresh(u) PROVE IInv'
  <2>1. gone[u] = 0 /\ Exists(Seeded) /\ Earned(u)
    BY <1>3 DEF Refresh, IInv, Standing, Exists, IsAdmin, Absent, Earned
  <2>2. ASSUME NEW v \in Users PROVE Standing(v)'
    <3>1. (Standing(v) /\ life'[v] = life[v]) \/ (v = u /\ life'[v] = Ttl)
      BY <1>0, <1>3 DEF Refresh, Issue, TypeOK, IInv
    <3>2. Standing(v)
      BY DEF IInv
    <3> QED BY <1>3, <2>1, <3>1, <3>2 DEF Refresh, Standing, Authorised, Earned, Fallen, Exists
  <2>3. ASSUME NEW r \in Requests PROVE InFlight(r)'
    <3>1. InFlight(r) /\ req' = req
      BY <1>3 DEF IInv, Refresh
    <3>2. \A a \in Users : ActsFor(r, a)' => Earned(a)'
      BY <1>3, <3>1 DEF Refresh, InFlight, ActsFor, Writes, Earned, Fallen
    <3>3. OfAnother(r)' /\ WriteIsCurrent(r)' /\ Exclusive(r)' /\ Fades(r)'
      BY <1>3, <3>1 DEF Refresh, InFlight, OfAnother, WriteIsCurrent, Exclusive, Fades,
         Creates, Changes, Writes, Exists
    <3> QED BY <1>3, <3>1, <3>2, <3>3 DEF Refresh, InFlight, Exists
  <2> QED BY <1>3, <2>2, <2>3 DEF Refresh, IInv, LockoutNeedsTwo, Exists, Changers
<1> QED BY <1>1, <1>2, <1>3 DEF SignIn

\* A request that writes an account it has locked.
LEMMA WriterIsInFlight ==
  ASSUME IInv, NEW r \in Requests, NEW u \in Users, NEW op \in {"create", "change"},
         NEW state, Written(r, op, u, state), ~RowLocked(u),
         UNCHANGED <<table, audit, life, gone>>,
         req[r].actor \in Users, ActsFor(r, req[r].actor),
         op = "create" => ~Exists(u) /\ state.pw = "strong",
         op = "change" => Exists(u) /\ req[r].actor # u /\ state.pw = table[u].pw
  PROVE  InFlight(r)'
<1>1. PICK a \in Users : a = req[r].actor
  OBVIOUS
<1>2. /\ req'[r] = [step |-> "written", op |-> op, actor |-> a, target |-> u,
                     state |-> state]
      /\ \A s \in Requests \ {r} : req'[s] = req[s]
  BY <1>1, Became DEF IInv, Written
<1>3. Earned(a) /\ Exists(Seeded)
  <2>1. req[r] # Idle
    BY DEF ActsFor, Writes, Idle
  <2> QED BY <1>1, <2>1 DEF IInv, InFlight
<1>4. Exclusive(r)'
  BY <1>2 DEF RowLocked, Exclusive, Writes
<1>5. OfAnother(r)' /\ WriteIsCurrent(r)'
  BY <1>1, <1>2 DEF OfAnother, WriteIsCurrent, Creates, Changes, Writes, Exists
<1> QED BY <1>2, <1>3, <1>4, <1>5 DEF InFlight, ActsFor, Earned, Fallen, Fades, Writes, Exists

LEMMA AdministerStep ==
  ASSUME IInv, TypeOK', Administer
  PROVE  IInv'
<1>0. TypeOK
  BY DEF IInv
<1>1. ASSUME NEW r \in Requests, NEW a \in Users, NEW u \in Users, CreateRead(r, a, u)
      PROVE IInv'
  <2>1. req'[r] = [step |-> "create", actor |-> a, target |-> u]
    BY <1>0, <1>1, Became DEF CreateRead
  <2>2. Earned(a) /\ Exists(Seeded)
    BY <1>1 DEF CreateRead, IInv, Standing
  <2>3. InFlight(r)'
    BY <1>1, <2>1, <2>2 DEF CreateRead, InFlight, ActsFor, Earned, Fallen, OfAnother,
       WriteIsCurrent, Exclusive, Fades, Writes, Creates, Changes, Exists
  <2> QED BY <1>1, <2>3, RequestMoves DEF CreateRead
<1>2. ASSUME NEW r \in Requests, NEW a \in Users, NEW u \in Users, Change(r, a, u)
      PROVE IInv'
  <2>1. req'[r] = [step |-> "change", actor |-> a, target |-> u]
    BY <1>0, <1>2, Became DEF Change
  <2>2. Earned(a) /\ Exists(Seeded)
    BY <1>2 DEF Change, IInv, Standing
  <2>3. InFlight(r)'
    BY <1>2, <2>1, <2>2 DEF Change, InFlight, ActsFor, Earned, Fallen, OfAnother,
       WriteIsCurrent, Exclusive, Fades, Writes, Creates, Changes, Exists
  <2> QED BY <1>2, <2>3, RequestMoves DEF Change
<1>3. ASSUME NEW r \in Requests, NEW role \in Roles, CreateInsert(r, role) PROVE IInv'
  <2>1. req[r].actor \in Users /\ req[r].target \in Users /\ ActsFor(r, req[r].actor)
    BY <1>0, <1>3, Shape DEF CreateInsert, ActsFor
  <2>2. CASE Exists(req[r].target)
    BY <1>0, <1>3, <2>2, Became, IdleIsInFlight, RequestMoves DEF CreateInsert
  <2>3. CASE ~Exists(req[r].target)
    BY <1>3, <2>1, <2>3, WriterIsInFlight, RequestMoves DEF CreateInsert, Written
  <2> QED BY <2>2, <2>3
<1>4. ASSUME NEW r \in Requests, NEW role \in Roles, NEW act \in BOOLEAN,
             UpdateWrite(r, role, act)
      PROVE IInv'
  <2>1. /\ req[r].actor \in Users /\ req[r].target \in Users /\ ActsFor(r, req[r].actor)
        /\ Exists(req[r].target) /\ req[r].actor # req[r].target
    BY <1>0, <1>4, Shape DEF UpdateWrite, ActsFor, IInv, InFlight, OfAnother
  <2>2. table[req[r].target] \in Accounts
    BY <2>1 DEF IInv, TypeOK, Exists
  <2>3. [table[req[r].target] EXCEPT !.role = role, !.active = act].pw = table[req[r].target].pw
    BY <2>2 DEF Accounts
  <2> QED BY <1>4, <2>1, <2>3, WriterIsInFlight, RequestMoves DEF UpdateWrite, Written
<1>5. ASSUME NEW r \in Requests, UpdateNothing(r) PROVE IInv'
  <2>1. PICK a \in Users, u \in Users : a = req[r].actor /\ u = req[r].target
    BY <1>0, <1>5, Shape DEF UpdateNothing
  <2>2. req[r] = [step |-> "change", actor |-> a, target |-> u]
    BY <1>0, <1>5, <2>1 DEF UpdateNothing, TypeOK, Idle, Waiting, Writing
  <2>3. req'[r] = [step |-> "read", actor |-> a, target |-> u]
    BY <1>0, <1>5, <2>2, Became DEF UpdateNothing
  <2>4. Earned(a) /\ Exists(Seeded) /\ Exists(u) /\ a # u
    BY <2>2 DEF IInv, InFlight, ActsFor, OfAnother, Idle
  <2>5. InFlight(r)'
    BY <1>5, <2>3, <2>4 DEF UpdateNothing, InFlight, ActsFor, Earned, Fallen, OfAnother,
       WriteIsCurrent, Exclusive, Fades, Writes, Creates, Changes, Exists
  <2> QED BY <1>5, <2>5, RequestMoves DEF UpdateNothing
<1>6. ASSUME NEW r \in Requests, DeleteWrite(r) PROVE IInv'
  <2>1. /\ req[r].actor \in Users /\ req[r].target \in Users /\ ActsFor(r, req[r].actor)
        /\ Exists(req[r].target) /\ req[r].actor # req[r].target
    BY <1>0, <1>6, Shape DEF DeleteWrite, ActsFor, IInv, InFlight, OfAnother
  <2>2. table[req[r].target] \in Accounts
    BY <2>1 DEF IInv, TypeOK, Exists
  <2>3. [table[req[r].target] EXCEPT !.active = FALSE].pw = table[req[r].target].pw
    BY <2>2 DEF Accounts
  <2> QED BY <1>6, <2>1, <2>3, WriterIsInFlight, RequestMoves DEF DeleteWrite, Written
<1> QED BY <1>1, <1>2, <1>3, <1>4, <1>5, <1>6 DEF Administer

\* A tick takes from every token and login what it adds to the time since.
LEMMA TickStep ==
  ASSUME IInv, TypeOK', Tick
  PROVE  IInv'
<1> USE ConstantsAssumption
<1>1. UNCHANGED <<table, audit>>
  BY DEF Tick
<1>2. ASSUME NEW u \in Users
      PROVE  /\ life[u] \in 0..Ttl /\ life'[u] = Less(life[u])
             /\ gone[u] \in 0..Forever /\ gone'[u] \in 0..Forever
             /\ gone'[u] <= gone[u] + 1
             /\ IsAdmin(table[u]) => gone'[u] = gone[u]
  BY DEF Tick, IInv, TypeOK, Forever
<1>3. \A a \in Users : Earned(a) => Earned(a)'
  BY <1>1 DEF Earned, Fallen
<1>4. ASSUME NEW u \in Users PROVE Standing(u)'
  <2>1. Standing(u)
    BY DEF IInv
  <2>2. Authorised(u)' => Authorised(u) /\ life[u] = life'[u] + 1
    BY <1>2 DEF Authorised, Less
  <2>3. ASSUME Authorised(u)' PROVE gone'[u] + life'[u] <= Ttl + Span
    <3>1. gone[u] + life[u] <= Ttl + Span /\ life[u] = life'[u] + 1
      BY <2>1, <2>2, <2>3 DEF Standing
    <3>2. gone[u] \in Int /\ gone'[u] \in Int /\ life'[u] \in Int /\ gone'[u] <= gone[u] + 1
      BY <1>2 DEF Forever, Less
    <3> QED BY <3>1, <3>2
  <2> QED BY <1>1, <1>2, <1>3, <2>1, <2>2, <2>3 DEF Standing, Exists
<1>5. ASSUME NEW r \in Requests
      PROVE  /\ req[r].step = "login" => req'[r] = [req[r] EXCEPT !.age = @ + 1]
             /\ Writes(r) /\ req[r].op = "login" =>
                   req'[r] = [req[r] EXCEPT !.ticks = Less(@)]
             /\ req[r].step # "login" /\ ~(Writes(r) /\ req[r].op = "login") =>
                   req'[r] = req[r]
  BY DEF Tick, Writes
<1>6. ASSUME NEW r \in Requests
      PROVE  /\ req'[r].step = req[r].step
             /\ req[r].step \in {"login", "create", "change", "read"} =>
                   req'[r].actor = req[r].actor
             /\ req[r].step \in {"change", "read"} => req'[r].target = req[r].target
             /\ Writes(r) => req'[r].op = req[r].op /\ req'[r].target = req[r].target
             /\ Writes(r) /\ req[r].op # "login" => req'[r] = req[r]
             /\ req[r] = Idle => req'[r] = Idle
  <2>1. req[r] \in {Idle} \cup Waiting \cup Writing
    BY DEF IInv, TypeOK
  <2>2. CASE req[r].step = "login"
    <3>1. req[r] \in [step : {"login"}, actor : Users, age : 0..Span]
      BY <2>1, <2>2 DEF Idle, Waiting, Writing
    <3>2. req'[r] = [req[r] EXCEPT !.age = @ + 1]
      BY <1>5, <2>2
    <3> QED BY <2>2, <3>1, <3>2 DEF Writes, Idle
  <2>3. CASE Writes(r) /\ req[r].op = "login"
    <3>1. req[r] \in [step : {"written"}, op : {"login"}, target : Users, ticks : 0..Ttl]
      BY <2>1, <2>3 DEF Idle, Waiting, Writing, Writes
    <3>2. req'[r] = [req[r] EXCEPT !.ticks = Less(@)]
      BY <1>5, <2>3 DEF Writes
    <3> QED BY <2>3, <3>1, <3>2 DEF Writes, Idle
  <2>4. CASE req[r].step # "login" /\ ~(Writes(r) /\ req[r].op = "login")
    BY <1>5, <2>4
  <2> QED BY <2>2, <2>3, <2>4
<1>7. ASSUME NEW r \in Requests PROVE InFlight(r)'
  <2>1. InFlight(r)
    BY DEF IInv
  <2>2. \A a \in Users : ActsFor(r, a)' => Earned(a)'
    BY <1>3, <1>6, <2>1 DEF InFlight, ActsFor, Writes
  <2>3. OfAnother(r)' /\ WriteIsCurrent(r)'
    BY <1>1, <1>6, <2>1 DEF InFlight, OfAnother, WriteIsCurrent, Creates, Changes, Writes, Exists
  <2>4. Exclusive(r)'
    BY <1>6, <2>1 DEF InFlight, Exclusive, Writes
  <2>5. Fades(r)'
    <3>1. CASE req[r].step = "login"
      <4>1. /\ req[r].actor \in Users /\ req[r].age \in 0..Span
            /\ gone[req[r].actor] <= req[r].age
        BY <2>1, <3>1, Shape DEF IInv, InFlight, Fades
      <4>2. req'[r].age = req[r].age + 1 /\ req'[r].actor = req[r].actor
        <5>1. req[r] \in [step : {"login"}, actor : Users, age : 0..Span]
          BY <3>1 DEF IInv, TypeOK, Idle, Waiting, Writing
        <5>2. req'[r] = [req[r] EXCEPT !.age = @ + 1]
          BY <1>5, <3>1
        <5> QED BY <5>1, <5>2
      <4> QED BY <1>2, <1>6, <3>1, <4>1, <4>2 DEF Fades, Writes, Forever
    <3>2. CASE Writes(r) /\ req[r].op = "login"
      <4>1. /\ req[r].target \in Users /\ req[r].ticks \in 0..Ttl
            /\ req[r].ticks > 0 => gone[req[r].target] + req[r].ticks <= Ttl + Span
        BY <2>1, <3>2, Shape DEF IInv, InFlight, Fades
      <4>2. req'[r].ticks = Less(req[r].ticks) /\ req'[r].target = req[r].target
        <5>1. req[r] \in [step : {"written"}, op : {"login"}, target : Users, ticks : 0..Ttl]
          BY <3>2 DEF IInv, TypeOK, Idle, Waiting, Writing, Writes
        <5>2. req'[r] = [req[r] EXCEPT !.ticks = Less(@)]
          BY <1>5, <3>2 DEF Writes
        <5> QED BY <5>1, <5>2
      <4> QED BY <1>2, <1>6, <3>2, <4>1, <4>2 DEF Fades, Writes, Forever, Less
    <3> QED BY <1>6, <3>1, <3>2 DEF Fades, Writes
  <2> QED BY <1>1, <1>6, <2>1, <2>2, <2>3, <2>4, <2>5 DEF InFlight, Exists
<1>8. LockoutNeedsTwo'
  BY <1>1 DEF IInv, LockoutNeedsTwo, Exists, Changers
<1> QED BY <1>4, <1>7, <1>8 DEF IInv

LEMMA StepIInv == IInv /\ [Next]_vars => IInv'
<1> SUFFICES ASSUME IInv, [Next]_vars PROVE IInv'
  OBVIOUS
<1>1. TypeOK'
  BY TypeStep DEF IInv, InFlight
<1>2. ASSUME NEW r \in Requests, Abort(r) PROVE IInv'
  BY <1>1, <1>2, Became, IdleIsInFlight, RequestMoves DEF Abort, IInv
<1>3. CASE UNCHANGED vars
  <2>1. ASSUME NEW r \in Requests PROVE InFlight(r)'
    BY <1>3 DEF vars, IInv, InFlight, ActsFor, Earned, Fallen, OfAnother, WriteIsCurrent,
       Exclusive, Fades, Writes, Creates, Changes, Exists
  <2>2. ASSUME NEW u \in Users PROVE Standing(u)'
    BY <1>3 DEF vars, IInv, Standing, Authorised, Earned, Fallen, Exists
  <2> QED BY <1>1, <1>3, <2>1, <2>2 DEF vars, IInv, LockoutNeedsTwo, Exists, Changers
<1> QED
  BY <1>1, <1>2, <1>3, DeployStep, SignInStep, AdministerStep, CommitLoginStep,
     CommitChangeStep, CommitNothingStep, TickStep
  DEF Next

LEMMA InvariantHolds == Spec => []IInv
  BY InitIInv, StepIInv, PTL DEF Spec

-----------------------------------------------------------------------------
(* Theorems *)

\* Every reachable state is well typed.
THEOREM TypeCorrect == Spec => []TypeOK
<1>1. IInv => TypeOK
  BY DEF IInv
<1> QED BY <1>1, InvariantHolds, PTL

\* An access token that verifies dies at most a token's life and the length of
\* one login after its user was last an active administrator.
THEOREM AuthorityDies == Spec => []AuthorityFades
<1>1. IInv => AuthorityFades
  BY DEF IInv, Standing, AuthorityFades
<1> QED BY <1>1, InvariantHolds, PTL

\* A panel that had an administrator loses the last one only through two people.
THEOREM NobodyLocksOutAlone == Spec => []LockoutNeedsTwo
<1>1. IInv => LockoutNeedsTwo
  BY DEF IInv
<1> QED BY <1>1, InvariantHolds, PTL

\* What every step does to the password of an account.
LEMMA PasswordsStay ==
  ASSUME IInv, [Next]_vars, NEW u \in Users, table[u].pw = "strong"
  PROVE  table'[u].pw = "strong"
<1>1. table \in [Users -> Accounts \cup {Absent}] /\ Exists(u)
  BY DEF IInv, TypeOK, Exists, Absent
<1>2. ASSUME NEW v \in Users, NEW state \in Accounts, Put(v, state), v = u => state.pw = "strong"
      PROVE  table'[u].pw = "strong"
  BY <1>1, <1>2 DEF Put
<1>3. CASE Migrate
  <2>1. Seeded # u
    BY <1>1, <1>3 DEF Migrate
  <2> QED BY <1>1, <1>3, <2>1 DEF Migrate, Put
<1>4. ASSUME NEW v \in Users, RotateAdmin(v) PROVE table'[u].pw = "strong"
  BY <1>1, <1>4 DEF RotateAdmin, Put
<1>5. CASE RehashByHand
  <2>1. Seeded # u
    BY <1>5 DEF RehashByHand
  <2> QED BY <1>1, <1>5, <2>1 DEF RehashByHand, Put
<1>6. ASSUME NEW r \in Requests, CommitChange(r) PROVE table'[u].pw = "strong"
  <2>1. /\ req[r].target \in Users /\ req[r].state \in Accounts
        /\ Creates(r) \/ Changes(r)
    BY <1>6, Shape DEF IInv, CommitChange, Writes, Creates, Changes
  <2>2. req[r].target = u => req[r].state.pw = "strong"
    BY <1>1, <2>1 DEF IInv, InFlight, WriteIsCurrent
  <2> QED BY <1>2, <1>6, <2>1, <2>2 DEF CommitChange
<1>7. CASE UNCHANGED table
  BY <1>7
<1> QED
  BY <1>3, <1>4, <1>5, <1>6, <1>7
  DEF Next, Deploy, SignIn, Administer, Boot, Stop, LoginRead, LoginTouch, Refresh,
      CreateRead, CreateInsert, Change, UpdateWrite, UpdateNothing, DeleteWrite,
      CommitLogin, CommitNothing, Abort, Tick, vars

\* No migration, administrator or concurrent request puts a rotated password back.
THEOREM RotationsAreFinal == Spec => RotationIsFinal
<1>1. IInv /\ [Next]_vars =>
        [\A u \in Users : table[u].pw = "strong" => table'[u].pw = "strong"]_vars
  BY PasswordsStay
<1> QED BY <1>1, InvariantHolds, PTL DEF Spec, RotationIsFinal

\* A start that looks at the seeded account never begins to expose it, and
\* nothing else does while the account is there and enabled.
THEOREM ExposuresAreExplained == Spec => ExposureIsExplained
<1>1. ASSUME IInv, [Next]_vars, ~Exposed, Exposed',
             Exists(Seeded), IsAdmin(table[Seeded])
      PROVE  unchecked'
  <2>1. table[Seeded].pw # "strong" /\ ~serving /\ serving'
    BY <1>1, PasswordsStay, ConstantsAssumption DEF Exposed
  <2>2. \E reachable, newSecret \in BOOLEAN : Boot(reachable, newSecret)
    BY <1>1, <2>1
    DEF Next, Deploy, SignIn, Administer, Migrate, RotateAdmin, RehashByHand, Stop,
        LoginRead, LoginTouch, Refresh, CreateRead, CreateInsert, Change, UpdateWrite,
        UpdateNothing, DeleteWrite, CommitLogin, CommitChange, CommitNothing, Abort,
        Tick, panel, vars
  <2>3. ~GuardPasses
    BY <1>1, <2>1 DEF GuardPasses, IsAdmin
  <2> QED BY <2>2, <2>3 DEF Boot
<1>2. IInv /\ [Next]_vars =>
        [~Exposed /\ Exposed' =>
            unchecked' \/ ~Exists(Seeded) \/ ~IsAdmin(table[Seeded])]_vars
  BY <1>1
<1> QED BY <1>2, InvariantHolds, PTL DEF Spec, ExposureIsExplained
=============================================================================
