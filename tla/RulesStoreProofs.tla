--------------------------- MODULE RulesStoreProofs ---------------------------
(***************************************************************************)
(* Theorems about RulesStore, for every set of keys, ids and requests and   *)
(* all payloads and operations.                                             *)
(***************************************************************************)
EXTENDS RulesStore, SequenceTheorems, TLAPS

-----------------------------------------------------------------------------
(* The inductive invariant.  UniqueKeys is not inductive: that a commit       *)
(* brings no key twice follows from what the index let the INSERTs take.      *)

\* What each step of a handler knows of its request.
Staged(r) ==
    /\ pc[r] = "idle" => made[r] = {}
    /\ pc[r] # "idle" => op[r] # "none"
    /\ op[r] \in {"update", "delete"} =>
          /\ made[r] = {} /\ pc[r] \notin {"scan", "recheck", "insert"}
          /\ target[r] \in Ids /\ <<"rule.create", target[r]>> \in audit
    /\ pc[r] = "insert" => \A i \in Ids : <<i, Head(todo[r])>> \notin made[r]

\* A pending row has an id and a key that are new to the committed tables ...
Pending(r) ==
    \A i \in Ids, k \in Keys :
        <<i, k>> \in made[r] =>
            /\ table[i] = NoKey /\ ~Committed(k)
            /\ \A a \in audit : a[2] # i

\* ... and shares neither with another pending row.
Distinct ==
    \A r, s \in Requests, i, j \in Ids, k, l \in Keys :
        <<i, k>> \in made[r] /\ <<j, l>> \in made[s] /\ (i = j \/ k = l)
            => r = s /\ i = j /\ k = l

IInv ==
    /\ TypeOK
    /\ UniqueKeys
    /\ TrailGivesTable
    /\ \A r \in Requests : Staged(r) /\ Pending(r)
    /\ Distinct

LEMMA InitIInv == Init => IInv
<1> USE ConstantsAssumption
<1> SUFFICES ASSUME Init PROVE IInv
  OBVIOUS
<1>1. TypeOK
  BY DEF Init, TypeOK
<1>2. UniqueKeys /\ Distinct
  BY DEF Init, UniqueKeys, Distinct
<1>3. TrailGivesTable
  BY DEF Init, TrailGivesTable, Logged
<1>4. \A r \in Requests : Staged(r) /\ Pending(r)
  BY DEF Init, Staged, Pending
<1> QED BY <1>1, <1>2, <1>3, <1>4 DEF IInv

-----------------------------------------------------------------------------
(* Steps that leave the tables alone *)

\* Only r moves.
Alone(r) ==
    /\ table' = table /\ audit' = audit
    /\ \A s \in Requests \ {r} :
          /\ op'[s] = op[s] /\ pc'[s] = pc[s] /\ todo'[s] = todo[s]
          /\ target'[s] = target[s] /\ made'[s] = made[s]

LEMMA OneMoves ==
  ASSUME IInv, NEW r \in Requests, Alone(r), TypeOK', Staged(r)',
         made'[r] \subseteq made[r]
  PROVE  IInv'
<1>1. UniqueKeys' /\ TrailGivesTable'
  BY DEF Alone, IInv, UniqueKeys, TrailGivesTable, Logged
<1>2. \A s \in Requests : made'[s] \subseteq made[s]
  BY DEF Alone
<1>3. ASSUME NEW s \in Requests PROVE Pending(s)'
  BY <1>2 DEF Alone, IInv, Pending, Committed
<1>4. ASSUME NEW s \in Requests PROVE Staged(s)'
  <2>1. CASE s = r
    BY <2>1
  <2>2. CASE s # r
    BY <2>2 DEF Alone, IInv, Staged
  <2> QED BY <2>1, <2>2
<1>5. Distinct'
  <2>1. ASSUME NEW s \in Requests, NEW i \in Ids, NEW k \in Keys
        PROVE  <<i, k>> \in made'[s] => <<i, k>> \in made[s]
    BY <1>2
  <2> QED BY <2>1 DEF IInv, Distinct
<1> QED BY <1>1, <1>3, <1>4, <1>5 DEF IInv

LEMMA BeginTypes ==
  ASSUME TypeOK, NEW r \in Requests, NEW o \in Operations,
         NEW step \in {"insert", "scan", "flush", "returned"}, NEW ks \in Seq(Keys),
         NEW i \in Ids \cup {NoId}, Begin(r, o, step, ks, i),
         step = "insert" => ks # <<>>
  PROVE  /\ TypeOK' /\ Alone(r)
         /\ pc[r] = "idle" /\ op'[r] = o /\ pc'[r] = step /\ todo'[r] = ks
         /\ target'[r] = i /\ made' = made
<1>1. /\ op' \in [Requests -> Operations \cup {"none"}]
      /\ pc' \in [Requests -> {"idle", "scan", "recheck", "insert", "flush", "returned",
                            "integrity_error", "stale_data_error", "deadlock_error"}]
      /\ target' \in [Requests -> Ids \cup {NoId}]
      /\ table' = table /\ audit' = audit /\ made' = made
      /\ pc[r] = "idle"
  BY DEF Begin, TypeOK
<1>2. /\ todo' \in [Requests -> Seq(Keys)]
      /\ todo'[r] = ks /\ pc'[r] = step /\ \A s \in Requests \ {r} : todo'[s] = todo[s]
  BY DEF Begin, TypeOK
<1>3. \A s \in Requests : pc'[s] = "insert" => todo'[s] # <<>>
  BY <1>2 DEF Begin, TypeOK
<1> QED BY <1>1, <1>2, <1>3 DEF Begin, TypeOK, Alone

LEMMA OverEffect ==
  ASSUME TypeOK, NEW r \in Requests, Over(r)
  PROVE  /\ op' \in [Requests -> Operations \cup {"none"}]
         /\ pc' \in [Requests -> {"idle", "scan", "recheck", "insert", "flush", "returned",
                               "integrity_error", "stale_data_error", "deadlock_error"}]
         /\ target' \in [Requests -> Ids \cup {NoId}]
         /\ made' \in [Requests -> SUBSET (Ids \X Keys)]
         /\ todo' \in [Requests -> Seq(Keys)]
         /\ \A s \in Requests : pc'[s] = "insert" => todo'[s] # <<>>
         /\ op'[r] = "none" /\ pc'[r] = "idle" /\ made'[r] = {}
         /\ \A s \in Requests \ {r} :
              /\ op'[s] = op[s] /\ pc'[s] = pc[s] /\ todo'[s] = todo[s]
              /\ target'[s] = target[s] /\ made'[s] = made[s]
<1>1. <<>> \in Seq(Keys)
  BY EmptySeq
<1> QED BY <1>1 DEF Over, TypeOK

\* A request begins: what it read is committed.
LEMMA StepArrive ==
  ASSUME IInv, NEW r \in Requests, Arrive(r)
  PROVE  IInv'
<1> USE ConstantsAssumption
<1>1. CASE \E k \in Keys : Create(r, k)
  <2>1. PICK k \in Keys : Begin(r, "create", "insert", <<k>>, NoId)
    BY <1>1 DEF Create
  <2>2. <<k>> \in Seq(Keys) /\ <<k>> # <<>>
    OBVIOUS
  <2>3. /\ TypeOK' /\ Alone(r) /\ pc[r] = "idle" /\ op'[r] = "create"
        /\ pc'[r] = "insert" /\ made' = made
    BY <2>1, <2>2, BeginTypes DEF IInv, Operations
  <2>4. Staged(r)'
    BY <2>3 DEF IInv, Staged
  <2> QED BY <2>3, <2>4, OneMoves
<1>2. CASE \E p \in Payloads : Bulk(r, p)
  <2>1. PICK p \in Payloads : Begin(r, "bulk", "scan", WithoutDuplicates(p), NoId)
    BY <1>2 DEF Bulk
  <2>2. /\ TypeOK' /\ Alone(r) /\ pc[r] = "idle" /\ op'[r] = "bulk"
        /\ pc'[r] = "scan" /\ made' = made
    BY <2>1, PayloadsAssumption, BeginTypes DEF IInv, Operations
  <2>3. Staged(r)'
    BY <2>2 DEF IInv, Staged
  <2> QED BY <2>2, <2>3, OneMoves
<1>3. ASSUME NEW i \in Ids, NEW o \in {"update", "delete"}, NEW step \in {"flush", "returned"},
             table[i] # NoKey, Begin(r, o, step, <<>>, i)
      PROVE  IInv'
  <2>1. <<>> \in Seq(Keys)
    BY EmptySeq
  <2>2. /\ TypeOK' /\ Alone(r) /\ pc[r] = "idle" /\ op'[r] = o /\ target'[r] = i
        /\ pc'[r] = step /\ made' = made
    <3>1. /\ o \in Operations /\ step \in {"insert", "scan", "flush", "returned"}
          /\ step # "insert" /\ i \in Ids \cup {NoId}
      BY DEF Operations
    <3>2. PICK ks \in Seq(Keys) : ks = <<>>
      BY <2>1
    <3>3. TypeOK /\ Begin(r, o, step, ks, i)
      BY <1>3, <3>2 DEF IInv
    <3> QED BY <3>1, <3>3, BeginTypes
  <2>3. <<"rule.create", i>> \in audit
    BY <1>3 DEF IInv, TrailGivesTable, Logged
  <2>4. made[r] = {}
    BY <2>2 DEF IInv, Staged
  <2>5. /\ made'[r] = {} /\ target'[r] \in Ids /\ <<"rule.create", target'[r]>> \in audit'
        /\ op'[r] \in {"update", "delete"} /\ pc'[r] \in {"flush", "returned"}
    BY <2>2, <2>3, <2>4 DEF Alone
  <2>6. Staged(r)'
    BY <2>5 DEF Staged
  <2> QED BY <2>2, <2>6, OneMoves
<1>4. CASE \E i \in Ids : UpdateRead(r, i)
  BY <1>3, <1>4 DEF UpdateRead
<1>5. CASE \E i \in Ids : DeleteRead(r, i)
  BY <1>3, <1>5 DEF DeleteRead
<1> QED BY <1>1, <1>2, <1>4, <1>5 DEF Arrive

\* A step that only changes where the request stands.
LEMMA GotoMoves ==
  ASSUME IInv, NEW r \in Requests, pc[r] # "idle",
         NEW step \in {"returned", "integrity_error", "stale_data_error", "deadlock_error"},
         Goto(r, step), UNCHANGED <<table, audit, op, todo, target, made>>
  PROVE  IInv'
<1>1. Alone(r) /\ pc'[r] = step
  BY DEF Goto, IInv, TypeOK, Alone
<1>2. TypeOK'
  BY DEF Goto, IInv, TypeOK
<1>3. Staged(r)'
  BY <1>1 DEF IInv, Staged, Alone
<1> QED BY <1>1, <1>2, <1>3, OneMoves

LEMMA StepBulkCheck ==
  ASSUME IInv, NEW r \in Requests, BulkCheck(r)
  PROVE  IInv'
<1> DEFINE k == Head(todo[r])
<1>1. /\ pc[r] \in {"scan", "recheck"} /\ todo[r] # <<>> /\ todo[r] \in Seq(Keys)
      /\ op[r] \notin {"update", "delete"} /\ op[r] # "none"
  BY DEF BulkCheck, IInv, TypeOK, Staged
<1>2. k \in Keys /\ Tail(todo[r]) \in Seq(Keys)
  BY <1>1, HeadTailProperties
<1>3. CASE Visible(r, k)
  <2>1. /\ Goto(r, "scan") /\ todo' = [todo EXCEPT ![r] = Tail(todo[r])]
        /\ UNCHANGED <<table, audit, op, target, made>>
    BY <1>3 DEF BulkCheck
  <2>2. TypeOK' /\ Alone(r) /\ pc'[r] = "scan"
    BY <1>2, <2>1 DEF Goto, IInv, TypeOK, Alone
  <2>3. Staged(r)'
    BY <1>1, <2>1, <2>2 DEF Staged
  <2> QED BY <2>1, <2>2, <2>3, OneMoves
<1>4. CASE ~Visible(r, k)
  <2>1. PICK step \in {"recheck", "insert"} : Goto(r, step)
    BY <1>4 DEF BulkCheck
  <2>2. UNCHANGED <<table, audit, op, todo, target, made>>
    BY <1>4 DEF BulkCheck
  <2>3. TypeOK' /\ Alone(r) /\ pc'[r] = step
    BY <1>1, <2>1, <2>2 DEF Goto, IInv, TypeOK, Alone
  <2>4. \A i \in Ids : <<i, k>> \notin made[r]
    BY <1>4 DEF Visible
  <2>5. Staged(r)'
    BY <1>1, <2>2, <2>3, <2>4 DEF Staged
  <2> QED BY <2>2, <2>3, <2>5, OneMoves
<1> QED BY <1>3, <1>4

-----------------------------------------------------------------------------
(* The INSERT *)

\* The index and the id's default give a pair that shares nothing with others.
LEMMA StepInsert ==
  ASSUME IInv, NEW r \in Requests, Insert(r)
  PROVE  IInv'
<1> USE ConstantsAssumption
<1>1. PICK n \in FreshIds : FreshId = n
  BY DEF Insert, FreshId
<1>2. PICK k : k = Head(todo[r])
  OBVIOUS
<1>3. /\ pc[r] = "insert" /\ todo[r] # <<>> /\ todo[r] \in Seq(Keys)
      /\ op[r] \notin {"update", "delete"} /\ op[r] # "none"
      /\ \A i \in Ids : <<i, k>> \notin made[r]
  BY <1>2 DEF Insert, IInv, TypeOK, Staged
<1>4. k \in Keys /\ Tail(todo[r]) \in Seq(Keys)
  BY <1>2, <1>3, HeadTailProperties
<1>5. /\ ~Committed(k)
      /\ \A s \in Requests \ {r} : \A i \in Ids : <<i, k>> \notin made[s]
  BY <1>2 DEF Insert, Inserters
<1>6. /\ n \in Ids /\ table[n] = NoKey /\ \A a \in audit : a[2] # n
      /\ \A s \in Requests : \A l \in Keys : <<n, l>> \notin made[s]
  BY DEF FreshIds
<1>7. PICK step \in {"scan", "returned"} : Goto(r, step)
  BY DEF Insert
<1>8. /\ made' = [made EXCEPT ![r] = made[r] \cup {<<n, k>>}]
      /\ todo' = [todo EXCEPT ![r] = Tail(todo[r])]
      /\ UNCHANGED <<table, audit, op, target>>
  BY <1>1, <1>2 DEF Insert
<1>9. /\ pc' \in [Requests -> {"idle", "scan", "recheck", "insert", "flush", "returned",
                            "integrity_error", "stale_data_error", "deadlock_error"}]
      /\ pc'[r] = step /\ \A s \in Requests \ {r} : pc'[s] = pc[s]
  BY <1>7 DEF Goto, IInv, TypeOK
<1>10. /\ made' \in [Requests -> SUBSET (Ids \X Keys)]
       /\ made'[r] = made[r] \cup {<<n, k>>}
       /\ \A s \in Requests \ {r} : made'[s] = made[s]
  BY <1>4, <1>6, <1>8 DEF IInv, TypeOK
<1>11. /\ todo' \in [Requests -> Seq(Keys)]
       /\ \A s \in Requests \ {r} : todo'[s] = todo[s]
  BY <1>4, <1>8 DEF IInv, TypeOK
<1>12. TypeOK'
  BY <1>8, <1>9, <1>10, <1>11 DEF IInv, TypeOK
<1>13. UniqueKeys' /\ TrailGivesTable'
  BY <1>8 DEF IInv, UniqueKeys, TrailGivesTable, Logged
<1>14. ASSUME NEW s \in Requests PROVE Staged(s)'
  <2>1. CASE s = r
    BY <1>3, <1>8, <1>9, <2>1 DEF Staged
  <2>2. CASE s # r
    BY <1>8, <1>9, <1>10, <1>11, <2>2 DEF IInv, Staged
  <2> QED BY <2>1, <2>2
<1>15. ASSUME NEW s \in Requests, NEW i \in Ids, NEW l \in Keys, <<i, l>> \in made'[s]
       PROVE  <<i, l>> \in made[s] \/ (s = r /\ i = n /\ l = k)
  BY <1>10, <1>15
<1>16. ASSUME NEW s \in Requests PROVE Pending(s)'
  <2>1. Committed(k)' = Committed(k) /\ \A l \in Keys : Committed(l)' = Committed(l)
    BY <1>8 DEF Committed
  <2> QED BY <1>5, <1>6, <1>8, <1>15, <2>1 DEF IInv, Pending
<1>17. Distinct'
  <2> SUFFICES ASSUME NEW s \in Requests, NEW t \in Requests, NEW i \in Ids, NEW j \in Ids,
                      NEW l \in Keys, NEW m \in Keys,
                      <<i, l>> \in made'[s], <<j, m>> \in made'[t], i = j \/ l = m
               PROVE  s = t /\ i = j /\ l = m
    BY DEF Distinct
  <2>1. CASE <<i, l>> \in made[s] /\ <<j, m>> \in made[t]
    BY <2>1 DEF IInv, Distinct
  <2>2. CASE <<i, l>> \in made[s] /\ t = r /\ j = n /\ m = k
    BY <1>3, <1>5, <1>6, <2>2
  <2>3. CASE <<j, m>> \in made[t] /\ s = r /\ i = n /\ l = k
    BY <1>3, <1>5, <1>6, <2>3
  <2> QED BY <1>15, <2>1, <2>2, <2>3
<1> QED BY <1>12, <1>13, <1>14, <1>16, <1>17 DEF IInv

-----------------------------------------------------------------------------
(* The end of a request *)

LEMMA StepUndone ==
  ASSUME IInv, NEW r \in Requests, Rollback(r) \/ Abort(r)
  PROVE  IInv'
<1>1. Over(r) /\ table' = table /\ audit' = audit
  BY DEF Rollback, Abort
<1>2. TypeOK
  BY DEF IInv
<1>3. TypeOK' /\ Alone(r) /\ Staged(r)' /\ made'[r] = {}
  BY <1>1, <1>2, OverEffect DEF TypeOK, Alone, Staged
<1> QED BY <1>3, OneMoves

\* What a commit does to the tables: it installs the pending rows, or clears the
\* row of a delete.
LEMMA CommitEffect ==
  ASSUME IInv, NEW r \in Requests, Commit(r)
  PROVE  /\ \A i \in Ids :
              \/ table'[i] = table[i] /\ \A k \in Keys : <<i, k>> \notin made[r]
              \/ \E k \in Keys : <<i, k>> \in made[r] /\ table'[i] = k
              \/ op[r] = "delete" /\ i = target[r] /\ table'[i] = NoKey
         /\ op[r] = "delete" => table'[target[r]] = NoKey
         /\ \A i \in Ids, k \in Keys : <<i, k>> \in made[r] => table'[i] = k
         /\ table' \in [Ids -> Keys \cup {NoKey}]
<1> USE ConstantsAssumption
<1>1. table' = Applied(r) /\ table \in [Ids -> Keys \cup {NoKey}] /\ Staged(r)
  BY DEF Commit, IInv, TypeOK
<1>2. op[r] = "delete" => target[r] \in Ids /\ made[r] = {}
  BY <1>1 DEF Staged
<1>3. ASSUME NEW i \in Ids, NEW k \in Keys, <<i, k>> \in made[r]
      PROVE  table'[i] = k
  <2>1. \A l \in Keys : <<i, l>> \in made[r] => l = k
    BY <1>3 DEF IInv, Distinct
  <2>2. (CHOOSE l \in Keys : <<i, l>> \in made[r]) = k
    BY <1>3, <2>1
  <2>3. op[r] # "delete"
    BY <1>2, <1>3
  <2> QED BY <1>1, <1>3, <2>2, <2>3 DEF Applied
<1>4. ASSUME NEW i \in Ids, \A k \in Keys : <<i, k>> \notin made[r]
      PROVE  table'[i] = IF op[r] = "delete" /\ i = target[r] THEN NoKey ELSE table[i]
  BY <1>1, <1>4 DEF Applied
<1>5. \A i \in Ids : table'[i] \in Keys \cup {NoKey}
  BY <1>1, <1>3, <1>4
<1>6. table' \in [Ids -> Keys \cup {NoKey}]
  BY <1>1, <1>5 DEF Applied
<1> QED BY <1>2, <1>3, <1>4, <1>6

\* The rows it leaves in the trail.
LEMMA CommitTrail ==
  ASSUME IInv, NEW r \in Requests, Commit(r)
  PROVE  /\ audit \subseteq audit'
         /\ \A i \in Ids :
              <<"rule.create", i>> \in audit' <=>
                 <<"rule.create", i>> \in audit \/ \E k \in Keys : <<i, k>> \in made[r]
         /\ \A i \in Ids :
              <<"rule.delete", i>> \in audit' <=>
                 <<"rule.delete", i>> \in audit \/ (op[r] = "delete" /\ i = target[r])
         /\ \A a \in audit' \ audit :
              \/ a[2] = NoId
              \/ \E i \in Ids, k \in Keys : <<i, k>> \in made[r] /\ a[2] = i
              \/ a[2] = target[r] /\ target[r] \in Ids /\ <<"rule.create", target[r]>> \in audit
<1> USE ConstantsAssumption
<1>1. audit' = audit \cup TrailOf(r) /\ made[r] \subseteq Ids \X Keys /\ Staged(r)
  BY DEF Commit, IInv, TypeOK
<1>2. op[r] \in {"create", "bulk", "update", "delete", "none"}
  BY DEF IInv, TypeOK, Operations
<1>3. PICK own : own = CASE op[r] = "bulk" -> {<<"rules.bulk_import", NoId>>}
                         [] op[r] = "update" -> {<<"rule.update", target[r]>>}
                         [] op[r] = "delete" -> {<<"rule.delete", target[r]>>}
                         [] OTHER -> {}
  OBVIOUS
<1>4. /\ op[r] = "bulk" => own = {<<"rules.bulk_import", NoId>>}
      /\ op[r] = "update" => own = {<<"rule.update", target[r]>>}
      /\ op[r] = "delete" => own = {<<"rule.delete", target[r]>>}
      /\ op[r] \in {"create", "none"} => own = {}
  BY <1>3
<1>5. TrailOf(r) = {<<"rule.create", x[1]>> : x \in made[r]} \cup own
  BY <1>3 DEF TrailOf
<1>6. ASSUME NEW i \in Ids
      PROVE  <<"rule.create", i>> \in {<<"rule.create", x[1]>> : x \in made[r]}
                <=> \E k \in Keys : <<i, k>> \in made[r]
  <2>1. ASSUME NEW k \in Keys, <<i, k>> \in made[r]
        PROVE  <<"rule.create", i>> \in {<<"rule.create", x[1]>> : x \in made[r]}
    <3>1. <<i, k>>[1] = i
      OBVIOUS
    <3> QED BY <2>1, <3>1
  <2>2. ASSUME NEW x \in made[r], <<"rule.create", i>> = <<"rule.create", x[1]>>
        PROVE  \E k \in Keys : <<i, k>> \in made[r]
    <3>1. x = <<x[1], x[2]>> /\ x[2] \in Keys /\ x[1] = i
      BY <1>1, <2>2
    <3> QED BY <3>1
  <2> QED BY <2>1, <2>2
<1>7. ASSUME NEW i \in Ids
      PROVE  /\ <<"rule.create", i>> \notin own
             /\ <<"rule.delete", i>> \in own <=> op[r] = "delete" /\ i = target[r]
  BY <1>2, <1>4
<1>8. ASSUME NEW i \in Ids
      PROVE  <<"rule.delete", i>> \notin {<<"rule.create", x[1]>> : x \in made[r]}
  OBVIOUS
<1>9. ASSUME NEW a \in {<<"rule.create", x[1]>> : x \in made[r]}
      PROVE  \E i \in Ids, k \in Keys : <<i, k>> \in made[r] /\ a[2] = i
  <2>1. PICK x \in made[r] : a = <<"rule.create", x[1]>>
    BY <1>9
  <2>2. x = <<x[1], x[2]>> /\ x[1] \in Ids /\ x[2] \in Keys /\ a[2] = x[1]
    BY <1>1, <2>1
  <2> QED BY <2>1, <2>2
<1>10. ASSUME NEW a \in own
       PROVE  \/ a[2] = NoId
              \/ /\ a[2] = target[r] /\ target[r] \in Ids
                 /\ <<"rule.create", target[r]>> \in audit
  BY <1>1, <1>2, <1>4, <1>10 DEF Staged
<1>11. ASSUME NEW i \in Ids
       PROVE  <<"rule.create", i>> \in audit' <=>
                 <<"rule.create", i>> \in audit \/ \E k \in Keys : <<i, k>> \in made[r]
  BY <1>1, <1>5, <1>6, <1>7
<1>12. ASSUME NEW i \in Ids
       PROVE  <<"rule.delete", i>> \in audit' <=>
                 <<"rule.delete", i>> \in audit \/ (op[r] = "delete" /\ i = target[r])
  BY <1>1, <1>5, <1>7, <1>8
<1>13. ASSUME NEW a \in audit' \ audit
       PROVE  a \in own \/ a \in {<<"rule.create", x[1]>> : x \in made[r]}
  BY <1>1, <1>5
<1> QED BY <1>1, <1>9, <1>10, <1>11, <1>12, <1>13

LEMMA StepCommit ==
  ASSUME IInv, NEW r \in Requests, Commit(r)
  PROVE  IInv'
<1> USE ConstantsAssumption
<1>1. /\ pc[r] = "returned" /\ Over(r) /\ Staged(r) /\ Pending(r)
      /\ table \in [Ids -> Keys \cup {NoKey}] /\ TypeOK
      /\ made[r] \subseteq Ids \X Keys
  BY DEF Commit, IInv, TypeOK
<1>2. op[r] = "delete" => made[r] = {} /\ target[r] \in Ids
  BY <1>1 DEF Staged
<1>3. TypeOK'
  <2>1. ASSUME NEW a \in audit' PROVE a[2] \in Ids \cup {NoId}
    BY <1>1, CommitTrail DEF TypeOK
  <2> QED BY <1>1, <2>1, OverEffect, CommitEffect DEF TypeOK
\* Keys of the new table come from the old one or from r, never twice.
<1>4. UniqueKeys'
  <2> SUFFICES ASSUME NEW i \in Ids, NEW j \in Ids, table'[i] = table'[j],
                      table'[i] # NoKey
               PROVE  i = j
    BY DEF UniqueKeys
  <2>1. \/ table'[i] = table[i] \/ \E k \in Keys : <<i, k>> \in made[r] /\ table'[i] = k
    BY CommitEffect
  <2>2. \/ table'[j] = table[j] \/ \E k \in Keys : <<j, k>> \in made[r] /\ table'[j] = k
    BY CommitEffect
  <2>3. CASE table'[i] = table[i] /\ table'[j] = table[j]
    BY <2>3 DEF IInv, UniqueKeys
  <2>4. ASSUME NEW m \in Ids, NEW n \in Ids, NEW k \in Keys, <<m, k>> \in made[r],
               table[n] = k
        PROVE  FALSE
    BY <1>1, <2>4 DEF Pending, Committed
  <2>5. ASSUME NEW k \in Keys, NEW l \in Keys, <<i, k>> \in made[r], <<j, l>> \in made[r],
               k = l
        PROVE  i = j
    BY <2>5 DEF IInv, Distinct
  <2> QED BY <2>1, <2>2, <2>3, <2>4, <2>5
<1>5. TrailGivesTable'
  <2> SUFFICES ASSUME NEW i \in Ids
               PROVE  table'[i] # NoKey <=> /\ <<"rule.create", i>> \in audit'
                                            /\ <<"rule.delete", i>> \notin audit'
    BY DEF TrailGivesTable, Logged
  <2>1. table[i] # NoKey <=> /\ <<"rule.create", i>> \in audit
                             /\ <<"rule.delete", i>> \notin audit
    BY DEF IInv, TrailGivesTable, Logged
  <2>2. CASE \E k \in Keys : <<i, k>> \in made[r]
    <3>1. PICK k \in Keys : <<i, k>> \in made[r]
      BY <2>2
    <3>2. table'[i] = k /\ k # NoKey /\ op[r] # "delete"
      BY <1>2, <3>1, CommitEffect
    <3>3. <<"rule.delete", i>> \notin audit
      <4>1. \A a \in audit : a[2] # i
        BY <1>1, <3>1 DEF Pending
      <4>2. <<"rule.delete", i>>[2] = i
        OBVIOUS
      <4> QED BY <4>1, <4>2
    <3> QED BY <3>1, <3>2, <3>3, CommitTrail
  <2>3. CASE ~(\E k \in Keys : <<i, k>> \in made[r]) /\ ~(op[r] = "delete" /\ i = target[r])
    <3>1. table'[i] = table[i]
      BY <2>3, CommitEffect
    <3> QED BY <2>1, <2>3, <3>1, CommitTrail
  <2>4. CASE op[r] = "delete" /\ i = target[r]
    BY <2>4, CommitEffect, CommitTrail
  <2> QED BY <2>2, <2>3, <2>4
<1>6. ASSUME NEW s \in Requests PROVE Staged(s)'
  <2>1. CASE s = r
    BY <1>1, <2>1, OverEffect DEF Staged
  <2>2. CASE s # r
    <3>1. audit \subseteq audit' /\ Staged(s)
      BY CommitTrail DEF IInv
    <3> QED BY <1>1, <2>2, <3>1, OverEffect DEF Staged
  <2> QED BY <2>1, <2>2
\* What s has pending shares no id and no key with what r installs.
<1>7. ASSUME NEW s \in Requests PROVE Pending(s)'
  <2>1. CASE s = r
    BY <1>1, <2>1, OverEffect DEF Pending
  <2>2. CASE s # r
    <3> SUFFICES ASSUME NEW i \in Ids, NEW k \in Keys, <<i, k>> \in made[s]
                 PROVE  /\ table'[i] = NoKey /\ (\A j \in Ids : table'[j] # k)
                        /\ \A a \in audit' : a[2] # i
      BY <1>1, <2>2, OverEffect DEF Pending, Committed
    <3>1. /\ table[i] = NoKey /\ (\A j \in Ids : table[j] # k)
          /\ \A a \in audit : a[2] # i
      BY DEF IInv, Pending, Committed
    <3>2. \A j \in Ids, l \in Keys : <<j, l>> \in made[r] => j # i /\ l # k
      BY <2>2 DEF IInv, Distinct
    <3>3. table'[i] = NoKey
      BY <3>1, <3>2, CommitEffect
    <3>4. ASSUME NEW j \in Ids PROVE table'[j] # k
      <4>1. CASE table'[j] = table[j]
        BY <3>1, <4>1
      <4>2. CASE \E l \in Keys : <<j, l>> \in made[r] /\ table'[j] = l
        BY <3>2, <4>2
      <4>3. CASE table'[j] = NoKey
        BY <4>3
      <4> QED BY <4>1, <4>2, <4>3, CommitEffect
    <3>5. ASSUME NEW a \in audit', a[2] = i PROVE FALSE
      <4>1. a \notin audit
        BY <3>1, <3>5
      <4>2. ASSUME target[r] = i, <<"rule.create", target[r]>> \in audit PROVE FALSE
        <5>1. <<"rule.create", target[r]>>[2] = i
          BY <4>2
        <5> QED BY <3>1, <4>2, <5>1
      <4> QED BY <3>2, <3>5, <4>1, <4>2, CommitTrail
    <3> QED BY <3>3, <3>4, <3>5
  <2> QED BY <2>1, <2>2
<1>8. Distinct'
  <2>1. \A s \in Requests : made'[s] \subseteq made[s]
    BY <1>1, OverEffect
  <2>2. ASSUME NEW s \in Requests, NEW i \in Ids, NEW k \in Keys
        PROVE  <<i, k>> \in made'[s] => <<i, k>> \in made[s]
    BY <2>1
  <2> QED BY <2>2 DEF IInv, Distinct
<1> QED BY <1>3, <1>4, <1>5, <1>6, <1>7, <1>8 DEF IInv

LEMMA StepIInv == IInv /\ [Next]_vars => IInv'
<1> SUFFICES ASSUME IInv, [Next]_vars PROVE IInv'
  OBVIOUS
<1>1. CASE UNCHANGED vars
  BY <1>1
  DEF vars, IInv, TypeOK, UniqueKeys, TrailGivesTable, Logged, Staged, Pending, Committed,
      Distinct
<1>2. ASSUME NEW r \in Requests, Proceed(r) PROVE IInv'
  <2>1. CASE BulkFinish(r)
    BY <2>1, GotoMoves DEF BulkFinish
  <2>2. CASE InsertFails(r)
    BY <2>2, GotoMoves DEF InsertFails
  <2>3. CASE UpdateFlush(r)
    BY <2>3, GotoMoves DEF UpdateFlush
  <2>4. CASE DeadlockFails(r)
    <3>1. WaitsFor(r) # {}
      BY <2>4 DEF DeadlockFails, OnCycle
    <3>2. pc[r] # "idle"
      BY <3>1 DEF WaitsFor
    <3> QED BY <2>4, <3>2, GotoMoves DEF DeadlockFails
  <2>5. CASE Rollback(r)
    BY <2>5, StepUndone
  <2> QED BY <1>2, <2>1, <2>2, <2>3, <2>4, <2>5, StepBulkCheck, StepInsert, StepCommit
      DEF Proceed
<1> QED BY <1>1, <1>2, StepArrive, StepUndone DEF Next

\* The invariant holds in every reachable state.
THEOREM Invariance == Spec => []IInv
  BY InitIInv, StepIInv, PTL DEF Spec

-----------------------------------------------------------------------------
(* Theorems *)

\* The variables keep their types.
THEOREM TypeCorrect == Spec => []TypeOK
<1>1. IInv => TypeOK
  BY DEF IInv
<1> QED BY <1>1, Invariance, PTL

\* rule_key is unique among committed rules.
THEOREM KeysAreUnique == Spec => []UniqueKeys
<1>1. IInv => UniqueKeys
  BY DEF IInv
<1> QED BY <1>1, Invariance, PTL

\* Replaying the audit trail gives the table.
THEOREM TrailReplays == Spec => []TrailGivesTable
<1>1. IInv => TrailGivesTable
  BY DEF IInv
<1> QED BY <1>1, Invariance, PTL

\* A rule keeps its key for life and dies once.
THEOREM RulesDieForGood == Spec => RulesDieOnce
<1> DEFINE Final == \A i \in Ids :
        /\ table[i] # NoKey => table'[i] \in {table[i], NoKey}
        /\ i \in Logged("rule.delete") => table'[i] = NoKey
<1>1. IInv /\ [Next]_vars => [Final]_vars
  <2> SUFFICES ASSUME IInv, [Next]_vars, NEW i \in Ids
               PROVE  /\ table[i] # NoKey => table'[i] \in {table[i], NoKey}
                      /\ i \in Logged("rule.delete") => table'[i] = NoKey
    OBVIOUS
  <2>1. i \in Logged("rule.delete") => table[i] = NoKey
    BY DEF IInv, TrailGivesTable, Logged
  <2>2. CASE table' = table
    BY <2>1, <2>2
  <2>3. ASSUME NEW r \in Requests, Commit(r)
        PROVE  /\ table[i] # NoKey => table'[i] \in {table[i], NoKey}
               /\ i \in Logged("rule.delete") => table'[i] = NoKey
    <3>1. CASE \E k \in Keys : <<i, k>> \in made[r]
      <4>1. PICK k \in Keys : <<i, k>> \in made[r]
        BY <3>1
      <4>2. table[i] = NoKey /\ \A a \in audit : a[2] # i
        BY <4>1 DEF IInv, Pending
      <4>3. <<"rule.delete", i>>[2] = i
        OBVIOUS
      <4> QED BY <4>2, <4>3 DEF Logged
    <3>2. CASE ~\E k \in Keys : <<i, k>> \in made[r]
      BY <2>1, <2>3, <3>2, CommitEffect
    <3> QED BY <3>1, <3>2
  <2> QED BY <2>2, <2>3
      DEF Next, Arrive, Proceed, Create, Bulk, UpdateRead, DeleteRead, Begin, BulkCheck,
          BulkFinish, Insert, InsertFails, UpdateFlush, Rollback, DeadlockFails, Abort, vars
<1> QED BY <1>1, Invariance, PTL DEF Spec, RulesDieOnce
================================================================================
