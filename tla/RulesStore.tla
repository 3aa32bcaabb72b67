------------------------------ MODULE RulesStore ------------------------------
(***************************************************************************)
(* The rules table and its audit trail (api/rules.py, RulesService,         *)
(* PgRulesRepo) under concurrent requests, one transaction each.            *)
(*                                                                         *)
(* A SELECT sees the committed rows and the transaction's own.  The unique  *)
(* index on rule_key makes an INSERT wait for a transaction that inserted   *)
(* the same key and is still open, and fail with IntegrityError when the    *)
(* key is committed.  Requests that write nothing (list, get, dry_run       *)
(* imports, 404 and 409 before any write) change no state.                  *)
(***************************************************************************)
EXTENDS Naturals, FiniteSets, Sequences, FiniteSetsExt

CONSTANTS
    Keys,        \* rule_key values
    Ids,         \* bound: rule ids the run may use up
    Requests,    \* request slots
    Payloads,    \* rule_key lists a bulk import may carry
    Ops,         \* the operations clients send, among Operations
    NoKey, NoId

Operations == {"create", "bulk", "update", "delete"}

ASSUME ConstantsAssumption ==
    /\ Payloads \subseteq Seq(Keys) /\ <<>> \notin Payloads
    /\ Ops \subseteq Operations
    /\ NoKey \notin Keys
    /\ NoId \notin Ids

VARIABLES
    table,    \* committed rules: the key of each id, or NoKey
    audit,    \* committed audit rows <<action, id>>
    op,       \* what each request is doing
    pc,       \* where it stands
    todo,     \* keys it has still to insert
    target,   \* the rule it updates or deletes
    made      \* <<id, key>> pairs its transaction has inserted

vars == <<table, audit, op, pc, todo, target, made>>

Committed(k) == \E i \in Ids : table[i] = k

\* get_by_key inside r's transaction.
Visible(r, k) == Committed(k) \/ \E i \in Ids : <<i, k>> \in made[r]

\* Open transactions, other than r's, that have inserted k.
Inserters(r, k) == {s \in Requests \ {r} : \E i \in Ids : <<i, k>> \in made[s]}

\* Another open transaction has updated rule i and holds its row lock.
RowLocked(r, i) ==
    \E s \in Requests \ {r} :
        op[s] = "update" /\ pc[s] = "returned" /\ target[s] = i

\* Ids the default gen_random_uuid() can still draw.
FreshIds ==
    {i \in Ids : /\ table[i] = NoKey
                 /\ \A a \in audit : a[2] # i
                 /\ \A r \in Requests : \A k \in Keys : <<i, k>> \notin made[r]}

\* Ids are interchangeable: any of them stands for the one that is drawn.
FreshId == CHOOSE i \in FreshIds : TRUE

\* Bound: a request starts only if an id is left for every pending INSERT.
IdsLeftFor(n) ==
    Cardinality(FreshIds)
        >= n + MapThenSumSet(LAMBDA r : Len(todo[r]), Requests)

\* bulk_import drops every key that its payload names twice.
WithoutDuplicates(p) ==
    SelectSeq(p, LAMBDA k : Cardinality({n \in DOMAIN p : p[n] = k}) = 1)

\* What is left of a payload names keys too: true of any payload, by an induction
\* over it that the prover cannot do.
ASSUME PayloadsAssumption == \A p \in Payloads : WithoutDuplicates(p) \in Seq(Keys)

Begin(r, o, step, ks, i) ==
    /\ o \in Ops
    /\ pc[r] = "idle"
    /\ op' = [op EXCEPT ![r] = o]
    /\ pc' = [pc EXCEPT ![r] = step]
    /\ todo' = [todo EXCEPT ![r] = ks]
    /\ target' = [target EXCEPT ![r] = i]
    /\ UNCHANGED <<table, audit, made>>

Goto(r, step) == pc' = [pc EXCEPT ![r] = step]

Over(r) ==
    /\ op' = [op EXCEPT ![r] = "none"]
    /\ pc' = [pc EXCEPT ![r] = "idle"]
    /\ todo' = [todo EXCEPT ![r] = <<>>]
    /\ target' = [target EXCEPT ![r] = NoId]
    /\ made' = [made EXCEPT ![r] = {}]

Init ==
    /\ table = [i \in Ids |-> NoKey]
    /\ audit = {}
    /\ op = [r \in Requests |-> "none"]
    /\ pc = [r \in Requests |-> "idle"]
    /\ todo = [r \in Requests |-> <<>>]
    /\ target = [r \in Requests |-> NoId]
    /\ made = [r \in Requests |-> {}]

-----------------------------------------------------------------------------
(* POST /rules: get_by_key, then the INSERT. *)

Create(r, k) ==
    /\ ~Committed(k)
    /\ IdsLeftFor(1)
    /\ Begin(r, "create", "insert", <<k>>, NoId)

(* POST /rules/bulk with dry_run false. *)

Bulk(r, p) ==
    /\ IdsLeftFor(Len(WithoutDuplicates(p)))
    /\ Begin(r, "bulk", "scan", WithoutDuplicates(p), NoId)

\* The import's own get_by_key, and then the one inside svc.create: a key that
\* is there by then is reported as a conflict and skipped.
BulkCheck(r) ==
    /\ pc[r] \in {"scan", "recheck"}
    /\ todo[r] # <<>>
    /\ IF Visible(r, Head(todo[r]))
       THEN Goto(r, "scan") /\ todo' = [todo EXCEPT ![r] = Tail(@)]
       ELSE /\ Goto(r, IF pc[r] = "scan" THEN "recheck" ELSE "insert")
            /\ UNCHANGED todo
    /\ UNCHANGED <<table, audit, op, target, made>>

\* The summary row, and the handler returns.
BulkFinish(r) ==
    /\ pc[r] = "scan"
    /\ todo[r] = <<>>
    /\ Goto(r, "returned")
    /\ UNCHANGED <<table, audit, op, todo, target, made>>

\* Mutated form of the step below: no unique index, the get_by_key is trusted.
InsertUnchecked(r) ==
    LET k == Head(todo[r]) IN
    /\ pc[r] = "insert"
    /\ made' = [made EXCEPT ![r] = @ \cup {<<FreshId, k>>}]
    /\ todo' = [todo EXCEPT ![r] = Tail(@)]
    /\ Goto(r, IF op[r] = "bulk" THEN "scan" ELSE "returned")
    /\ UNCHANGED <<table, audit, op, target>>

\* rules.create flushes the INSERT; svc.create adds the rule.create row.
Insert(r) ==
    LET k == Head(todo[r]) IN
    /\ pc[r] = "insert"
    /\ ~Committed(k)
    /\ Inserters(r, k) = {}
    /\ FreshIds # {}  \* bound: IdsLeftFor has left one
    /\ made' = [made EXCEPT ![r] = @ \cup {<<FreshId, k>>}]
    /\ todo' = [todo EXCEPT ![r] = Tail(@)]
    /\ Goto(r, IF op[r] = "bulk" THEN "scan" ELSE "returned")
    /\ UNCHANGED <<table, audit, op, target>>

\* The index refuses the key: IntegrityError, which no handler catches.
InsertFails(r) ==
    /\ pc[r] = "insert"
    /\ Committed(Head(todo[r]))
    /\ Goto(r, "integrity_error")
    /\ UNCHANGED <<table, audit, op, todo, target, made>>

-----------------------------------------------------------------------------
(* PUT and DELETE /rules/{id} *)

UpdateRead(r, i) == table[i] # NoKey /\ Begin(r, "update", "flush", <<>>, i)

UpdateFlush(r) ==
    /\ pc[r] = "flush"
    /\ ~RowLocked(r, target[r])
    /\ Goto(r, IF table[target[r]] = NoKey THEN "stale_data_error" ELSE "returned")
    /\ UNCHANGED <<table, audit, op, todo, target, made>>

\* The row is only marked here; the DELETE is flushed by the commit.
DeleteRead(r, i) == table[i] # NoKey /\ Begin(r, "delete", "returned", <<>>, i)

-----------------------------------------------------------------------------
(* The end of every request *)

\* The audit rows of r's transaction: a rule.create for each INSERT, and one
\* for the operation itself.
TrailOf(r) ==
    {<<"rule.create", x[1]>> : x \in made[r]} \cup
    CASE op[r] = "bulk" -> {<<"rules.bulk_import", NoId>>}
      [] op[r] = "update" -> {<<"rule.update", target[r]>>}
      [] op[r] = "delete" -> {<<"rule.delete", target[r]>>}
      [] OTHER -> {}

\* Mutated form of the definition below: the marked DELETE is never flushed.
AppliedWithoutDelete(r) ==
    [i \in Ids |->
        IF \E k \in Keys : <<i, k>> \in made[r]
        THEN CHOOSE k \in Keys : <<i, k>> \in made[r]
        ELSE table[i]]

\* The table with r's writes.
Applied(r) ==
    [i \in Ids |->
        IF op[r] = "delete" /\ i = target[r] THEN NoKey
        ELSE IF \E k \in Keys : <<i, k>> \in made[r]
             THEN CHOOSE k \in Keys : <<i, k>> \in made[r]
        ELSE table[i]]

\* get_session commits what the handler left pending.  A DELETE is flushed here
\* and waits for the row; when the row is gone by then it matches nothing and
\* the commit goes through all the same.
Commit(r) ==
    /\ pc[r] = "returned"
    /\ op[r] = "delete" => ~RowLocked(r, target[r])
    /\ table' = Applied(r)
    /\ audit' = audit \cup TrailOf(r)
    /\ Over(r)

\* Mutated form of the step below: an except clause for IntegrityError alone.
RollbackIntegrity(r) ==
    /\ pc[r] = "integrity_error"
    /\ Over(r)
    /\ UNCHANGED <<table, audit>>

\* get_session rolls back what raised.
Rollback(r) ==
    /\ pc[r] \in {"integrity_error", "stale_data_error", "deadlock_error"}
    /\ Over(r)
    /\ UNCHANGED <<table, audit>>

\* The connection drops, the COMMIT fails or the process dies.
Abort(r) ==
    /\ pc[r] # "idle"
    /\ Over(r)
    /\ UNCHANGED <<table, audit>>

\* Who r's INSERT waits for.
WaitsFor(r) == IF pc[r] = "insert" THEN Inserters(r, Head(todo[r])) ELSE {}

\* r is on a cycle of waiting inserts: two imports that took the same keys in
\* opposite orders.  PostgreSQL breaks it by failing one of them.
OnCycle(r) ==
    \E S \in SUBSET Requests :
        /\ r \in S
        /\ \A x \in S : WaitsFor(x) \cap S # {}
        /\ \A y \in S : \E x \in S : y \in WaitsFor(x)

DeadlockFails(r) ==
    /\ OnCycle(r)
    /\ Goto(r, "deadlock_error")
    /\ UNCHANGED <<table, audit, op, todo, target, made>>

-----------------------------------------------------------------------------
Arrive(r) ==
    \/ \E k \in Keys : Create(r, k)
    \/ \E p \in Payloads : Bulk(r, p)
    \/ \E i \in Ids : UpdateRead(r, i)
    \/ \E i \in Ids : DeleteRead(r, i)

Proceed(r) ==
    \/ BulkCheck(r)
    \/ BulkFinish(r)
    \/ Insert(r)
    \/ InsertFails(r)
    \/ UpdateFlush(r)
    \/ Commit(r)
    \/ Rollback(r)
    \/ DeadlockFails(r)

Next == \E r \in Requests : Arrive(r) \/ Proceed(r) \/ Abort(r)

Spec == Init /\ [][Next]_vars

\* Every ready await is resumed, and PostgreSQL serves the waiters of a lock in
\* turn and checks for deadlocks after deadlock_timeout.
Fairness == \A r \in Requests : SF_vars(Proceed(r))

FairSpec == Spec /\ Fairness

-----------------------------------------------------------------------------
(* Properties *)

TypeOK ==
    /\ table \in [Ids -> Keys \cup {NoKey}]
    /\ \A a \in audit : a[2] \in Ids \cup {NoId}
    /\ op \in [Requests -> Operations \cup {"none"}]
    /\ pc \in [Requests -> {"idle", "scan", "recheck", "insert", "flush", "returned",
                            "integrity_error", "stale_data_error", "deadlock_error"}]
    /\ todo \in [Requests -> Seq(Keys)]
    /\ \A r \in Requests : pc[r] = "insert" => todo[r] # <<>>
    /\ target \in [Requests -> Ids \cup {NoId}]
    /\ made \in [Requests -> SUBSET (Ids \X Keys)]

\* rule_key is unique among committed rules, though every writer looked the key
\* up long before its INSERT and none saw the others' pending rows.
UniqueKeys ==
    \A i, j \in Ids : table[i] = table[j] /\ table[i] # NoKey => i = j

Logged(action) == {i \in Ids : <<action, i>> \in audit}

\* "every mutation produces an audit row ... they commit or roll back together"
\* (RulesService): replaying the trail, creations less deletions, gives the
\* table, whatever was retried, raced, aborted or rolled back.
TrailGivesTable ==
    {i \in Ids : table[i] # NoKey} = Logged("rule.create") \ Logged("rule.delete")

\* A rule keeps its key for life, and a deleted rule does not come back: not
\* from an update that had read it, nor from a second delete.
RulesDieOnce ==
    [][\A i \in Ids :
        /\ table[i] # NoKey => table'[i] \in {table[i], NoKey}
        /\ i \in Logged("rule.delete") => table'[i] = NoKey]_vars

\* Every request ends: waiting on the index and on rows never locks the panel
\* up, imports in opposite orders included.
EveryRequestEnds == \A r \in Requests : pc[r] # "idle" ~> pc[r] = "idle"
=============================================================================
