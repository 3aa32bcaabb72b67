-------------------------- MODULE MemoryRepositories --------------------------
(***************************************************************************)
(* The repositories the test suite runs on (repositories/memory.py), behind  *)
(* use_in_memory: dictionaries and lists of one process.  They answer the     *)
(* services and the API as RepositoryContract does, but for the order of      *)
(* list_all and for an address that is written in two ways.                   *)
(***************************************************************************)
EXTENDS Naturals, Sequences, SequencesExt

CONSTANTS Ids, Names, RuleKeys, ConfigKeys, MaxAudit, MaxGeneration, None

VARIABLES
    used,      \* bound: the repository of this run, as they share no state
    byId,      \* InMemoryUsersRepo._by_id ...
    joined,    \* ... and the order its keys were inserted in
    byEmail,   \* InMemoryUsersRepo._by_email
    rows,      \* InMemoryRulesRepo._rows, a list
    trail,     \* InMemoryAuditRepo._rows, a list
    kv,        \* InMemoryMlConfigRepo._kv
    families,  \* InMemoryRefreshFamiliesRepo._rows
    answer     \* <<method, arguments, result>> of the last call

mvars == <<used, byId, joined, byEmail, rows, trail, kv, families, answer>>

Roles == {"admin", "viewer"}
Actions == {"block", "log"}
Levels == {"1.0", "0.9"}
Change(S) == S \cup {None}
Emails == Names \X {"lower", "Mixed"}
Lower(e) == <<e[1], "lower">>
UserRows == [email : Emails, role : Roles, active : BOOLEAN]

\* An answer that there is no row is none that there is one.
ConstantsAssumption ==
    /\ None \notin Ids \X UserRows
    /\ MaxAudit \in Nat /\ MaxGeneration \in Nat

Returns(method, args, result) == answer' = <<method, args, result>>
Get(dict, key) == IF key \in DOMAIN dict THEN <<key, dict[key]>> ELSE None
Put(dict, key, value) ==
    [k \in DOMAIN dict \cup {key} |-> IF k = key THEN value ELSE dict[k]]
Patch(value, old) == IF value = None THEN old ELSE value

Init ==
    /\ used \in {"users", "rules", "audit", "config", "families"}
    /\ byId = <<>> /\ joined = <<>> /\ byEmail = <<>> /\ rows = <<>> /\ trail = <<>>
    /\ kv = [k \in {"ml_block_threshold"} |-> "1.0"]
    /\ families = <<>>
    /\ answer = None

-----------------------------------------------------------------------------
(* InMemoryUsersRepo *)

Find(e) == IF Lower(e) \in DOMAIN byEmail THEN Get(byId, byEmail[Lower(e)]) ELSE None

ReadUser ==
    /\ \/ \E e \in Emails : Returns("by_email", e, Find(e))
       \/ \E id \in Ids : Returns("by_id", id, Get(byId, id))
       \/ Returns("list_all", None, [i \in DOMAIN joined |-> Get(byId, joined[i])])
    /\ UNCHANGED <<byId, joined, byEmail>>

\* Mutated form of the step below: the address is a key as it is written.
CreateUserAsWritten ==
    \E e \in Emails, role \in Roles, id \in Ids \ DOMAIN byId :
        LET row == [email |-> e, role |-> role, active |-> TRUE]
        IN  /\ Find(e) = None
            /\ byId' = Put(byId, id, row)
            /\ joined' = Append(joined, id)
            /\ byEmail' = Put(byEmail, e, id)
            /\ Returns("create", <<e, role>>, <<id, row>>)

\* create_user has looked the address up.
CreateUser ==
    \E e \in Emails, role \in Roles, id \in Ids \ DOMAIN byId :
        LET row == [email |-> e, role |-> role, active |-> TRUE]
        IN  /\ Find(e) = None
            /\ byId' = Put(byId, id, row)
            /\ joined' = Append(joined, id)
            /\ byEmail' = Put(byEmail, Lower(e), id)
            /\ Returns("create", <<e, role>>, <<id, row>>)

UpdatePartial ==
    \E id \in Ids, role \in Change(Roles), active \in Change(BOOLEAN) :
        /\ byId' = IF id \notin DOMAIN byId THEN byId
                   ELSE [byId EXCEPT ![id].role = Patch(role, @),
                                     ![id].active = Patch(active, @)]
        /\ Returns("update_partial", <<id, role, active>>, Get(byId', id))
        /\ UNCHANGED <<joined, byEmail>>

\* The row stays, for the audit rows that name it.
SoftDelete ==
    \E id \in Ids :
        /\ byId' = IF id \notin DOMAIN byId THEN byId
                   ELSE [byId EXCEPT ![id].active = FALSE]
        /\ Returns("delete", id, id \in DOMAIN byId)
        /\ UNCHANGED <<joined, byEmail>>

-----------------------------------------------------------------------------
(* InMemoryRulesRepo: a scan of the list, up to the first hit *)

Hits(Test(_)) == {i \in DOMAIN rows : Test(rows[i])}
First(Test(_)) ==
    IF Hits(Test) = {} THEN 0
    ELSE CHOOSE i \in Hits(Test) : \A j \in Hits(Test) : i <= j
Item(list, i) == IF i = 0 THEN None ELSE <<list[i].id, list[i].row>>
IndexOf(id) == First(LAMBDA r : r.id = id)
IndexOfKey(key) == First(LAMBDA r : r.row.key = key)

ReadRule ==
    /\ \/ \E key \in RuleKeys : Returns("get_by_key", key, Item(rows, IndexOfKey(key)))
       \/ \E id \in Ids : Returns("get", id, Item(rows, IndexOf(id)))
       \/ Returns("list", None, {Item(rows, i) : i \in DOMAIN rows})
    /\ UNCHANGED rows

\* The rules service has looked the key up.
CreateRule ==
    \E key \in RuleKeys, action \in Actions, id \in Ids :
        LET row == [key |-> key, action |-> action, enabled |-> TRUE]
        IN  /\ IndexOfKey(key) = 0 /\ IndexOf(id) = 0
            /\ rows' = Append(rows, [id |-> id, row |-> row])
            /\ Returns("create_rule", <<key, action>>, <<id, row>>)

\* A patch leaves fields out; it never sends an explicit null, which this
\* repository would try to store and PgRulesRepo ignores.
UpdateRule ==
    \E id \in Ids, action \in Change(Actions), enabled \in Change(BOOLEAN) :
        LET i == IndexOf(id)
        IN  /\ rows' = IF i = 0 THEN rows
                       ELSE [rows EXCEPT ![i].row.action = Patch(action, @),
                                         ![i].row.enabled = Patch(enabled, @)]
            /\ Returns("update", <<id, action, enabled>>, Item(rows', i))

DeleteRule ==
    \E id \in Ids :
        LET i == IndexOf(id)
        IN  /\ rows' = IF i = 0 THEN rows ELSE RemoveAt(rows, i)
            /\ Returns("delete_rule", id, i # 0)

-----------------------------------------------------------------------------
(* InMemoryAuditRepo and InMemoryMlConfigRepo *)

Record ==
    \E action \in Actions :
        /\ Len(trail) < MaxAudit
        /\ trail' = Append(trail, action)
        /\ Returns("record", action, None)

\* list(reversed(rows[-limit:])), where a slice may reach past the beginning
Recent ==
    \E limit \in 1..MaxAudit + 1 :
        LET from == IF limit < Len(trail) THEN Len(trail) - limit + 1 ELSE 1
        IN  /\ Returns("recent", limit, Reverse(SubSeq(trail, from, Len(trail))))
            /\ UNCHANGED trail

UseConfig ==
    \E key \in ConfigKeys :
        \/ /\ Returns("get_config", key, IF key \in DOMAIN kv THEN kv[key] ELSE None)
           /\ UNCHANGED kv
        \/ \E v \in Levels :
              /\ kv' = Put(kv, key, v)
              /\ Returns("set", <<key, v>>, None)

-----------------------------------------------------------------------------
(* InMemoryRefreshFamiliesRepo *)

ReadFamily ==
    \E id \in Ids :
        /\ Returns("family_by_id", id, Get(families, id))
        /\ UNCHANGED families

CreateFamily ==
    \E id \in Ids \ DOMAIN families :
        LET row == [generation |-> 0, revoked |-> FALSE]
        IN  /\ families' = Put(families, id, row)
            /\ Returns("create_family", None, <<id, row>>)

\* The three early returns of bump_generation.
Refused(id, expected) ==
    IF id \notin DOMAIN families THEN TRUE
    ELSE families[id].revoked \/ families[id].generation # expected

BumpGeneration ==
    \E id \in Ids, expected \in 0..MaxGeneration - 1 :
        \/ /\ Refused(id, expected)
           /\ Returns("bump_generation", <<id, expected>>, None)
           /\ UNCHANGED families
        \/ /\ ~Refused(id, expected)
           /\ families' = [families EXCEPT ![id].generation = @ + 1]
           /\ Returns("bump_generation", <<id, expected>>, Get(families', id))

RevokeFamily ==
    \E id \in Ids :
        /\ families' = IF id \notin DOMAIN families THEN families
                       ELSE [families EXCEPT ![id].revoked = TRUE]
        /\ Returns("revoke", id, None)

Next ==
    \/ /\ used = "users"
       /\ ReadUser \/ CreateUser \/ UpdatePartial \/ SoftDelete
       /\ UNCHANGED <<used, rows, trail, kv, families>>
    \/ /\ used = "rules"
       /\ ReadRule \/ CreateRule \/ UpdateRule \/ DeleteRule
       /\ UNCHANGED <<used, byId, joined, byEmail, trail, kv, families>>
    \/ /\ used = "audit"
       /\ Record \/ Recent
       /\ UNCHANGED <<used, byId, joined, byEmail, rows, kv, families>>
    \/ /\ used = "config"
       /\ UseConfig
       /\ UNCHANGED <<used, byId, joined, byEmail, rows, trail, families>>
    \/ /\ used = "families"
       /\ ReadFamily \/ CreateFamily \/ BumpGeneration \/ RevokeFamily
       /\ UNCHANGED <<used, byId, joined, byEmail, rows, trail, kv>>

Spec == Init /\ [][Next]_mvars

-----------------------------------------------------------------------------
(* Properties *)

Contract == INSTANCE RepositoryContract WITH
    users <- byId,
    born <- joined,
    rules <- [id \in {rows[i].id : i \in DOMAIN rows} |-> rows[IndexOf(id)].row],
    log <- trail,
    config <- kv

\* list_all answers in the order of insertion, which is PostgreSQL's backwards.
OldestFirst ==
    /\ Returns("list_all", None, Reverse(Contract!NewestFirst))
    /\ UNCHANGED <<byId, joined, byEmail, rows, trail, kv, families>>

\* by_email answers a row whose address is spelt otherwise, as for the CITEXT that its
\* comment names; the VARCHAR of the models and of Alembic compares with case.
OtherSpelling ==
    /\ \E e \in Emails, id \in DOMAIN byId :
          /\ byId[id].email # e /\ Lower(byId[id].email) = Lower(e)
          /\ Returns("by_email", e, Get(byId, id))
    /\ UNCHANGED <<byId, joined, byEmail, rows, trail, kv, families>>

\* "match PG behaviour": whatever calls came before, every call on the in-memory
\* repositories answers what PostgreSQL would and leaves the tables as it would,
\* but for these two; beyond them, what the tests see of the services holds for
\* the deployed ones.
ImplementsContract ==
    Contract!Init /\ [][Contract!Next \/ OldestFirst \/ OtherSpelling]_mvars
=============================================================================
