-------------------------- MODULE RepositoryContract --------------------------
(***************************************************************************)
(* What the repositories promise their callers (repositories/pg.py over the  *)
(* schema): tables, and the answer of the last call.  One call at a time,     *)
(* each committed; RefreshRotation, RulesStore and UserAccounts model the     *)
(* same statements interleaved.                                               *)
(***************************************************************************)
EXTENDS Naturals, FiniteSets

CONSTANTS
    Ids,        \* primary keys
    Names,      \* e-mail addresses, each with two spellings
    RuleKeys, ConfigKeys,
    MaxAudit,   \* bound: audit rows
    MaxGeneration,  \* bound: rotations of a family
    None        \* no row, and a field a patch leaves out

VARIABLES
    users,     \* id -> row
    born,      \* created_at -> id of the user created then
    rules,     \* id -> row
    log,       \* ts -> action of the audit row written then
    config,    \* key -> value
    families,  \* id -> row
    answer     \* <<method, arguments, result>> of the last call

contractVars == <<users, born, rules, log, config, families, answer>>

Emails == Names \X {"lower", "Mixed"}
Roles == {"admin", "viewer"}
Actions == {"block", "log"}
Levels == {"1.0", "0.9"}
Change(S) == S \cup {None}

Says(method, args, result) == answer' = <<method, args, result>>

Row(table, id) == IF id \in DOMAIN table THEN <<id, table[id]>> ELSE None
With(table, key, value) ==
    [k \in DOMAIN table \cup {key} |-> IF k = key THEN value ELSE table[k]]
Without(table, key) == [k \in DOMAIN table \ {key} |-> table[k]]
New(value, old) == IF value = None THEN old ELSE value

Init ==
    /\ users = <<>> /\ born = <<>> /\ rules = <<>> /\ log = <<>> /\ families = <<>>
    /\ config = [k \in {"ml_block_threshold"} |-> "1.0"]
    /\ answer = None

-----------------------------------------------------------------------------
(* Users *)

\* The column is a VARCHAR, and compares with case.
UserByEmail(e) ==
    LET found == {id \in DOMAIN users : users[id].email = e}
    IN  /\ \/ found = {} /\ Says("by_email", e, None)
           \/ \E id \in found : Says("by_email", e, Row(users, id))
        /\ UNCHANGED <<users, born, rules, log, config, families>>

UserById(id) ==
    /\ Says("by_id", id, Row(users, id))
    /\ UNCHANGED <<users, born, rules, log, config, families>>

\* ORDER BY created_at DESC
NewestFirst ==
    LET n == Cardinality(DOMAIN born)
    IN  [i \in 1..n |-> Row(users, born[n + 1 - i])]

UserList ==
    /\ Says("list_all", None, NewestFirst)
    /\ UNCHANGED <<users, born, rules, log, config, families>>

\* The unique index on the e-mail admits no second one.
UserCreate(e, role) ==
    /\ \A id \in DOMAIN users : users[id].email # e
    /\ \E id \in Ids \ DOMAIN users :
          LET row == [email |-> e, role |-> role, active |-> TRUE]
          IN  /\ users' = With(users, id, row)
              /\ born' = With(born, Cardinality(DOMAIN born) + 1, id)
              /\ Says("create", <<e, role>>, <<id, row>>)
    /\ UNCHANGED <<rules, log, config, families>>

UserUpdate(id, role, active) ==
    /\ users' = IF id \notin DOMAIN users THEN users
                ELSE [users EXCEPT ![id].role = New(role, @),
                                   ![id].active = New(active, @)]
    /\ Says("update_partial", <<id, role, active>>, Row(users', id))
    /\ UNCHANGED <<born, rules, log, config, families>>

UserDelete(id) ==
    /\ users' = IF id \notin DOMAIN users THEN users
                ELSE [users EXCEPT ![id].active = FALSE]
    /\ Says("delete", id, id \in DOMAIN users)
    /\ UNCHANGED <<born, rules, log, config, families>>

-----------------------------------------------------------------------------
(* Rules *)

RuleByKey(key) ==
    LET found == {id \in DOMAIN rules : rules[id].key = key}
    IN  /\ \/ found = {} /\ Says("get_by_key", key, None)
           \/ \E id \in found : Says("get_by_key", key, Row(rules, id))
        /\ UNCHANGED <<users, born, rules, log, config, families>>

RuleById(id) ==
    /\ Says("get", id, Row(rules, id))
    /\ UNCHANGED <<users, born, rules, log, config, families>>

\* No ORDER BY: PostgreSQL may answer in any order, so the answer is a set.
RuleList ==
    /\ Says("list", None, {Row(rules, id) : id \in DOMAIN rules})
    /\ UNCHANGED <<users, born, rules, log, config, families>>

RuleCreate(key, action) ==
    /\ \A id \in DOMAIN rules : rules[id].key # key
    /\ \E id \in Ids \ DOMAIN rules :
          LET row == [key |-> key, action |-> action, enabled |-> TRUE]
          IN  rules' = With(rules, id, row) /\ Says("create_rule", <<key, action>>, <<id, row>>)
    /\ UNCHANGED <<users, born, log, config, families>>

RuleUpdate(id, action, enabled) ==
    /\ rules' = IF id \notin DOMAIN rules THEN rules
                ELSE [rules EXCEPT ![id].action = New(action, @),
                                   ![id].enabled = New(enabled, @)]
    /\ Says("update", <<id, action, enabled>>, Row(rules', id))
    /\ UNCHANGED <<users, born, log, config, families>>

RuleDelete(id) ==
    /\ rules' = Without(rules, id)
    /\ Says("delete_rule", id, id \in DOMAIN rules)
    /\ UNCHANGED <<users, born, log, config, families>>

-----------------------------------------------------------------------------
(* Audit trail and configuration *)

AuditRecord(action) ==
    LET ts == Cardinality(DOMAIN log) + 1
    IN  /\ ts <= MaxAudit
        /\ log' = With(log, ts, action)
        /\ Says("record", action, None)
        /\ UNCHANGED <<users, born, rules, config, families>>

\* ORDER BY ts DESC LIMIT limit
AuditRecent(limit) ==
    LET n == Cardinality(DOMAIN log)
        most == IF limit < n THEN limit ELSE n
    IN  /\ Says("recent", limit, [i \in 1..most |-> log[n + 1 - i]])
        /\ UNCHANGED <<users, born, rules, log, config, families>>

ConfigGet(key) ==
    /\ Says("get_config", key, IF key \in DOMAIN config THEN config[key] ELSE None)
    /\ UNCHANGED <<users, born, rules, log, config, families>>

ConfigSet(key, value) ==
    /\ config' = With(config, key, value)
    /\ Says("set", <<key, value>>, None)
    /\ UNCHANGED <<users, born, rules, log, families>>

-----------------------------------------------------------------------------
(* Families of refresh tokens *)

FamilyById(id) ==
    /\ Says("family_by_id", id, Row(families, id))
    /\ UNCHANGED <<users, born, rules, log, config, families>>

FamilyCreate ==
    /\ \E id \in Ids \ DOMAIN families :
          LET row == [generation |-> 0, revoked |-> FALSE]
          IN  families' = With(families, id, row) /\ Says("create_family", None, <<id, row>>)
    /\ UNCHANGED <<users, born, rules, log, config>>

\* UPDATE ... WHERE id, revoked_at IS NULL AND generation = expected
FamilyBump(id, expected) ==
    LET matches == id \in DOMAIN families /\ ~families[id].revoked
                      /\ families[id].generation = expected
    IN  /\ expected < MaxGeneration
        /\ families' = IF matches THEN [families EXCEPT ![id].generation = @ + 1]
                       ELSE families
        /\ Says("bump_generation", <<id, expected>>,
                IF matches THEN Row(families', id) ELSE None)
        /\ UNCHANGED <<users, born, rules, log, config>>

FamilyRevoke(id) ==
    /\ families' = IF id \notin DOMAIN families THEN families
                   ELSE [families EXCEPT ![id].revoked = TRUE]
    /\ Says("revoke", id, None)
    /\ UNCHANGED <<users, born, rules, log, config>>

Next ==
    \/ UserList \/ RuleList \/ FamilyCreate
    \/ \E e \in Emails : UserByEmail(e) \/ \E role \in Roles : UserCreate(e, role)
    \/ \E id \in Ids :
          \/ UserById(id) \/ UserDelete(id) \/ RuleById(id) \/ RuleDelete(id)
          \/ FamilyById(id) \/ FamilyRevoke(id)
          \/ \E role \in Change(Roles), active \in Change(BOOLEAN) : UserUpdate(id, role, active)
          \/ \E action \in Change(Actions), enabled \in Change(BOOLEAN) :
                RuleUpdate(id, action, enabled)
          \/ \E expected \in 0..MaxGeneration : FamilyBump(id, expected)
    \/ \E key \in RuleKeys : RuleByKey(key) \/ \E action \in Actions : RuleCreate(key, action)
    \/ \E action \in Actions : AuditRecord(action)
    \/ \E limit \in 1..MaxAudit + 1 : AuditRecent(limit)
    \/ \E key \in ConfigKeys : ConfigGet(key) \/ \E v \in Levels : ConfigSet(key, v)

Spec == Init /\ [][Next]_contractVars
=============================================================================
