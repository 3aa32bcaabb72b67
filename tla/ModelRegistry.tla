----------------------------- MODULE ModelRegistry -----------------------------
(***************************************************************************)
(* The model registry (waf_ml/registry.py): concurrent calls of register,   *)
(* each a PostgreSQL transaction at READ COMMITTED of up to three           *)
(* statements, over the ml_models table with its unique version and its     *)
(* partial unique index on is_active (infra/postgres/init.sql).             *)
(*                                                                         *)
(* An UPDATE works on the rows its snapshot saw and waits for the ones      *)
(* another transaction has written; an entry in a unique index waits for    *)
(* the transactions that could still make it, or leave it, a duplicate.     *)
(***************************************************************************)
EXTENDS Naturals

CONSTANTS
    Versions,  \* values of ml_models.version
    Callers,   \* calls of register in flight
    None

ASSUME ConstantsAssumption == None \notin Versions

VARIABLES
    row,      \* committed status of each version: absent, idle or active
    pc,       \* where each call stands
    version,  \* the version it registers
    activate, \* its activate flag
    target,   \* the active row its first UPDATE saw
    cleared,  \* the row that UPDATE has deactivated
    put,      \* what its upsert did
    lit,      \* it has an entry in the index of active rows
    met       \* history: another call was in flight at the same time

vars == <<row, pc, version, activate, target, cleared, put, lit, met>>

Open(t) == pc[t] # "idle"

Others(t) == {u \in Callers \ {t} : Open(u)}

\* The committed active row.
Active == IF \E v \in Versions : row[v] = "active"
          THEN CHOOSE v \in Versions : row[v] = "active" ELSE None

\* u holds the lock of row v, or has inserted it.
Holds(u, v) == cleared[u] = v \/ (put[u] # "nothing" /\ version[u] = v)

\* Who the next statement of t waits for: the holders of the row it writes ...
RowWaits(t, v) == {u \in Others(t) : v # None /\ Holds(u, v)}

\* ... and, for an entry in the index of active rows, those whose own entry may
\* still come or go.
IndexWaits(t) ==
    {u \in Others(t) : lit[u] \/ (Active # None /\ cleared[u] = Active)}

WaitsFor(t) ==
    CASE pc[t] = "deactivate" -> RowWaits(t, target[t])
      [] pc[t] = "upsert" -> RowWaits(t, version[t])
      [] pc[t] \in {"enter", "light"} /\ activate[t] /\ ~lit[t] -> IndexWaits(t)
      [] OTHER -> {}

\* Calls that all wait for one another.
OnCycle(t) ==
    \E S \in SUBSET Callers :
        /\ t \in S
        /\ \A u \in S : WaitsFor(u) \cap S # {}
        /\ \A w \in S : \E u \in S : w \in WaitsFor(u)

\* Mutated form of the operator below: no unique index.
IndexAccepts(t) == FALSE

\* A committed entry that t has neither cleared nor rewritten.
IndexRefuses(t) == Active \notin {None, cleared[t], version[t]}

Goto(t, step) == pc' = [pc EXCEPT ![t] = step]

Over(t) ==
    /\ pc' = [pc EXCEPT ![t] = "idle"]
    /\ version' = [version EXCEPT ![t] = None]
    /\ activate' = [activate EXCEPT ![t] = FALSE]
    /\ target' = [target EXCEPT ![t] = None]
    /\ cleared' = [cleared EXCEPT ![t] = None]
    /\ put' = [put EXCEPT ![t] = "nothing"]
    /\ lit' = [lit EXCEPT ![t] = FALSE]
    /\ met' = [met EXCEPT ![t] = FALSE]

Init ==
    /\ row = [v \in Versions |-> "absent"]
    /\ pc = [t \in Callers |-> "idle"]
    /\ version = [t \in Callers |-> None]
    /\ activate = [t \in Callers |-> FALSE]
    /\ target = [t \in Callers |-> None]
    /\ cleared = [t \in Callers |-> None]
    /\ put = [t \in Callers |-> "nothing"]
    /\ lit = [t \in Callers |-> FALSE]
    /\ met = [t \in Callers |-> FALSE]

-----------------------------------------------------------------------------
(* register *)

Register(t, v, a) ==
    /\ pc[t] = "idle"
    /\ version' = [version EXCEPT ![t] = v]
    /\ activate' = [activate EXCEPT ![t] = a]
    /\ met' = [u \in Callers |->
                IF u = t THEN Others(t) # {} ELSE met[u] \/ Open(u)]
    /\ Goto(t, IF a THEN "begin" ELSE "upsert")
    /\ UNCHANGED <<row, target, cleared, put, lit>>

\* UPDATE ... SET is_active = FALSE WHERE is_active: the snapshot.
Snapshot(t) ==
    /\ pc[t] = "begin"
    /\ target' = [target EXCEPT ![t] = Active]
    /\ Goto(t, "deactivate")
    /\ UNCHANGED <<row, version, activate, cleared, put, lit, met>>

\* Mutated forms of the step below: each statement commits on its own, and the
\* UPDATE is left out.
DeactivateCommits(t) ==
    /\ pc[t] = "deactivate"
    /\ WaitsFor(t) = {}
    /\ row' = [v \in Versions |-> IF v = target[t] THEN "idle" ELSE row[v]]
    /\ Goto(t, "upsert")
    /\ UNCHANGED <<version, activate, target, cleared, put, lit, met>>
DeactivateNothing(t) ==
    /\ pc[t] = "deactivate"
    /\ Goto(t, "upsert")
    /\ UNCHANGED <<row, version, activate, target, cleared, put, lit, met>>

\* The row is free; the WHERE is evaluated again on what it is now.
Deactivate(t) ==
    /\ pc[t] = "deactivate"
    /\ WaitsFor(t) = {}
    /\ cleared' = [cleared EXCEPT ![t] =
                    IF target[t] = Active THEN target[t] ELSE None]
    /\ Goto(t, "upsert")
    /\ UNCHANGED <<row, version, activate, target, put, lit, met>>

\* INSERT ... ON CONFLICT (version) DO UPDATE, of everything but is_active.  A
\* new row that is active also goes into the other index.
Upsert(t) ==
    /\ pc[t] = "upsert"
    /\ WaitsFor(t) = {}
    /\ IF row[version[t]] = "absent"
       THEN /\ put' = [put EXCEPT ![t] = "inserted"]
            /\ Goto(t, IF activate[t] THEN "enter" ELSE "light")
       ELSE put' = [put EXCEPT ![t] = "updated"] /\ Goto(t, "light")
    /\ UNCHANGED <<row, version, activate, target, cleared, lit, met>>

\* An entry for the row of t in the index of active rows.
Activate(t, next) ==
    /\ WaitsFor(t) = {}
    /\ IF IndexRefuses(t)
       THEN Goto(t, "unique_violation") /\ UNCHANGED lit
       ELSE lit' = [lit EXCEPT ![t] = TRUE] /\ Goto(t, next)
    /\ UNCHANGED <<row, version, activate, target, cleared, put, met>>

Enter(t) == pc[t] = "enter" /\ Activate(t, "light")

\* UPDATE ... SET is_active = TRUE WHERE id = ..., of the row just written.
Light(t) ==
    /\ pc[t] = "light"
    /\ IF activate[t]
       THEN Activate(t, "commit")
       ELSE Goto(t, "commit") /\ UNCHANGED <<row, version, activate, target,
                                             cleared, put, lit, met>>

Commit(t) ==
    /\ pc[t] = "commit"
    /\ row' = [v \in Versions |->
                IF v = version[t] /\ lit[t] THEN "active"
                ELSE IF v = cleared[t] \/ (v = version[t] /\ put[t] = "inserted")
                THEN "idle" ELSE row[v]]
    /\ Over(t)

\* Mutated form of the step below: the unique violation alone is handled.
RollbackViolation(t) ==
    /\ pc[t] = "unique_violation"
    /\ Over(t)
    /\ UNCHANGED row

\* The error leaves the `with` block, which rolls back and re-raises.
Rollback(t) ==
    /\ pc[t] \in {"unique_violation", "deadlock_detected"}
    /\ Over(t)
    /\ UNCHANGED row

\* PostgreSQL fails one of the calls that wait for one another.
DeadlockFails(t) ==
    /\ OnCycle(t)
    /\ Goto(t, "deadlock_detected")
    /\ UNCHANGED <<row, version, activate, target, cleared, put, lit, met>>

\* The connection drops or the trainer dies.
Abort(t) ==
    /\ Open(t)
    /\ Over(t)
    /\ UNCHANGED row

-----------------------------------------------------------------------------
Proceed(t) ==
    \/ Snapshot(t)
    \/ Deactivate(t)
    \/ Upsert(t)
    \/ Enter(t)
    \/ Light(t)
    \/ Commit(t)
    \/ Rollback(t)
    \/ DeadlockFails(t)

Next ==
    \E t \in Callers :
        \/ \E v \in Versions, a \in BOOLEAN : Register(t, v, a)
        \/ Proceed(t)
        \/ Abort(t)

Spec == Init /\ [][Next]_vars

\* Statements run, and PostgreSQL serves the waiters of a lock in turn and checks
\* for deadlocks after deadlock_timeout.
FairSpec == Spec /\ \A t \in Callers : SF_vars(Proceed(t))

-----------------------------------------------------------------------------
(* Properties *)

TypeOK ==
    /\ row \in [Versions -> {"absent", "idle", "active"}]
    /\ pc \in [Callers -> {"idle", "begin", "deactivate", "upsert", "enter", "light",
                           "commit", "unique_violation", "deadlock_detected"}]
    /\ version \in [Callers -> Versions \cup {None}]
    /\ activate \in [Callers -> BOOLEAN]
    /\ target \in [Callers -> Versions \cup {None}]
    /\ cleared \in [Callers -> Versions \cup {None}]
    /\ put \in [Callers -> {"nothing", "inserted", "updated"}]
    /\ lit \in [Callers -> BOOLEAN]
    /\ met \in [Callers -> BOOLEAN]

\* "only one active model at a time" (init.sql).
OneActive ==
    \A v, w \in Versions : row[v] = "active" /\ row[w] = "active" => v = w

\* Once there is an active model there always is one: a reader never falls into
\* the gap between the deactivation and the activation.
AlwaysServed ==
    [][(\E v \in Versions : row[v] = "active")
        => \E v \in Versions : row'[v] = "active"]_vars

\* "so the partial unique index never trips" (register), for a call that has the
\* table to itself.
AloneNeverTrips ==
    \A t \in Callers :
        pc[t] \in {"unique_violation", "deadlock_detected"} => met[t]

\* Every call of register ends, those that wait for one another included: A has
\* rewritten the row of a version and waits for the index, B has deactivated the
\* row in it and waits for that version.
EveryCallEnds == \A t \in Callers : Open(t) ~> ~Open(t)
=============================================================================
