------------------------------ MODULE MlThreshold ------------------------------
(***************************************************************************)
(* The ML block threshold: GET and PUT /ml/threshold (api/ml.py), which     *)
(* drive get_session themselves instead of depending on it, and the         *)
(* ml_config row behind them (PgMlConfigRepo).  The proxy never reads that  *)
(* row: it takes its threshold from the environment (MlScoring).            *)
(*                                                                         *)
(* Thresholds are cut into steps 0..One, One standing for 1.0 (never        *)
(* block).  A stored row may also hold less, or more, or no number at all.   *)
(***************************************************************************)
EXTENDS Integers

CONSTANTS
    One,       \* how finely [0, 1] is cut
    Requests,  \* requests in flight
    Garbage,   \* text float() and tonumber() refuse, and NaN
    Absent     \* no such row, or no value yet

ConstantsAssumption ==
    /\ One \in Nat \ {0}
    /\ Garbage \notin Int /\ Absent \notin Int

Thresholds == 0..One
Raw == -1..(One + 1) \cup {Garbage, Absent}

Rows == [prev : Thresholds, new : Thresholds]

VARIABLES
    stored,    \* committed ml_config row
    audit,     \* committed ml.threshold.update rows
    pc,        \* where each request stands
    prev,      \* the threshold a PUT has read
    new,       \* the value a PUT carries, or the answer of a GET
    row,       \* audit row in the session of a PUT, not committed
    committed, \* history: values PUTs have committed
    answered   \* history: values of PUTs answered 200

vars == <<stored, audit, pc, prev, new, row, committed, answered>>
history == <<committed, answered>>
session == <<prev, new, row>>

\* _parse_threshold.
Parse(raw) ==
    IF raw \in {Garbage, Absent} \/ raw > One THEN One
    ELSE IF raw < 0 THEN 0 ELSE raw

Goto(r, step) == pc' = [pc EXCEPT ![r] = step]

\* get_session's ways out of its yield: resumed, it commits what the session
\* holds; closed (GeneratorExit is no Exception) or by an exception, it does
\* not, and the session drops it.
Kept(r, way) == IF way = "resumed" THEN {row[r]} \ {Absent} ELSE {}

Over(r) ==
    /\ Goto(r, "idle")
    /\ prev' = [prev EXCEPT ![r] = Absent]
    /\ new' = [new EXCEPT ![r] = Absent]
    /\ row' = [row EXCEPT ![r] = Absent]

Init ==
    /\ stored \in {One, Absent}
    /\ audit = {}
    /\ pc = [r \in Requests |-> "idle"]
    /\ prev = [r \in Requests |-> Absent]
    /\ new = [r \in Requests |-> Absent]
    /\ row = [r \in Requests |-> Absent]
    /\ committed = {}
    /\ answered = {}

-----------------------------------------------------------------------------
(* The endpoints *)

\* The first value of get_session, and cfg.get; the body was validated.
PutRead(r, v) ==
    /\ pc[r] = "idle"
    /\ prev' = [prev EXCEPT ![r] = Parse(stored)]
    /\ new' = [new EXCEPT ![r] = v]
    /\ Goto(r, "set")
    /\ UNCHANGED <<stored, audit, row, history>>

\* Mutated form of the step below: the upsert is left to the session to commit.
SetWithoutCommit(r) ==
    /\ pc[r] = "set"
    /\ Goto(r, "record")
    /\ UNCHANGED <<stored, audit, session, history>>

\* cfg.set: the upsert and its own COMMIT.
Set(r) ==
    /\ pc[r] = "set"
    /\ stored' = new[r]
    /\ committed' = committed \cup {new[r]}
    /\ Goto(r, "record")
    /\ UNCHANGED <<audit, session, answered>>

\* audit.record adds the row to the session, and the handler returns out of the
\* `async for`: get_session is left suspended at its yield, before its commit.
Record(r) ==
    /\ pc[r] = "record"
    /\ row' = [row EXCEPT ![r] = [prev |-> prev[r], new |-> new[r]]]
    /\ answered' = answered \cup {new[r]}
    /\ Goto(r, "answered")
    /\ UNCHANGED <<stored, audit, prev, new, committed>>

\* The event loop closes the abandoned generator.
Finalise(r) ==
    /\ pc[r] \in {"answered", "shown"}
    /\ audit' = audit \cup Kept(r, "closed")
    /\ Over(r)
    /\ UNCHANGED <<stored, history>>

Get(r) ==
    /\ pc[r] = "idle"
    /\ new' = [new EXCEPT ![r] = Parse(stored)]
    /\ Goto(r, "shown")
    /\ UNCHANGED <<stored, audit, prev, row, history>>

\* The connection drops or the panel dies; after the answer that makes no
\* difference to Finalise.
Abort(r) ==
    /\ pc[r] \in {"set", "record"}
    /\ Over(r)
    /\ UNCHANGED <<stored, audit, history>>

\* Somebody edits the row by hand ("a corrupted ml_config row").
Edit(raw) ==
    /\ stored' = raw
    /\ UNCHANGED <<audit, pc, session, history>>

-----------------------------------------------------------------------------
Handle(r) ==
    \/ \E v \in Thresholds : PutRead(r, v)
    \/ Set(r)
    \/ Record(r)
    \/ Finalise(r)
    \/ Get(r)
    \/ Abort(r)

Next ==
    \/ \E r \in Requests : Handle(r)
    \/ \E raw \in Raw : Edit(raw)

Spec == Init /\ [][Next]_vars

-----------------------------------------------------------------------------
(* Properties *)

TypeOK ==
    /\ stored \in Raw
    /\ audit \subseteq Rows
    /\ pc \in [Requests -> {"idle", "set", "record", "answered", "shown"}]
    /\ prev \in [Requests -> Thresholds \cup {Absent}]
    /\ new \in [Requests -> Thresholds \cup {Absent}]
    /\ row \in [Requests -> Rows \cup {Absent}]
    /\ committed \subseteq Thresholds
    /\ answered \subseteq Thresholds

\* A PUT that was answered 200 has committed its value, although the session it
\* ran in is thrown away without a commit.
AnswersAreStored == answered \subseteq committed

\* "A mutation and its audit row must succeed or fail together" (ADR-0002), and
\* "Audit-log evidence of every threshold change" (ADR-0011): a change that was
\* answered 200 has its row once the request is over.
ChangeIsAudited ==
    (\A r \in Requests : pc[r] = "idle") =>
        \A v \in answered : \E a \in audit : a.new = v
=============================================================================
