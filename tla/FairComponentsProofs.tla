------------------------- MODULE FairComponentsProofs ------------------------
(***************************************************************************)
(* Theorems about ModelRegistry, for every set of versions and any number of *)
(* concurrent calls, and about LiveDashboard, for any number of sockets and  *)
(* of faults.                                                                *)
(***************************************************************************)
EXTENDS MCFairComponents, TLAPS

-----------------------------------------------------------------------------
(* ModelRegistry *)

-----------------------------------------------------------------------------
(* The inductive invariant.  OneActive is not inductive: that a call commits *)
(* its entry in the index beside no other follows from who waited for whom.  *)

\* What a call knows of its own writes, which its row locks keep true.
Own(t) ==
    /\ pc[t] = "idle" => cleared[t] = None /\ put[t] = "nothing" /\ ~lit[t]
    /\ pc[t] # "idle" => version[t] \in Versions
    /\ pc[t] \in {"begin", "deactivate"} =>
          activate[t] /\ cleared[t] = None /\ put[t] = "nothing" /\ ~lit[t]
    /\ pc[t] = "upsert" => put[t] = "nothing" /\ ~lit[t]
    /\ pc[t] = "enter" => put[t] = "inserted" /\ activate[t] /\ ~lit[t]
    /\ pc[t] \in {"light", "commit"} => put[t] # "nothing"
    /\ pc[t] = "commit" /\ activate[t] => lit[t]
    /\ lit[t] => put[t] # "nothing" /\ activate[t]
    /\ cleared[t] # None => activate[t] /\ row[cleared[t]] = "active"
    /\ put[t] = "inserted" => row[version[t]] = "absent"

\* Two calls never hold the same row, nor two entries of the index.
Apart(t, u) ==
    /\ ~(lit[t] /\ lit[u])
    /\ \A v \in Versions : ~(Holds(t, v) /\ Holds(u, v))

\* A call with an entry in the index has dealt with the one it replaces.
Leads(t) == lit[t] => Active \in {None, cleared[t], version[t]}

\* A call that has met no other sees the table as it is.
Unmet(t) ==
    pc[t] # "idle" /\ ~met[t] =>
        /\ \A u \in Callers \ {t} : pc[u] = "idle"
        /\ pc[t] \notin {"unique_violation", "deadlock_detected"}
        /\ pc[t] = "deactivate" => target[t] = Active
        /\ pc[t] \in {"upsert", "enter", "light"} /\ activate[t] => cleared[t] = Active

IInv ==
    /\ TypeOK
    /\ OneActive
    /\ \A t \in Callers : Own(t) /\ Leads(t) /\ Unmet(t)
    /\ \A t, u \in Callers : t # u => Apart(t, u)

-----------------------------------------------------------------------------
(* The committed active row *)

ActiveOf(f) ==
    IF \E v \in Versions : f[v] = "active"
    THEN CHOOSE v \in Versions : f[v] = "active" ELSE None

Single(f) == \A v, w \in Versions : f[v] = "active" /\ f[w] = "active" => v = w

LEMMA ActiveRow ==
  ASSUME NEW f, Single(f)
  PROVE  /\ ActiveOf(f) \in Versions \cup {None}
         /\ ActiveOf(f) \in Versions => f[ActiveOf(f)] = "active"
         /\ \A v \in Versions : f[v] = "active" => ActiveOf(f) = v
         /\ ActiveOf(f) = None => \A v \in Versions : f[v] # "active"
<1> USE ConstantsAssumption
<1>1. CASE \E v \in Versions : f[v] = "active"
  <2> PICK v \in Versions : f[v] = "active"
    BY <1>1
  <2>1. ActiveOf(f) = CHOOSE w \in Versions : f[w] = "active"
    BY DEF ActiveOf
  <2>2. ActiveOf(f) \in Versions /\ f[ActiveOf(f)] = "active"
    BY <2>1
  <2> QED BY <2>2 DEF Single
<1>2. CASE ~\E v \in Versions : f[v] = "active"
  BY <1>2 DEF ActiveOf
<1> QED BY <1>1, <1>2

\* The same active rows, the same answer.
LEMMA SameActive ==
  ASSUME NEW f, NEW g, Single(f), Single(g),
         \A v \in Versions : f[v] = "active" <=> g[v] = "active"
  PROVE  ActiveOf(f) = ActiveOf(g)
  BY ActiveRow, ConstantsAssumption

LEMMA ActiveNow == Active = ActiveOf(row) /\ Active' = ActiveOf(row')
  BY DEF Active, ActiveOf

-----------------------------------------------------------------------------
(* Steps *)

LEMMA InitIInv == Init => IInv
  BY ConstantsAssumption
  DEF Init, IInv, TypeOK, OneActive, Own, Apart, Leads, Unmet, Holds

\* A statement of t: it touches nothing but its own call.
Statement(t) ==
    /\ row' = row /\ version' = version /\ activate' = activate /\ met' = met
    /\ \A u \in Callers \ {t} :
          /\ pc'[u] = pc[u] /\ target'[u] = target[u] /\ cleared'[u] = cleared[u]
          /\ put'[u] = put[u] /\ lit'[u] = lit[u]

LEMMA OneStatement ==
  ASSUME IInv, NEW t \in Callers, pc[t] # "idle", Statement(t), TypeOK',
         Own(t)', Leads(t)', Unmet(t)',
         \A u \in Callers \ {t} : Apart(t, u)'
  PROVE  IInv'
<1>1. Active' = Active /\ OneActive'
  BY DEF Statement, Active, IInv, OneActive
<1>2. ASSUME NEW u \in Callers \ {t} PROVE Own(u)' /\ Leads(u)' /\ Unmet(u)'
  <2>1. Own(u)'
    BY DEF IInv, Own, Statement
  <2>2. Leads(u)'
    BY <1>1 DEF IInv, Leads, Statement
  <2>3. Unmet(u)'
    BY DEF IInv, Unmet, Statement
  <2> QED BY <2>1, <2>2, <2>3
<1>3. ASSUME NEW u \in Callers, NEW w \in Callers, u # w PROVE Apart(u, w)'
  <2>1. CASE u = t
    BY <1>3, <2>1
  <2>2. CASE w = t
    BY <1>3, <2>2 DEF Apart
  <2>3. CASE u # t /\ w # t
    BY <1>3, <2>3 DEF IInv, Apart, Holds, Statement
  <2> QED BY <2>1, <2>2, <2>3
<1> QED BY <1>1, <1>2, <1>3 DEF IInv

\* What t holds without waiting, nobody else does.
LEMMA NobodyHolds ==
  ASSUME IInv, NEW t \in Callers, NEW v \in Versions, RowWaits(t, v) = {},
         NEW u \in Callers \ {t}
  PROVE  ~Holds(u, v)
<1>1. CASE pc[u] = "idle"
  BY <1>1, ConstantsAssumption DEF IInv, Own, Holds
<1>2. CASE pc[u] # "idle"
  BY <1>2, ConstantsAssumption DEF RowWaits, Others, Open
<1> QED BY <1>1, <1>2

\* Waiting calls have met.
LEMMA UnmetNeverWaits ==
  ASSUME IInv, NEW t \in Callers, pc[t] # "idle", ~met[t]
  PROVE  WaitsFor(t) = {} /\ ~OnCycle(t)
<1>1. Others(t) = {}
  BY DEF IInv, Unmet, Others, Open
<1>2. WaitsFor(t) = {}
  BY <1>1 DEF WaitsFor, RowWaits, IndexWaits
<1> QED BY <1>2 DEF OnCycle

LEMMA StepRegister ==
  ASSUME IInv, NEW t \in Callers, NEW v \in Versions, NEW a \in BOOLEAN, Register(t, v, a)
  PROVE  IInv'
<1> USE ConstantsAssumption
<1>1. /\ pc[t] = "idle" /\ pc'[t] = IF a THEN "begin" ELSE "upsert"
      /\ version'[t] = v /\ activate'[t] = a
      /\ \A u \in Callers \ {t} : /\ pc'[u] = pc[u] /\ version'[u] = version[u]
                                  /\ activate'[u] = activate[u]
      /\ row' = row /\ target' = target /\ cleared' = cleared /\ put' = put /\ lit' = lit
  BY DEF Register, Goto, IInv, TypeOK
<1>2. TypeOK'
  BY DEF Register, Goto, IInv, TypeOK
<1>3. \A u \in Callers : u # t /\ pc[u] # "idle" => met'[u] /\ met'[t]
  BY DEF Register, Others, Open, IInv, TypeOK
<1>4. Active' = Active /\ OneActive'
  BY <1>1 DEF Active, IInv, OneActive
<1>5. ASSUME NEW u \in Callers PROVE Own(u)' /\ Leads(u)'
  <2>1. CASE u = t
    BY <1>1, <2>1 DEF IInv, Own, Leads
  <2>2. CASE u # t
    BY <1>1, <1>4, <2>2 DEF IInv, Own, Leads
  <2> QED BY <2>1, <2>2
<1>6. ASSUME NEW u \in Callers PROVE Unmet(u)'
  <2>1. CASE u = t
    <3>1. pc'[t] \in {"begin", "upsert"} /\ (pc'[t] = "upsert" => ~activate'[t])
      BY <1>1
    <3>2. ASSUME NEW w \in Callers \ {t}, ~met'[t] PROVE pc'[w] = "idle"
      BY <1>1, <1>3, <3>2
    <3> QED BY <2>1, <3>1, <3>2 DEF Unmet
  <2>2. CASE u # t
    BY <1>1, <1>3, <2>2 DEF Unmet
  <2> QED BY <2>1, <2>2
<1>7. ASSUME NEW u \in Callers, NEW w \in Callers, u # w PROVE Apart(u, w)'
  <2>1. \A x \in Callers : \A y \in Versions : Holds(x, y)' => Holds(x, y)
    BY <1>1 DEF IInv, Own, Holds
  <2> QED BY <1>1, <1>7, <2>1 DEF IInv, Apart
<1> QED BY <1>2, <1>4, <1>5, <1>6, <1>7 DEF IInv

LEMMA StepSnapshot ==
  ASSUME IInv, NEW t \in Callers, Snapshot(t)
  PROVE  IInv'
<1> USE ConstantsAssumption
<1>1. /\ pc[t] = "begin" /\ pc'[t] = "deactivate" /\ target'[t] = Active
      /\ cleared' = cleared /\ put' = put /\ lit' = lit /\ Statement(t)
  BY DEF Snapshot, Goto, IInv, TypeOK, Statement
<1>2. Active \in Versions \cup {None} /\ Active' = Active
  BY <1>1, ActiveNow, ActiveRow DEF IInv, OneActive, Single, Statement
<1>3. TypeOK'
  BY <1>2 DEF Snapshot, Goto, IInv, TypeOK
<1>4. Own(t)' /\ Leads(t)'
  BY <1>1, <1>2 DEF IInv, Own, Leads, Statement
<1>5. Unmet(t)'
  BY <1>1, <1>2 DEF IInv, Unmet, Statement
<1>6. \A u \in Callers \ {t} : Apart(t, u)'
  BY <1>1 DEF IInv, Apart, Holds, Statement
<1> QED BY <1>1, <1>3, <1>4, <1>5, <1>6, OneStatement

LEMMA StepDeactivate ==
  ASSUME IInv, NEW t \in Callers, Deactivate(t)
  PROVE  IInv'
<1> USE ConstantsAssumption
<1>1. /\ pc[t] = "deactivate" /\ pc'[t] = "upsert"
      /\ cleared'[t] = IF target[t] = Active THEN target[t] ELSE None
      /\ put' = put /\ lit' = lit /\ Statement(t)
      /\ RowWaits(t, target[t]) = {}
  BY DEF Deactivate, WaitsFor, Goto, IInv, TypeOK, Statement
<1>2. target[t] \in Versions \cup {None} /\ Active' = Active
  BY <1>1 DEF IInv, TypeOK, Active, Statement
<1>3. TypeOK'
  BY <1>2 DEF Deactivate, Goto, IInv, TypeOK
<1>4. cleared'[t] # None => cleared'[t] \in Versions /\ row[cleared'[t]] = "active"
  BY <1>1, <1>2, ActiveNow, ActiveRow DEF IInv, OneActive, Single
<1>5. Own(t)' /\ Leads(t)'
  BY <1>1, <1>4 DEF IInv, Own, Leads, Statement
<1>6. Unmet(t)'
  BY <1>1, <1>2 DEF IInv, Unmet, Statement
<1>7. ASSUME NEW u \in Callers \ {t} PROVE Apart(t, u)'
  <2>1. Apart(t, u)
    BY DEF IInv
  <2>2. ASSUME NEW v \in Versions, Holds(t, v)' PROVE v = target[t] \/ Holds(t, v)
    BY <1>1, <2>2 DEF Holds, Statement
  <2>3. \A v \in Versions : Holds(u, v)' = Holds(u, v)
    BY <1>1 DEF Holds, Statement
  <2>4. \A v \in Versions : v = target[t] => ~Holds(u, v)
    BY <1>1, NobodyHolds
  <2> QED BY <1>1, <2>1, <2>2, <2>3, <2>4 DEF Apart
<1> QED BY <1>1, <1>3, <1>5, <1>6, <1>7, OneStatement

LEMMA StepUpsert ==
  ASSUME IInv, NEW t \in Callers, Upsert(t)
  PROVE  IInv'
<1> USE ConstantsAssumption
<1>1. /\ pc[t] = "upsert" /\ target' = target /\ cleared' = cleared /\ lit' = lit
      /\ Statement(t) /\ RowWaits(t, version[t]) = {}
  BY DEF Upsert, WaitsFor, Goto, IInv, TypeOK, Statement
<1>2. \/ /\ row[version[t]] = "absent" /\ put'[t] = "inserted" /\ activate[t]
         /\ pc'[t] = "enter"
      \/ /\ row[version[t]] = "absent" /\ put'[t] = "inserted" /\ ~activate[t]
         /\ pc'[t] = "light"
      \/ row[version[t]] # "absent" /\ put'[t] = "updated" /\ pc'[t] = "light"
  BY DEF Upsert, Goto, IInv, TypeOK
<1>3. TypeOK' /\ version[t] \in Versions /\ Active' = Active
  BY <1>1 DEF Upsert, Goto, IInv, TypeOK, Own, Active, Statement
<1>4. Own(t)' /\ Leads(t)'
  BY <1>1, <1>2, <1>3 DEF IInv, Own, Leads, Statement
<1>5. Unmet(t)'
  BY <1>1, <1>2, <1>3 DEF IInv, Unmet, Statement
<1>6. ASSUME NEW u \in Callers \ {t} PROVE Apart(t, u)'
  <2>1. Apart(t, u)
    BY DEF IInv
  <2>2. ASSUME NEW v \in Versions, Holds(t, v)' PROVE v = version[t] \/ Holds(t, v)
    BY <1>1, <2>2 DEF Holds, Statement
  <2>3. \A v \in Versions : Holds(u, v)' = Holds(u, v)
    BY <1>1 DEF Holds, Statement
  <2>4. \A v \in Versions : v = version[t] => ~Holds(u, v)
    BY <1>1, NobodyHolds
  <2> QED BY <1>1, <2>1, <2>2, <2>3, <2>4 DEF Apart
<1> QED BY <1>1, <1>3, <1>4, <1>5, <1>6, OneStatement

LEMMA ActivateTypes ==
  ASSUME TypeOK, NEW t \in Callers, NEW next \in {"light", "commit"}, Activate(t, next)
  PROVE  TypeOK'
<1>1. pc' \in [Callers -> {"idle", "begin", "deactivate", "upsert", "enter", "light",
                          "commit", "unique_violation", "deadlock_detected"}]
  BY DEF Activate, Goto, TypeOK
<1>2. lit' \in [Callers -> BOOLEAN]
  BY DEF Activate, TypeOK
<1>3. /\ row' = row /\ version' = version /\ activate' = activate /\ target' = target
      /\ cleared' = cleared /\ put' = put /\ met' = met
  BY DEF Activate
<1> QED BY <1>1, <1>2, <1>3 DEF TypeOK

\* An entry goes into the index beside no other.
LEMMA StepActivate ==
  ASSUME IInv, NEW t \in Callers, NEW next \in {"light", "commit"}, Activate(t, next),
         pc[t] = IF next = "light" THEN "enter" ELSE "light", activate[t]
  PROVE  IInv'
<1> USE ConstantsAssumption
<1>1. /\ target' = target /\ cleared' = cleared /\ put' = put /\ Statement(t)
      /\ WaitsFor(t) = {}
  BY DEF Activate, Goto, IInv, TypeOK, Statement
<1>2. \/ IndexRefuses(t) /\ pc'[t] = "unique_violation" /\ lit' = lit
      \/ ~IndexRefuses(t) /\ pc'[t] = next /\ lit'[t] = TRUE
  BY DEF Activate, Goto, IInv, TypeOK
<1>3. TypeOK' /\ Active' = Active
  BY <1>1, ActivateTypes DEF IInv, Active, Statement
<1>4. put[t] # "nothing" /\ activate'[t]
  BY <1>1 DEF IInv, Own, Statement
<1>5. Own(t)'
  BY <1>1, <1>2, <1>4 DEF IInv, Own, Statement
<1>6. Leads(t)'
  BY <1>1, <1>2, <1>3 DEF IInv, Leads, IndexRefuses, Statement
<1>7. Unmet(t)'
  <2>1. CASE met[t]
    BY <1>1, <2>1 DEF Unmet, Statement
  <2>2. CASE ~met[t]
    <3>1. /\ \A u \in Callers \ {t} : pc[u] = "idle"
          /\ cleared[t] = Active
      BY <2>2 DEF IInv, Unmet
    <3>2. ~IndexRefuses(t)
      BY <3>1 DEF IndexRefuses
    <3> QED BY <1>1, <1>2, <1>3, <3>1, <3>2 DEF Unmet, Statement
  <2> QED BY <2>1, <2>2
<1>8. ASSUME NEW u \in Callers \ {t} PROVE Apart(t, u)'
  <2>1. Apart(t, u)
    BY DEF IInv
  <2>2. lit[t] \/ ~lit[u]
    <3>1. CASE pc[u] = "idle"
      BY <3>1 DEF IInv, Own
    <3>2. CASE pc[u] # "idle"
      BY <1>1, <3>2 DEF WaitsFor, IndexWaits, Others, Open
    <3> QED BY <3>1, <3>2
  <2>3. \A v \in Versions : Holds(t, v)' = Holds(t, v) /\ Holds(u, v)' = Holds(u, v)
    BY <1>1 DEF Holds, Statement
  <2> QED BY <1>1, <1>2, <2>1, <2>2, <2>3 DEF Apart, Statement
<1> QED BY <1>1, <1>3, <1>5, <1>6, <1>7, <1>8, OneStatement

LEMMA StepLight ==
  ASSUME IInv, NEW t \in Callers, Light(t)
  PROVE  IInv'
<1> USE ConstantsAssumption
<1>1. CASE activate[t]
  BY <1>1, StepActivate DEF Light
<1>2. CASE ~activate[t]
  <2>1. /\ pc[t] = "light" /\ pc'[t] = "commit" /\ target' = target
        /\ cleared' = cleared /\ put' = put /\ lit' = lit /\ Statement(t)
    BY <1>2 DEF Light, Goto, IInv, TypeOK, Statement
  <2>2. TypeOK' /\ Active' = Active
    BY <1>2 DEF Light, Goto, IInv, TypeOK, Active
  <2>3. Own(t)' /\ Leads(t)' /\ Unmet(t)'
    BY <1>2, <2>1, <2>2 DEF IInv, Own, Leads, Unmet, Statement
  <2>4. \A u \in Callers \ {t} : Apart(t, u)'
    BY <2>1 DEF IInv, Apart, Holds, Statement
  <2> QED BY <2>1, <2>2, <2>3, <2>4, OneStatement
<1> QED BY <1>1, <1>2

LEMMA StepDeadlock ==
  ASSUME IInv, NEW t \in Callers, DeadlockFails(t)
  PROVE  IInv'
<1> USE ConstantsAssumption
<1>1. WaitsFor(t) # {}
  BY DEF DeadlockFails, OnCycle
<1>2. pc[t] # "idle" /\ met[t]
  BY <1>1, UnmetNeverWaits DEF WaitsFor
<1>3. /\ pc'[t] = "deadlock_detected" /\ target' = target
      /\ cleared' = cleared /\ put' = put /\ lit' = lit /\ Statement(t)
  BY DEF DeadlockFails, Goto, IInv, TypeOK, Statement
<1>4. TypeOK' /\ Active' = Active
  BY DEF DeadlockFails, Goto, IInv, TypeOK, Active
<1>5. Own(t)' /\ Leads(t)' /\ Unmet(t)'
  BY <1>2, <1>3, <1>4 DEF IInv, Own, Leads, Unmet, Statement
<1>6. \A u \in Callers \ {t} : Apart(t, u)'
  BY <1>3 DEF IInv, Apart, Holds, Statement
<1> QED BY <1>2, <1>3, <1>4, <1>5, <1>6, OneStatement

-----------------------------------------------------------------------------
(* The end of a call *)

LEMMA OverEffect ==
  ASSUME TypeOK, NEW t \in Callers, Over(t)
  PROVE  /\ pc'[t] = "idle" /\ cleared'[t] = None /\ put'[t] = "nothing" /\ ~lit'[t]
         /\ \A u \in Callers \ {t} :
              /\ pc'[u] = pc[u] /\ version'[u] = version[u] /\ activate'[u] = activate[u]
              /\ target'[u] = target[u] /\ cleared'[u] = cleared[u] /\ put'[u] = put[u]
              /\ lit'[u] = lit[u] /\ met'[u] = met[u]
  BY DEF Over, TypeOK

\* The rows of the other calls are as they were, and so is what they replace.
LEMMA OneOver ==
  ASSUME IInv, NEW t \in Callers, pc[t] # "idle", Over(t),
         row' \in [Versions -> {"absent", "idle", "active"}], OneActive',
         \A v \in Versions : ~Holds(t, v) => row'[v] = row[v],
         lit[t] \/ Active' = Active
  PROVE  IInv'
<1> USE ConstantsAssumption
<1>1. TypeOK'
  BY DEF Over, IInv, TypeOK
<1>2. Own(t)' /\ Leads(t)' /\ Unmet(t)'
  BY OverEffect DEF IInv, Own, Leads, Unmet
<1>3. ASSUME NEW u \in Callers \ {t} PROVE Own(u)' /\ Leads(u)' /\ Unmet(u)'
  <2>1. Apart(t, u) /\ Own(u) /\ Leads(u) /\ Unmet(u)
    BY DEF IInv
  <2>2. cleared[u] # None => row'[cleared[u]] = row[cleared[u]]
    <3>1. cleared[u] \in Versions \cup {None}
      BY DEF IInv, TypeOK
    <3> QED BY <2>1, <3>1 DEF Apart, Holds
  <2>3. put[u] = "inserted" => row'[version[u]] = row[version[u]]
    <3>1. put[u] = "inserted" => version[u] \in Versions
      BY <2>1 DEF Own
    <3> QED BY <2>1, <3>1 DEF Apart, Holds
  <2>4. Own(u)'
    BY <2>1, <2>2, <2>3, OverEffect DEF Own, IInv
  <2>5. Leads(u)'
    BY <2>1, OverEffect DEF Leads, Apart, IInv
  <2>6. Unmet(u)'
    BY <2>1, OverEffect DEF Unmet, IInv
  <2> QED BY <2>4, <2>5, <2>6
<1>4. ASSUME NEW u \in Callers, NEW w \in Callers, u # w PROVE Apart(u, w)'
  <2>1. Apart(u, w)
    BY <1>4 DEF IInv
  <2>2. ASSUME NEW x \in Callers PROVE lit'[x] => lit[x]
    BY <2>2, OverEffect DEF IInv
  <2>3. ASSUME NEW x \in Callers, NEW v \in Versions, Holds(x, v)' PROVE Holds(x, v)
    BY <2>3, OverEffect DEF IInv, Holds
  <2> QED BY <2>1, <2>2, <2>3 DEF Apart
<1> QED BY <1>1, <1>2, <1>3, <1>4 DEF IInv

LEMMA StepCommit ==
  ASSUME IInv, NEW t \in Callers, Commit(t)
  PROVE  IInv'
<1> USE ConstantsAssumption
<1>1. /\ pc[t] = "commit" /\ Over(t)
      /\ row' = [v \in Versions |->
                  IF v = version[t] /\ lit[t] THEN "active"
                  ELSE IF v = cleared[t] \/ (v = version[t] /\ put[t] = "inserted")
                  THEN "idle" ELSE row[v]]
  BY DEF Commit
<1>2. put[t] # "nothing" /\ version[t] \in Versions /\ Own(t) /\ Leads(t)
  BY <1>1 DEF IInv, Own
<1>3. row \in [Versions -> {"absent", "idle", "active"}] /\ Single(row)
  BY DEF IInv, TypeOK, OneActive, Single
<1>4. row' \in [Versions -> {"absent", "idle", "active"}]
  BY <1>1, <1>3
<1>5. \A v \in Versions : ~Holds(t, v) => row'[v] = row[v]
  BY <1>1, <1>2, <1>3 DEF Holds
<1>6. CASE lit[t]
  <2>1. ASSUME NEW v \in Versions, row'[v] = "active" PROVE v = version[t]
    <3> SUFFICES ASSUME v # version[t] PROVE FALSE
      OBVIOUS
    <3>1. row[v] = "active" /\ v # cleared[t]
      BY <1>1, <2>1
    <3>2. Active = v
      BY <1>3, <3>1, ActiveNow, ActiveRow
    <3> QED BY <1>2, <1>6, <3>1, <3>2 DEF Leads
  <2>2. OneActive'
    BY <2>1 DEF OneActive
  <2> QED BY <1>1, <1>4, <1>5, <1>6, <2>2, OneOver
<1>7. CASE ~lit[t]
  <2>1. cleared[t] = None
    BY <1>1, <1>2, <1>7 DEF Own
  <2>2. \A v \in Versions : row'[v] = "active" <=> row[v] = "active"
    BY <1>1, <1>2, <1>3, <1>7, <2>1 DEF Own
  <2>3. Single(row') /\ OneActive'
    BY <1>3, <2>2 DEF Single, OneActive
  <2>4. Active' = Active
    BY <1>3, <2>2, <2>3, SameActive, ActiveNow
  <2> QED BY <1>1, <1>4, <1>5, <2>3, <2>4, OneOver
<1> QED BY <1>6, <1>7

LEMMA StepUndone ==
  ASSUME IInv, NEW t \in Callers, Rollback(t) \/ Abort(t)
  PROVE  IInv'
<1>1. pc[t] # "idle" /\ Over(t) /\ row' = row
  BY DEF Rollback, Abort, Open
<1>2. row \in [Versions -> {"absent", "idle", "active"}] /\ OneActive' /\ Active' = Active
  BY <1>1 DEF IInv, TypeOK, OneActive, Active
<1> QED BY <1>1, <1>2, OneOver

LEMMA StepIInv == IInv /\ [Next]_vars => IInv'
<1> SUFFICES ASSUME IInv, [Next]_vars PROVE IInv'
  OBVIOUS
<1>1. CASE UNCHANGED vars
  BY <1>1 DEF vars, IInv, TypeOK, OneActive, Own, Leads, Unmet, Apart, Holds, Active
<1>2. ASSUME NEW t \in Callers, Enter(t) PROVE IInv'
  <2>1. activate[t]
    BY <1>2 DEF Enter, IInv, Own
  <2> QED BY <1>2, <2>1, StepActivate DEF Enter
<1> QED
  BY <1>1, <1>2, StepRegister, StepSnapshot, StepDeactivate, StepUpsert, StepLight,
     StepDeadlock, StepCommit, StepUndone
  DEF Next, Proceed

\* The invariant holds in every reachable state.
THEOREM Invariance == Spec => []IInv
  BY InitIInv, StepIInv, PTL DEF Spec

-----------------------------------------------------------------------------
(* Theorems *)

\* The variables keep their types.
THEOREM TypeCorrect == Spec => []TypeOK
<1>1. IInv => TypeOK
  BY DEF IInv
<1> QED BY <1>1, Invariance, PTL

\* Never two active models, however many calls register at once.
THEOREM ActiveIsUnique == Spec => []OneActive
<1>1. IInv => OneActive
  BY DEF IInv
<1> QED BY <1>1, Invariance, PTL

\* A call that has the table to itself never trips the index.
THEOREM AloneSucceeds == Spec => []AloneNeverTrips
<1>1. IInv => AloneNeverTrips
  BY DEF IInv, Unmet, AloneNeverTrips
<1> QED BY <1>1, Invariance, PTL

\* A reader never falls into a gap between two active models.
THEOREM NoGap == Spec => AlwaysServed
<1> DEFINE Served == (\E v \in Versions : row[v] = "active")
                     => \E v \in Versions : row'[v] = "active"
<1>1. IInv /\ [Next]_vars => [Served]_vars
  <2> SUFFICES ASSUME IInv, [Next]_vars PROVE Served
    OBVIOUS
  <2>1. CASE row' = row
    BY <2>1
  <2>2. ASSUME NEW t \in Callers, Commit(t) PROVE Served
    <3>1. pc[t] = "commit" /\ Own(t) /\ version[t] \in Versions
      BY <2>2 DEF Commit, IInv, Own
    <3>2. CASE lit[t]
      BY <2>2, <3>1, <3>2 DEF Commit
    <3>3. CASE ~lit[t]
      <4>1. cleared[t] = None
        BY <3>1, <3>3 DEF Own
      <4>2. \A v \in Versions : row[v] = "active" => row'[v] = "active"
        BY <2>2, <3>1, <3>3, <4>1, ConstantsAssumption DEF Commit, Own
      <4> QED BY <4>2
    <3> QED BY <3>2, <3>3
  <2> QED BY <2>1, <2>2
      DEF Next, Proceed, Register, Snapshot, Deactivate, Upsert, Enter, Light, Activate,
          Rollback, DeadlockFails, Abort, vars
<1> QED BY <1>1, Invariance, PTL DEF Spec, AlwaysServed

-----------------------------------------------------------------------------
(* LiveDashboard *)

\* A reconnect is scheduled only for a page that is shown.
TimerIsOfPage == timer => mounted

\* A socket whose close event is due is, like a live one, the last one connected.
OneOpen ==
    \A s \in Sockets : client[s] # "closed" => mounted /\ s = ref /\ ~timer

LiveInv == Live!TypeOK /\ TimerIsOfPage /\ OneOpen

\* The tab begins without a page, and so without a socket.
LEMMA LiveInit == Live!Init => LiveInv
<1> SUFFICES ASSUME Live!Init
             PROVE  LiveInv
  OBVIOUS
<1>1. {up, session, authed, shown, mounted, timer} \subseteq BOOLEAN
  BY Zenon DEF Live!Init
<1>2. faults \in 0..MaxFaults
  BY InstanceAssumption DEF Live!Init, Live!ConstantsAssumption
<1>3. /\ ref \in Sockets \cup {Live!NoSocket}
      /\ client \in [Sockets -> {"closed", "connecting", "open", "lost"}]
      /\ loop \subseteq Sockets
  BY DEF Live!Init
<1>4. TimerIsOfPage /\ OneOpen
  BY DEF Live!Init, TimerIsOfPage, OneOpen
<1> QED
  BY <1>1, <1>2, <1>3, <1>4 DEF LiveInv, Live!TypeOK

\* What the hook and the browser do with a socket.
LEMMA LiveHook ==
  ASSUME LiveInv, NEW s \in Sockets,
         \/ Live!Mount(s) \/ Live!Fire(s) \/ Live!Open(s) \/ Live!Close(s)
  PROVE  LiveInv'
<1> USE DEF LiveInv, Live!TypeOK, TimerIsOfPage, OneOpen, Live!page,
            Live!Connect
<1>1. CASE Live!Mount(s)
  BY <1>1 DEF Live!Mount
<1>2. CASE Live!Fire(s)
  BY <1>2 DEF Live!Fire
<1>3. CASE Live!Open(s)
  BY <1>3 DEF Live!Open
<1>4. CASE Live!Close(s)
  BY <1>4 DEF Live!Close
<1> QED
  BY <1>1, <1>2, <1>3, <1>4

\* The clean-up closes the only socket that can be live, and its timer.
LEMMA LiveCleanup ==
  ASSUME LiveInv, Live!Leave \/ Live!Bounce \/ Live!Logout
  PROVE  LiveInv'
<1>1. /\ mounted' = FALSE /\ timer' = FALSE /\ ref' = Live!NoSocket
      /\ client' \in [Sockets -> {"closed", "connecting", "open", "lost"}]
      /\ \A s \in Sockets : client'[s] = "closed"
  BY DEF LiveInv, Live!TypeOK, OneOpen, Live!Leave, Live!Bounce,
         Live!Logout, Live!Cleanup
<1>2. {up', session', authed', shown'} \subseteq BOOLEAN /\ loop' = loop /\ faults' = faults
  BY DEF LiveInv, Live!TypeOK, Live!Leave, Live!Bounce, Live!Logout
<1> QED
  BY <1>1, <1>2
  DEF LiveInv, Live!TypeOK, TimerIsOfPage, OneOpen

\* What the server and the network do to a socket: none comes to life.
LEMMA LiveServer ==
  ASSUME LiveInv, NEW s \in Sockets,
         Live!Accept(s) \/ Live!Refuse(s) \/ Live!SendFails(s) \/ Live!Drop(s)
  PROVE  LiveInv'
<1> USE DEF LiveInv, Live!TypeOK, TimerIsOfPage, OneOpen, Live!page
<1>1. CASE Live!Accept(s)
  BY <1>1 DEF Live!Accept
<1>2. CASE Live!Refuse(s)
  BY <1>2 DEF Live!Refuse
<1>3. CASE Live!SendFails(s)
  BY <1>3 DEF Live!SendFails
<1>4. CASE Live!Drop(s)
  BY <1>4, InstanceAssumption DEF Live!Drop, Live!ConstantsAssumption
<1> QED
  BY <1>1, <1>2, <1>3, <1>4

\* Nor does a login, an expiry, or the death of the server and its return.
LEMMA LiveRest ==
  ASSUME LiveInv, Live!Login \/ Live!Die \/ Live!Start \/ Live!Expire \/ Live!Switch
  PROVE  LiveInv'
<1> USE DEF LiveInv, Live!TypeOK, TimerIsOfPage, OneOpen, Live!page
<1>1. CASE Live!Login
  BY <1>1 DEF Live!Login
<1>2. CASE Live!Die
  <2>1. {up', session', authed', shown', mounted', timer'} \subseteq BOOLEAN
    BY <1>2, Zenon DEF Live!Die
  <2>2. faults' \in 0..MaxFaults
    BY <1>2, InstanceAssumption DEF Live!Die, Live!ConstantsAssumption
  <2>3. /\ client' \in [Sockets -> {"closed", "connecting", "open", "lost"}]
        /\ \A s \in Sockets : client'[s] # "closed" => client[s] # "closed"
    BY <1>2 DEF Live!Die
  <2>4. loop' = {} /\ ref' = ref /\ mounted' = mounted /\ timer' = timer
    BY <1>2 DEF Live!Die
  <2> QED
    BY <2>1, <2>2, <2>3, <2>4
<1>3. CASE Live!Start
  BY <1>3 DEF Live!Start
<1>4. CASE Live!Expire
  BY <1>4 DEF Live!Expire
<1>5. CASE Live!Switch
  <2>1. {up', session', authed', shown', mounted', timer'} \subseteq BOOLEAN
    BY <1>5, Zenon DEF Live!Switch
  <2>2. UNCHANGED <<mounted, ref, timer, client, loop, faults>>
    BY <1>5 DEF Live!Switch
  <2> QED
    BY <2>1, <2>2
<1> QED
  BY <1>1, <1>2, <1>3, <1>4, <1>5

\* Every step keeps the invariant.
LEMMA LiveStep == LiveInv /\ [Live!Next]_liveVars => LiveInv'
<1> SUFFICES ASSUME LiveInv, [Live!Next]_liveVars
             PROVE  LiveInv'
  OBVIOUS
<1>1. CASE Live!Next
  BY <1>1, LiveHook, LiveCleanup, LiveServer, LiveRest
  DEF Live!Next, Live!Browser, Live!Server
<1>2. CASE UNCHANGED liveVars
  BY <1>2 DEF liveVars, LiveInv, Live!TypeOK, TimerIsOfPage, OneOpen
<1> QED
  BY <1>1, <1>2

\* The tab has one live socket at most (useLiveDashboard.ts): that of the page it
\* shows, and none while a reconnect is scheduled.
THEOREM SocketIsOne == Live!Spec => []OneSocket
<1>1. [Live!Next]_(Live!vars) => [Live!Next]_liveVars
  BY DEF Live!vars, liveVars
<1>2. LiveInv => OneSocket
  BY DEF LiveInv, OneOpen, OneSocket, Live!OneSocket
<1> QED
  BY LiveInit, LiveStep, <1>1, <1>2, PTL DEF Live!Spec

-----------------------------------------------------------------------------
(* The run of MCFairComponents, where one of the two moves *)

\* A behaviour of the run is one of both components.
THEOREM RunIsOfBoth == OneFairSpec => Spec /\ Live!Spec
<1>1. OneInit => Init /\ Live!Init
  BY DEF OneInit
<1>2. [OneNext]_<<running, vars, liveVars>> => [Next]_vars
  BY DEF OneNext, vars
<1>3. [OneNext]_<<running, vars, liveVars>> => [Live!Next]_(Live!vars)
  BY DEF OneNext, liveVars, Live!vars
<1> QED
  BY <1>1, <1>2, <1>3, PTL DEF OneFairSpec, Spec, Live!Spec

\* What MCFairComponents checks of their safety on a small instance, for every one.
THEOREM RunKeepsPromises ==
  OneFairSpec => [](OneActive /\ AloneNeverTrips /\ OneSocket) /\ AlwaysServed
  BY RunIsOfBoth, ActiveIsUnique, AloneSucceeds, NoGap, SocketIsOne, PTL
==============================================================================
