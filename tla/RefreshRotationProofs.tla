------------------------ MODULE RefreshRotationProofs ------------------------
(***************************************************************************)
(* Theorems about RefreshRotation, for every set of families, users and     *)
(* request slots, every bound on generations and both orders of the COMMIT  *)
(* and the response.                                                        *)
(***************************************************************************)
EXTENDS RefreshRotation, TLAPS

-------------------------------
(* The inductive invariant.  TypeOK and SingleUse are not inductive: that a  *)
(* rotation commits onto the row its compare-and-swap matched follows from   *)
(* the row lock, and that an INSERT commits onto an absent row from the      *)
(* freshness of generated ids.                                               *)

\* r will insert, or has inserted, a family no other transaction can see.
Opening(r) == InTx(r) /\ (pc[r] = "login" \/ write[r] = "open")

\* What each step of a handler knows of its claims and its pending write.
Staged ==
    \A r \in Requests :
        /\ pc[r] = "idle" => write[r] = "none"
        /\ pc[r] \in {"login", "rotate", "replay", "logout"} => write[r] = "none"
        /\ pc[r] = "bumped" => write[r] = "bump"
        /\ write[r] = "open" => pc[r] \in {"returned", "replied", "committed"}
        /\ pc[r] \in {"login", "rotate", "replay", "logout", "bumped"}
               => tok[r] \in Tokens
        /\ write[r] # "none" => tok[r] \in Tokens
        /\ pc[r] = "rotate" \/ write[r] = "bump" => tok[r].gen < MaxGen

\* At most one open transaction has written a family.
Exclusive ==
    \A r, s \in Requests : \A f \in Families :
        Writes(r, f) /\ Writes(s, f) => r = s

\* The row a pending UPDATE matched is still the committed one.
UpdateIsCurrent ==
    \A r \in Requests :
        /\ InTx(r) /\ write[r] = "bump" => CasMatches(tok[r])
        /\ pc[r] = "replay" \/ (InTx(r) /\ write[r] = "revoke")
               => family[tok[r].fam].status # "absent"

\* A pending INSERT is of an id nobody else has.
OpeningIsFresh ==
    \A r \in Requests :
        Opening(r) =>
            /\ tok[r].gen = 0
            /\ tok[r].fam \in minted
            /\ family[tok[r].fam].status = "absent"
            /\ \A s \in Requests \ {r} : Opening(s) => tok[s].fam # tok[r].fam

\* Absent rows are blank, present rows have minted ids.
Recorded ==
    \A f \in Families :
        IF family[f].status = "absent" THEN family[f].gen = 0 ELSE f \in minted

\* A redeemed token is older than its family's generation.
SpentIsPast == \A t \in spent : t[2] < family[t[1]].gen

IInv ==
    /\ TypeOK
    /\ Staged
    /\ Exclusive
    /\ UpdateIsCurrent
    /\ OpeningIsFresh
    /\ Recorded
    /\ SpentIsPast

-------------------------------
\* The empty tables with no request in flight satisfy the invariant.
LEMMA InitIInv == Init => IInv
  BY ConstantsAssumption
  DEF Init, IInv, TypeOK, Staged, Exclusive, UpdateIsCurrent, OpeningIsFresh,
      Recorded, SpentIsPast, Opening, Writes, Gens, Steps

\* What one commit does to the family table and to the history, from the four
\* writes a transaction can have pending.
Inserts(f) ==
    /\ family[f].status = "absent"
    /\ family' = [family EXCEPT ![f] = [status |-> "live", gen |-> 0]]
    /\ spent' = spent

Rotates(f, g) ==
    /\ Live(f)
    /\ g \in Nat
    /\ family[f].gen = g
    /\ family' = [family EXCEPT ![f].gen = g + 1]
    /\ spent' = spent \cup {<<f, g>>}

Revokes(f) ==
    /\ family[f].status # "absent"
    /\ family' = [family EXCEPT ![f].status = "revoked"]
    /\ spent' = spent

LEMMA CommitEffect ==
    ASSUME TypeOK, Staged, UpdateIsCurrent, OpeningIsFresh,
           NEW r \in Requests, Commit(r)
    PROVE  /\ InTx(r)
           /\ CASE write[r] = "none" -> UNCHANGED <<family, spent>>
                [] write[r] = "open" -> tok[r].fam \in Families /\ Inserts(tok[r].fam)
                [] write[r] = "bump" ->
                     /\ tok[r].fam \in Families
                     /\ Rotates(tok[r].fam, tok[r].gen)
                     /\ tok[r].gen < MaxGen
                [] write[r] = "revoke" ->
                     tok[r].fam \in Families /\ Revokes(tok[r].fam)
<1> USE ConstantsAssumption
<1>1. InTx(r)
  BY DEF Commit, InTx
<1>2. write[r] \in {"none", "open", "bump", "revoke"}
  BY DEF TypeOK
<1>3. write[r] # "none" => tok[r] \in Tokens
  BY DEF Staged
<1>4. CASE write[r] = "none"
  BY <1>1, <1>4 DEF Commit, Applied
<1>5. CASE write[r] = "open"
  <2>1. tok[r].fam \in Families
    BY <1>3, <1>5 DEF Tokens
  <2>2. family[tok[r].fam].status = "absent"
    BY <1>1, <1>5 DEF OpeningIsFresh, Opening
  <2>3. Inserts(tok[r].fam)
    BY <1>5, <2>2 DEF Commit, Applied, Inserts
  <2> QED BY <1>1, <1>5, <2>1, <2>3
<1>6. CASE write[r] = "bump"
  <2>1. tok[r].fam \in Families /\ tok[r].gen \in Nat /\ tok[r].gen < MaxGen
    BY <1>3, <1>6 DEF Tokens, Gens, Staged
  <2>2. CasMatches(tok[r])
    BY <1>1, <1>6 DEF UpdateIsCurrent
  <2>3. /\ family' = [family EXCEPT ![tok[r].fam].gen = family[tok[r].fam].gen + 1]
        /\ spent' = spent \cup {<<tok[r].fam, tok[r].gen>>}
    BY <1>6 DEF Commit, Applied
  <2>4. Rotates(tok[r].fam, tok[r].gen)
    BY <2>1, <2>2, <2>3 DEF CasMatches, Rotates
  <2> QED BY <1>1, <1>6, <2>1, <2>4
<1>7. CASE write[r] = "revoke"
  <2>1. tok[r].fam \in Families
    BY <1>3, <1>7 DEF Tokens
  <2>2. Revokes(tok[r].fam)
    BY <1>1, <1>7 DEF Commit, Applied, Revokes, UpdateIsCurrent
  <2> QED BY <1>1, <1>7, <2>1, <2>2
<1> QED BY <1>2, <1>4, <1>5, <1>6, <1>7

\* A response carries tokens and reports audit rows.
LEMMA SaidIsTyped ==
    ASSUME TypeOK, Staged, NEW r \in Requests
    PROVE  NewTokens(r) \subseteq Tokens /\ Reported(r) \subseteq Rows
<1> USE ConstantsAssumption
<1>1. NewTokens(r) \subseteq Tokens
  <2>1. CASE write[r] = "open"
    BY <2>1 DEF NewTokens, Staged
  <2>2. CASE write[r] = "bump"
    <3>1. tok[r] \in Tokens /\ tok[r].gen + 1 \in Gens
      BY <2>2 DEF Staged, Tokens, Gens
    <3>2. [tok[r] EXCEPT !.gen = @ + 1] \in Tokens
      BY <3>1 DEF Tokens
    <3> QED BY <2>2, <3>2 DEF NewTokens
  <2>3. CASE write[r] \notin {"open", "bump"}
    BY <2>3 DEF NewTokens
  <2> QED BY <2>1, <2>2, <2>3
<1>2. Reported(r) \subseteq Rows
  BY DEF Reported, TypeOK
<1> QED BY <1>1, <1>2

LEMMA UnkeptIsTyped ==
    ASSUME TypeOK, Staged, NEW R \in SUBSET Requests
    PROVE  Unkept(R) \subseteq Tokens \cup Rows
  BY SaidIsTyped DEF Unkept, Said

\* Every handler step, commit, rollback, abort and restart preserves it.
LEMMA StepIInv == IInv /\ [Next]_vars => IInv'
<1> SUFFICES ASSUME TypeOK, Staged, Exclusive, UpdateIsCurrent, OpeningIsFresh,
                    Recorded, SpentIsPast, [Next]_vars
             PROVE  IInv'
  BY DEF IInv
<1> USE ConstantsAssumption
<1>1. ASSUME NEW r \in Requests, NEW u \in Users, NEW f \in Families, LoginVerify(r, u, f)
      PROVE  IInv'
  <2>1. TypeOK'
    BY <1>1
    DEF LoginVerify, TypeOK, Recorded, Goto, Tokens, Rows, Actions, Steps,
        database, client
  <2>2. Staged'
    BY <1>1 DEF LoginVerify, Staged, TypeOK, Recorded, Goto, Tokens
  <2>3. Exclusive'
    BY <1>1 DEF LoginVerify, Exclusive, Staged, InTx, Writes, Goto
  <2>4. UpdateIsCurrent'
    BY <1>1
    DEF LoginVerify, UpdateIsCurrent, Staged, InTx, Live, CasMatches, Goto,
        database
  <2>5. OpeningIsFresh'
    BY <1>1
    DEF LoginVerify, OpeningIsFresh, TypeOK, Recorded, Opening, InTx, Goto,
        database
  <2>6. Recorded' /\ SpentIsPast'
    BY <1>1 DEF LoginVerify, Recorded, SpentIsPast, database
  <2> QED BY <2>1, <2>2, <2>3, <2>4, <2>5, <2>6 DEF IInv
<1>2. ASSUME NEW r \in Requests, NEW u \in Users, LoginFail(r, u) PROVE IInv'
  <2>1. TypeOK'
    BY <1>2 DEF LoginFail, TypeOK, Goto, Rows, Actions, Steps, database, client
  <2>2. Staged'
    BY <1>2 DEF LoginFail, Staged, Goto
  <2>3. Exclusive'
    BY <1>2 DEF LoginFail, Exclusive, Staged, InTx, Writes, Goto
  <2>4. UpdateIsCurrent'
    BY <1>2
    DEF LoginFail, UpdateIsCurrent, Staged, InTx, Live, CasMatches, Goto, database
  <2>5. OpeningIsFresh'
    BY <1>2 DEF LoginFail, OpeningIsFresh, Staged, Opening, InTx, Goto, database
  <2>6. Recorded' /\ SpentIsPast'
    BY <1>2 DEF LoginFail, Recorded, SpentIsPast, database
  <2> QED BY <2>1, <2>2, <2>3, <2>4, <2>5, <2>6 DEF IInv
<1>3. ASSUME NEW r \in Requests, LoginOpen(r) PROVE IInv'
  <2>1. TypeOK'
    BY <1>3 DEF LoginOpen, TypeOK, Goto, Steps, database, client
  <2>2. Staged'
    BY <1>3 DEF LoginOpen, Staged, TypeOK, Goto
  <2>3. Exclusive'
    BY <1>3 DEF LoginOpen, Exclusive, InTx, Writes, Goto
  <2>4. UpdateIsCurrent'
    BY <1>3 DEF LoginOpen, UpdateIsCurrent, InTx, Live, CasMatches, Goto, database
  <2>5. OpeningIsFresh'
    BY <1>3 DEF LoginOpen, OpeningIsFresh, Opening, InTx, Goto, database
  <2>6. Recorded' /\ SpentIsPast'
    BY <1>3 DEF LoginOpen, Recorded, SpentIsPast, database
  <2> QED BY <2>1, <2>2, <2>3, <2>4, <2>5, <2>6 DEF IInv
<1>4. ASSUME NEW r \in Requests, NEW t \in held, RefreshRead(r, t) PROVE IInv'
  <2>1. TypeOK'
    BY <1>4 DEF RefreshRead, TypeOK, Verdict, Goto, Steps, database, client
  <2>2. Staged'
    BY <1>4 DEF RefreshRead, Staged, TypeOK, Verdict, Goto
  <2>3. Exclusive'
    BY <1>4 DEF RefreshRead, Exclusive, Staged, InTx, Writes, Goto
  <2>4. UpdateIsCurrent'
    BY <1>4
    DEF RefreshRead, UpdateIsCurrent, TypeOK, Staged, InTx, Live, CasMatches,
        Verdict, Goto, database
  <2>5. OpeningIsFresh'
    BY <1>4
    DEF RefreshRead, OpeningIsFresh, Staged, Opening, InTx, Verdict, Goto,
        database
  <2>6. Recorded' /\ SpentIsPast'
    BY <1>4 DEF RefreshRead, Recorded, SpentIsPast, database
  <2> QED BY <2>1, <2>2, <2>3, <2>4, <2>5, <2>6 DEF IInv
<1>5. ASSUME NEW r \in Requests, BumpWins(r) PROVE IInv'
  <2>1. TypeOK'
    BY <1>5 DEF BumpWins, TypeOK, Goto, Steps, database, client
  <2>2. Staged'
    BY <1>5 DEF BumpWins, Staged, TypeOK, Goto
  <2>3. Exclusive'
    BY <1>5 DEF BumpWins, Exclusive, InTx, Writes, Locked, Goto
  <2>4. UpdateIsCurrent'
    BY <1>5 DEF BumpWins, UpdateIsCurrent, InTx, Live, CasMatches, Goto, database
  <2>5. OpeningIsFresh'
    BY <1>5 DEF BumpWins, OpeningIsFresh, Opening, InTx, Goto, database
  <2>6. Recorded' /\ SpentIsPast'
    BY <1>5 DEF BumpWins, Recorded, SpentIsPast, database
  <2> QED BY <2>1, <2>2, <2>3, <2>4, <2>5, <2>6 DEF IInv
<1>6. ASSUME NEW r \in Requests, BumpLoses(r) PROVE IInv'
  <2>1. TypeOK'
    BY <1>6 DEF BumpLoses, TypeOK, Over, Steps, database, client
  <2>2. Staged'
    BY <1>6 DEF BumpLoses, Staged, TypeOK, Over
  <2>3. Exclusive'
    BY <1>6 DEF BumpLoses, Exclusive, TypeOK, InTx, Writes, Over
  <2>4. UpdateIsCurrent'
    BY <1>6
    DEF BumpLoses, UpdateIsCurrent, TypeOK, InTx, Live, CasMatches, Over, database
  <2>5. OpeningIsFresh'
    BY <1>6 DEF BumpLoses, OpeningIsFresh, TypeOK, Opening, InTx, Over, database
  <2>6. Recorded' /\ SpentIsPast'
    BY <1>6 DEF BumpLoses, Recorded, SpentIsPast, database
  <2> QED BY <2>1, <2>2, <2>3, <2>4, <2>5, <2>6 DEF IInv
<1>7. ASSUME NEW r \in Requests, UserActive(r) PROVE IInv'
  <2>1. TypeOK'
    BY <1>7 DEF UserActive, TypeOK, Goto, Steps, database, client
  <2>2. Staged'
    BY <1>7 DEF UserActive, Staged, Goto
  <2>3. Exclusive'
    BY <1>7 DEF UserActive, Exclusive, InTx, Writes, Goto
  <2>4. UpdateIsCurrent'
    BY <1>7 DEF UserActive, UpdateIsCurrent, InTx, Live, CasMatches, Goto, database
  <2>5. OpeningIsFresh'
    BY <1>7 DEF UserActive, OpeningIsFresh, Opening, InTx, Goto, database
  <2>6. Recorded' /\ SpentIsPast'
    BY <1>7 DEF UserActive, Recorded, SpentIsPast, database
  <2> QED BY <2>1, <2>2, <2>3, <2>4, <2>5, <2>6 DEF IInv
<1>8. ASSUME NEW r \in Requests, UserInactive(r) PROVE IInv'
  <2>1. TypeOK'
    BY <1>8 DEF UserInactive, TypeOK, Goto, Steps, database, client
  <2>2. Staged'
    BY <1>8 DEF UserInactive, Staged, TypeOK, Goto
  <2>3. Exclusive'
    BY <1>8 DEF UserInactive, Exclusive, Staged, InTx, Writes, Goto
  <2>4. UpdateIsCurrent'
    BY <1>8
    DEF UserInactive, UpdateIsCurrent, Staged, InTx, Live, CasMatches, Goto,
        database
  <2>5. OpeningIsFresh'
    BY <1>8 DEF UserInactive, OpeningIsFresh, Opening, InTx, Goto, database
  <2>6. Recorded' /\ SpentIsPast'
    BY <1>8 DEF UserInactive, Recorded, SpentIsPast, database
  <2> QED BY <2>1, <2>2, <2>3, <2>4, <2>5, <2>6 DEF IInv
<1>9. ASSUME NEW r \in Requests, ReplayRevoke(r) PROVE IInv'
  <2>1. TypeOK'
    BY <1>9
    DEF ReplayRevoke, TypeOK, Staged, Goto, Tokens, Rows, Actions, Steps,
        database, client
  <2>2. Staged'
    BY <1>9 DEF ReplayRevoke, Staged, TypeOK, Goto
  <2>3. Exclusive'
    BY <1>9 DEF ReplayRevoke, Exclusive, InTx, Writes, Locked, Goto
  <2>4. UpdateIsCurrent'
    BY <1>9
    DEF ReplayRevoke, UpdateIsCurrent, InTx, Live, CasMatches, Goto, database
  <2>5. OpeningIsFresh'
    BY <1>9 DEF ReplayRevoke, OpeningIsFresh, Opening, InTx, Goto, database
  <2>6. Recorded' /\ SpentIsPast'
    BY <1>9 DEF ReplayRevoke, Recorded, SpentIsPast, database
  <2> QED BY <2>1, <2>2, <2>3, <2>4, <2>5, <2>6 DEF IInv
<1>10. ASSUME NEW r \in Requests, NEW t \in held, LogoutRead(r, t) PROVE IInv'
  <2>1. TypeOK'
    BY <1>10 DEF LogoutRead, TypeOK, Goto, Steps, database, client
  <2>2. Staged'
    BY <1>10 DEF LogoutRead, Staged, TypeOK, Goto
  <2>3. Exclusive'
    BY <1>10 DEF LogoutRead, Exclusive, Staged, InTx, Writes, Goto
  <2>4. UpdateIsCurrent'
    BY <1>10
    DEF LogoutRead, UpdateIsCurrent, Staged, InTx, Live, CasMatches, Goto,
        database
  <2>5. OpeningIsFresh'
    BY <1>10 DEF LogoutRead, OpeningIsFresh, Staged, Opening, InTx, Goto, database
  <2>6. Recorded' /\ SpentIsPast'
    BY <1>10 DEF LogoutRead, Recorded, SpentIsPast, database
  <2> QED BY <2>1, <2>2, <2>3, <2>4, <2>5, <2>6 DEF IInv
<1>11. ASSUME NEW r \in Requests, LogoutRevoke(r) PROVE IInv'
  <2>1. TypeOK'
    BY <1>11
    DEF LogoutRevoke, TypeOK, Staged, Goto, Tokens, Rows, Actions, Steps,
        database, client
  <2>2. Staged'
    BY <1>11 DEF LogoutRevoke, Staged, TypeOK, Goto
  <2>3. Exclusive'
    BY <1>11 DEF LogoutRevoke, Exclusive, InTx, Writes, Locked, Goto
  <2>4. UpdateIsCurrent'
    BY <1>11
    DEF LogoutRevoke, UpdateIsCurrent, InTx, Live, CasMatches, Goto, database
  <2>5. OpeningIsFresh'
    BY <1>11 DEF LogoutRevoke, OpeningIsFresh, Opening, InTx, Goto, database
  <2>6. Recorded' /\ SpentIsPast'
    BY <1>11 DEF LogoutRevoke, Recorded, SpentIsPast, database
  <2> QED BY <2>1, <2>2, <2>3, <2>4, <2>5, <2>6 DEF IInv
<1>12. ASSUME NEW r \in Requests, Commit(r) PROVE IInv'
  <2> DEFINE f == tok[r].fam
  <2>1. InTx(r)
    BY <1>12, CommitEffect
  <2>2. /\ \/ pc'[r] = "committed" /\ tok'[r] = tok[r] /\ write'[r] = write[r]
           \/ pc'[r] = "idle" /\ tok'[r] = NoToken /\ write'[r] = "none"
        /\ \A s \in Requests \ {r} : pc'[s] = pc[s] /\ tok'[s] = tok[s] /\ write'[s] = write[s]
        /\ write[r] # "bump" => spent' = spent
        /\ minted' = minted
    <3>1. CASE CommitFirst
      <4>1. /\ pc[r] = "returned"
            /\ pc' = [pc EXCEPT ![r] = "committed"]
            /\ UNCHANGED <<tok, write, minted>>
        BY <1>12, <3>1 DEF Commit, Goto
      <4>2. write[r] # "bump" => spent' = spent
        BY <1>12 DEF Commit
      <4> QED BY <4>1, <4>2 DEF TypeOK
    <3>2. CASE ~CommitFirst
      BY <1>12, <3>2 DEF Commit, Over, TypeOK
    <3> QED BY <3>1, <3>2
  <2>3. /\ active' \in [Users -> BOOLEAN]
        /\ audit' \subseteq Rows
        /\ minted' \subseteq Families
        /\ pc' \in [Requests -> Steps]
        /\ tok' \in [Requests -> Tokens \cup {NoToken}]
        /\ write' \in [Requests -> {"none", "open", "bump", "revoke"}]
        /\ row' \in [Requests -> Rows \cup {NoRow}]
        /\ held' \subseteq Tokens
        /\ answered' \subseteq Rows
        /\ lost' \subseteq Tokens \cup Rows
        /\ overtaken' \subseteq Families
    BY <1>12 DEF Commit, TypeOK, Goto, Over, Steps, client
  <2>4. spent' \subseteq Families \X Gens
    BY <1>12 DEF Commit, TypeOK, Staged, Tokens
  <2>5. Staged'
    BY <2>2 DEF Staged, TypeOK
  <2>6. \A s \in Requests : Opening(s)' => s # r /\ Opening(s) /\ tok'[s] = tok[s]
    BY <2>2 DEF Opening, InTx
  <2>7. CASE write[r] = "none"
    <3>1. family' = family
      BY <1>12, <2>7, CommitEffect
    <3>2. TypeOK'
      BY <2>3, <2>4, <2>7, <3>1 DEF TypeOK, Gens
    <3>3. Exclusive'
      BY <2>1, <2>2, <2>7, <3>1 DEF Exclusive, InTx, Writes
    <3>4. UpdateIsCurrent'
      BY <2>1, <2>2, <2>7, <3>1 DEF UpdateIsCurrent, InTx, Live, CasMatches
    <3>5. OpeningIsFresh'
      BY <2>6, <2>2, <2>7, <3>1 DEF OpeningIsFresh
    <3>6. Recorded'
      BY <2>1, <2>2, <2>7, <3>1 DEF Recorded
    <3>7. SpentIsPast'
      BY <2>1, <2>2, <2>7, <3>1 DEF SpentIsPast
    <3> QED BY <2>5, <3>2, <3>3, <3>4, <3>5, <3>6, <3>7 DEF IInv
  <2>8. CASE write[r] = "open"
    <3>1. family' = [family EXCEPT ![f] = [status |-> "live", gen |-> 0]] /\ f \in Families
      BY <1>12, <2>8, CommitEffect DEF Inserts
    <3>2. TypeOK'
      BY <2>3, <2>4, <2>8, <3>1 DEF TypeOK, Gens
    <3>3. Exclusive'
      BY <2>1, <2>2, <2>8, <3>1 DEF Exclusive, InTx, Writes
    <3>4. UpdateIsCurrent'
      BY <2>1, <2>2, <2>8, <3>1
      DEF UpdateIsCurrent, OpeningIsFresh, Opening, InTx, Live, CasMatches
    <3>5. OpeningIsFresh'
      BY <2>1, <2>6, <2>2, <2>8, <3>1 DEF OpeningIsFresh, Opening, TypeOK
    <3>6. Recorded'
      BY <2>1, <2>2, <2>8, <3>1 DEF OpeningIsFresh, Recorded, Opening
    <3>7. SpentIsPast'
      BY <2>1, <2>2, <2>8, <3>1 DEF OpeningIsFresh, Recorded, SpentIsPast, Opening
    <3> QED BY <2>5, <3>2, <3>3, <3>4, <3>5, <3>6, <3>7 DEF IInv
  <2>9. CASE write[r] = "bump"
    <3>1. /\ family' = [family EXCEPT ![f].gen = tok[r].gen + 1]
          /\ f \in Families
          /\ spent' = spent \cup {<<f, tok[r].gen>>}
          /\ family[f].status = "live" /\ family[f].gen = tok[r].gen
          /\ tok[r].gen \in Nat /\ tok[r].gen < MaxGen
      BY <1>12, <2>9, CommitEffect DEF Rotates, Live
    <3>2. TypeOK'
      BY <2>3, <2>4, <2>9, <3>1 DEF TypeOK, Gens
    <3>3. Exclusive'
      BY <2>1, <2>2, <2>9, <3>1 DEF Exclusive, InTx, Writes
    <3>4. UpdateIsCurrent'
      BY <2>1, <2>2, <2>9, <3>1
      DEF Exclusive, UpdateIsCurrent, InTx, Writes, Live, CasMatches
    <3>5. OpeningIsFresh'
      BY <2>6, <2>2, <2>9, <3>1 DEF OpeningIsFresh
    <3>6. Recorded'
      BY <2>1, <2>2, <2>9, <3>1 DEF Recorded
    <3>7. SpentIsPast'
      BY <2>1, <2>2, <2>9, <3>1 DEF TypeOK, SpentIsPast, Gens
    <3> QED BY <2>5, <3>2, <3>3, <3>4, <3>5, <3>6, <3>7 DEF IInv
  <2>10. CASE write[r] = "revoke"
    <3>1. /\ family' = [family EXCEPT ![f].status = "revoked"]
          /\ f \in Families
          /\ family[f].status # "absent"
      BY <1>12, <2>10, CommitEffect DEF Revokes
    <3>2. TypeOK'
      BY <2>3, <2>4, <2>10, <3>1 DEF TypeOK, Gens
    <3>3. Exclusive'
      BY <2>1, <2>2, <2>10, <3>1 DEF Exclusive, InTx, Writes
    <3>4. UpdateIsCurrent'
      BY <2>1, <2>2, <2>10, <3>1
      DEF Exclusive, UpdateIsCurrent, InTx, Writes, Live, CasMatches
    <3>5. OpeningIsFresh'
      BY <2>6, <2>2, <2>10, <3>1 DEF OpeningIsFresh
    <3>6. Recorded'
      BY <2>1, <2>2, <2>10, <3>1 DEF Recorded
    <3>7. SpentIsPast'
      BY <2>1, <2>2, <2>10, <3>1 DEF SpentIsPast
    <3> QED BY <2>5, <3>2, <3>3, <3>4, <3>5, <3>6, <3>7 DEF IInv
  <2> QED BY <2>7, <2>8, <2>9, <2>10 DEF TypeOK
<1>13. ASSUME NEW r \in Requests, NEW delivered \in BOOLEAN, Reply(r, delivered)
      PROVE  IInv'
  <2>1. NewTokens(r) \subseteq Tokens /\ Reported(r) \subseteq Rows
    BY SaidIsTyped
  <2>2. TypeOK'
    <3>1. CASE CommitFirst
      BY <1>13, <2>1, <3>1 DEF Reply, TypeOK, Over, Steps, database, client
    <3>2. CASE ~CommitFirst
      BY <1>13, <2>1, <3>2 DEF Reply, TypeOK, Goto, Steps, database, client
    <3> QED BY <3>1, <3>2
  <2>3. Staged'
    BY <1>13 DEF Reply, Staged, TypeOK, Goto, Over
  <2>4. Exclusive'
    BY <1>13 DEF Reply, Exclusive, TypeOK, InTx, Writes, Goto, Over
  <2>5. UpdateIsCurrent'
    BY <1>13
    DEF Reply, UpdateIsCurrent, TypeOK, InTx, Live, CasMatches, Goto, Over,
        database
  <2>6. OpeningIsFresh'
    <3>1. CASE CommitFirst
      BY <1>13, <3>1
      DEF Reply, OpeningIsFresh, TypeOK, Opening, InTx, Over, database
    <3>2. CASE ~CommitFirst
      BY <1>13, <3>2
      DEF Reply, OpeningIsFresh, TypeOK, Opening, InTx, Goto, database
    <3> QED BY <3>1, <3>2
  <2>7. Recorded' /\ SpentIsPast'
    BY <1>13 DEF Reply, Recorded, SpentIsPast, database
  <2> QED BY <2>2, <2>3, <2>4, <2>5, <2>6, <2>7 DEF IInv
<1>14. ASSUME NEW r \in Requests, Rollback(r) PROVE IInv'
  <2>1. TypeOK'
    BY <1>14, SaidIsTyped DEF Rollback, TypeOK, Over, Steps, database
  <2>2. Staged'
    BY <1>14 DEF Rollback, Staged, TypeOK, Over
  <2>3. Exclusive'
    BY <1>14 DEF Rollback, Exclusive, TypeOK, InTx, Writes, Over
  <2>4. UpdateIsCurrent'
    BY <1>14
    DEF Rollback, UpdateIsCurrent, TypeOK, InTx, Live, CasMatches, Over, database
  <2>5. OpeningIsFresh'
    BY <1>14 DEF Rollback, OpeningIsFresh, TypeOK, Opening, InTx, Over, database
  <2>6. Recorded' /\ SpentIsPast'
    BY <1>14 DEF Rollback, Recorded, SpentIsPast, database
  <2> QED BY <2>1, <2>2, <2>3, <2>4, <2>5, <2>6 DEF IInv
<1>15. ASSUME NEW r \in Requests, Abort(r) PROVE IInv'
  <2>1. TypeOK'
    <3>1. Unkept({r}) \subseteq Tokens \cup Rows
      BY UnkeptIsTyped
    <3> QED BY <1>15, <3>1 DEF Abort, TypeOK, Over, Steps, database
  <2>2. Staged'
    BY <1>15 DEF Abort, Staged, TypeOK, Over
  <2>3. Exclusive'
    BY <1>15 DEF Abort, Exclusive, TypeOK, InTx, Writes, Over
  <2>4. UpdateIsCurrent'
    BY <1>15
    DEF Abort, UpdateIsCurrent, TypeOK, InTx, Live, CasMatches, Over, database
  <2>5. OpeningIsFresh'
    BY <1>15 DEF Abort, OpeningIsFresh, TypeOK, Opening, InTx, Over, database
  <2>6. Recorded' /\ SpentIsPast'
    BY <1>15 DEF Abort, Recorded, SpentIsPast, database
  <2> QED BY <2>1, <2>2, <2>3, <2>4, <2>5, <2>6 DEF IInv
<1>16. ASSUME Restart PROVE IInv'
  <2>1. TypeOK'
    <3>1. Unkept(Requests) \subseteq Tokens \cup Rows
      BY UnkeptIsTyped
    <3> QED BY <1>16, <3>1 DEF Restart, TypeOK, Steps, database
  <2>2. Staged'
    BY <1>16 DEF Restart, Staged
  <2>3. Exclusive'
    BY <1>16 DEF Restart, Exclusive, Writes
  <2>4. UpdateIsCurrent'
    BY <1>16 DEF Restart, UpdateIsCurrent
  <2>5. OpeningIsFresh'
    BY <1>16 DEF Restart, OpeningIsFresh, Opening
  <2>6. Recorded' /\ SpentIsPast'
    BY <1>16 DEF Restart, Recorded, SpentIsPast, database
  <2> QED BY <2>1, <2>2, <2>3, <2>4, <2>5, <2>6 DEF IInv
<1>17. ASSUME NEW u \in Users, SetActive(u) PROVE IInv'
  <2>1. TypeOK'
    BY <1>17 DEF SetActive, TypeOK, client
  <2>2. Staged'
    BY <1>17 DEF SetActive, Staged
  <2>3. Exclusive'
    BY <1>17 DEF SetActive, Exclusive, InTx, Writes
  <2>4. UpdateIsCurrent'
    BY <1>17 DEF SetActive, UpdateIsCurrent, InTx, Live, CasMatches
  <2>5. OpeningIsFresh'
    BY <1>17 DEF SetActive, OpeningIsFresh, Opening, InTx
  <2>6. Recorded'
    BY <1>17 DEF SetActive, Recorded
  <2>7. SpentIsPast'
    BY <1>17 DEF SetActive, SpentIsPast
  <2> QED BY <2>1, <2>2, <2>3, <2>4, <2>5, <2>6, <2>7 DEF IInv
<1>18. CASE UNCHANGED vars
  BY <1>18
  DEF vars, IInv, TypeOK, Staged, Exclusive, UpdateIsCurrent, OpeningIsFresh,
      Recorded, SpentIsPast, Opening, InTx, Writes, Live, CasMatches
<1> QED
  BY <1>1, <1>2, <1>3, <1>4, <1>5, <1>6, <1>7, <1>8, <1>9, <1>10, <1>11, <1>12, <1>13, <1>14, <1>15, <1>16, <1>17, <1>18
  DEF Next, Arrive, LockRow, Proceed

\* The strengthened invariant holds of every behaviour of the handlers.
LEMMA Invariance == Spec => []IInv
  BY InitIInv, StepIInv, PTL DEF Spec

-----------------------------------------------------------------------------
(* Safety *)

\* Type correctness.
THEOREM TypeCorrect == Spec => []TypeOK
<1>1. IInv => TypeOK
  BY DEF IInv
<1> QED BY <1>1, Invariance, PTL

\* A refresh token buys at most one successor: whatever the requests in flight
\* have read, an open rotation holds an unspent token of a family nobody else
\* has written.
THEOREM TokensAreSingleUse == Spec => []SingleUse
<1>1. IInv => SingleUse
  <2> SUFFICES ASSUME IInv, NEW r \in Requests, InTx(r), write[r] = "bump"
               PROVE  /\ <<tok[r].fam, tok[r].gen>> \notin spent
                      /\ \A s \in Requests \ {r} : ~Writes(s, tok[r].fam)
    BY DEF SingleUse
  <2>1. tok[r].fam \in Families /\ tok[r].gen \in Nat
    BY ConstantsAssumption DEF IInv, Staged, Tokens, Gens
  <2>2. tok[r].gen = family[tok[r].fam].gen
    BY DEF IInv, UpdateIsCurrent, CasMatches
  <2>3. <<tok[r].fam, tok[r].gen>> \notin spent
    BY <2>1, <2>2 DEF IInv, SpentIsPast
  <2>4. Writes(r, tok[r].fam)
    BY DEF Writes
  <2> QED BY <2>1, <2>3, <2>4 DEF IInv, Exclusive
<1> QED BY <1>1, Invariance, PTL

\* Only a commit changes the family table or the history of redeemed tokens.
LEMMA OnlyCommits ==
    ASSUME IInv, [Next]_vars
    PROVE  \/ UNCHANGED <<family, spent>>
           \/ \E f \in Families :
                Inserts(f) \/ (\E g \in Nat : Rotates(f, g)) \/ Revokes(f)
<1>1. CASE \E r \in Requests : Commit(r)
  <2> PICK r \in Requests : Commit(r)
    BY <1>1
  <2>1. write[r] \in {"none", "open", "bump", "revoke"}
    BY DEF IInv, TypeOK
  <2>2. CASE write[r] = "none"
    BY <2>2, CommitEffect DEF IInv
  <2>3. CASE write[r] = "open"
    BY <2>3, CommitEffect DEF IInv
  <2>4. CASE write[r] = "bump"
    BY <2>4, CommitEffect DEF IInv, Rotates
  <2>5. CASE write[r] = "revoke"
    BY <2>5, CommitEffect DEF IInv
  <2> QED BY <2>1, <2>2, <2>3, <2>4, <2>5
<1>2. CASE ~\E r \in Requests : Commit(r)
  BY <1>2
  DEF Next, Arrive, LockRow, Proceed, LoginVerify, LoginFail, LoginOpen,
      RefreshRead,
      BumpWins, BumpLoses, UserActive, UserInactive, ReplayRevoke, LogoutRead,
      LogoutRevoke, Reply, Rollback, Abort, Restart, SetActive, database, vars
<1> QED BY <1>1, <1>2

\* A revoked family is never rotated or revived, and no generation is skipped.
THEOREM RevocationIsFinal == Spec => RevokedIsFinal
<1> DEFINE Final == \A f \in Families :
        /\ family[f].status = "revoked" => family'[f] = family[f]
        /\ family'[f].gen \in {family[f].gen, family[f].gen + 1}
<1>1. IInv /\ [Next]_vars => [Final]_vars
  <2> SUFFICES ASSUME IInv, [Next]_vars PROVE Final
    OBVIOUS
  <2>1. family \in [Families -> [status : {"absent", "live", "revoked"}, gen : Gens]]
    BY DEF IInv, TypeOK
  <2>2. CASE UNCHANGED <<family, spent>>
    BY <2>2
  <2>3. ASSUME NEW f \in Families, Inserts(f) PROVE Final
    BY <2>1, <2>3 DEF Inserts, IInv, Recorded
  <2>4. ASSUME NEW f \in Families, NEW g \in Nat, Rotates(f, g) PROVE Final
    BY <2>1, <2>4 DEF Rotates, Live
  <2>5. ASSUME NEW f \in Families, Revokes(f) PROVE Final
    BY <2>1, <2>5 DEF Revokes
  <2> QED BY <2>2, <2>3, <2>4, <2>5, OnlyCommits
<1> QED BY <1>1, Invariance, PTL DEF Spec, RevokedIsFinal

-----------------------------------------------------------------------------
(* Refinement *)

\* The committed table is a single-use token service: its initial states are
\* initial, and each step opens a family, redeems its outstanding token, closes
\* it, or changes nothing the abstract service has.
THEOREM RotationImplementsSingleUse == Spec => ImplementsSingleUse
<1> DEFINE outstanding == {<<f, family[f].gen>> : f \in {g \in Families : Live(g)}}
           closed == {f \in Families : family[f].status = "revoked"}
<1>1. Init => Abstract!Init
  BY DEF Init, Abstract!Init, Live
<1>2. IInv /\ [Next]_vars => [Abstract!Next]_Abstract!vars
  <2> SUFFICES ASSUME IInv, [Next]_vars PROVE [Abstract!Next]_Abstract!vars
    OBVIOUS
  <2>1. family \in [Families -> [status : {"absent", "live", "revoked"}, gen : Gens]]
    BY DEF IInv, TypeOK
  <2>2. CASE UNCHANGED <<family, spent>>
    BY <2>2 DEF Abstract!vars, Live
  <2>3. ASSUME NEW f \in Families, Inserts(f) PROVE Abstract!Open(f)
    <3>1. family[f].gen = 0 /\ f \notin closed
      BY <2>1, <2>3 DEF Inserts, IInv, Recorded
    <3>2. Abstract!OfFamily(f, outstanding \cup spent) = {}
      <4>1. \A t \in outstanding : t[1] # f
        BY <2>3 DEF Inserts, Live
      <4>2. \A t \in spent : t[1] # f
        BY <3>1, ConstantsAssumption DEF IInv, TypeOK, SpentIsPast, Gens
      <4> QED BY <4>1, <4>2 DEF Abstract!OfFamily
    <3>3. outstanding' = outstanding \cup {<<f, 0>>}
      BY <2>1, <2>3 DEF Inserts, Live
    <3>4. UNCHANGED <<spent, closed>>
      BY <2>1, <2>3 DEF Inserts
    <3> QED BY <3>1, <3>2, <3>3, <3>4 DEF Abstract!Open
  <2>4. ASSUME NEW f \in Families, NEW g \in Nat, Rotates(f, g)
        PROVE  <<f, g>> \in outstanding /\ Abstract!Redeem(<<f, g>>)
    BY <2>1, <2>4 DEF Rotates, Live, Abstract!Redeem
  <2>5. ASSUME NEW f \in Families, Revokes(f) PROVE Abstract!Close(f)
    BY <2>1, <2>5 DEF Revokes, Live, Abstract!Close, Abstract!OfFamily
  <2> QED BY <2>2, <2>3, <2>4, <2>5, OnlyCommits DEF Abstract!Next
<1> QED BY <1>1, <1>2, Invariance, PTL DEF Spec, ImplementsSingleUse, Abstract!Spec

-----------------------------------------------------------------------------
(* The audit row that goes with a write *)

LogoutRow(r) == [action |-> "auth.logout", target |-> tok[r].fam]

\* What each step of a handler knows of its audit row.  A revocation that will
\* be committed, not rolled back, is a logout's.
RowOf(r) ==
    /\ pc[r] \in {"idle", "rotate", "replay", "bumped", "logout"} => row[r] = NoRow
    /\ pc[r] = "login" => row[r] # NoRow /\ row[r].action = "auth.login.ok"
    /\ pc[r] = "raised" =>
          row[r] = NoRow \/ row[r].action \in {"auth.login.failed",
                                               "auth.refresh.replay_revoked"}
    /\ pc[r] \in {"returned", "replied", "committed"} =>
          \/ row[r] = NoRow /\ write[r] # "revoke"
          \/ row[r] # NoRow /\ row[r].action = "auth.login.ok" /\ write[r] # "revoke"
          \/ row[r] = LogoutRow(r) /\ write[r] \in {"none", "revoke"}

Accounted == \A r \in Requests : RowOf(r)

LEMMA InitAccounted == Init => Accounted
  BY DEF Init, Accounted, RowOf

\* A step of r leaves the other requests where they are.
Alone(r) ==
    \A s \in Requests \ {r} : /\ pc'[s] = pc[s] /\ row'[s] = row[s]
                             /\ tok'[s] = tok[s] /\ write'[s] = write[s]

LEMMA OneMoves ==
  ASSUME Accounted, NEW r \in Requests, Alone(r), RowOf(r)'
  PROVE  Accounted'
<1>1. \A s \in Requests \ {r} : RowOf(s)'
  BY DEF Accounted, Alone, RowOf, LogoutRow
<1> QED BY <1>1 DEF Accounted

\* A request that is over has neither a token nor a row.
LEMMA OverAccounted ==
  ASSUME TypeOK, Accounted, NEW r \in Requests, Over(r)
  PROVE  Accounted'
<1>1. Alone(r)
  BY DEF Over, TypeOK, Alone
<1>2. pc'[r] = "idle" /\ row'[r] = NoRow
  BY DEF Over, TypeOK
<1> QED BY <1>1, <1>2, OneMoves DEF RowOf

LEMMA StepAccounted == IInv /\ Accounted /\ [Next]_vars => Accounted'
<1> SUFFICES ASSUME TypeOK, Staged, Accounted, [Next]_vars PROVE Accounted'
  BY DEF IInv
<1> USE ConstantsAssumption
<1>1. ASSUME NEW r \in Requests, NEW u \in Users, NEW f \in Families, LoginVerify(r, u, f)
      PROVE  Accounted'
  <2>1. [action |-> "auth.login.ok", target |-> u] \in Rows
    BY DEF Rows, Actions
  <2>2. Alone(r)
    BY <1>1 DEF LoginVerify, Goto, TypeOK, Alone
  <2>3. pc'[r] = "login" /\ row'[r] = [action |-> "auth.login.ok", target |-> u]
    BY <1>1, <2>1 DEF LoginVerify, Goto, TypeOK
  <2>4. row'[r] # NoRow /\ row'[r].action = "auth.login.ok"
    BY <2>1, <2>3
  <2>5. RowOf(r)'
    BY <2>3, <2>4 DEF RowOf
  <2> QED BY <2>2, <2>5, OneMoves
<1>2. ASSUME NEW r \in Requests, NEW u \in Users, LoginFail(r, u) PROVE Accounted'
  <2>1. Alone(r)
    BY <1>2 DEF LoginFail, Goto, TypeOK, Alone
  <2>2. pc'[r] = "raised" /\ row'[r] = [action |-> "auth.login.failed", target |-> u]
    BY <1>2 DEF LoginFail, Goto, TypeOK
  <2>3. row'[r].action = "auth.login.failed"
    BY <2>2
  <2>4. RowOf(r)'
    BY <2>2, <2>3 DEF RowOf
  <2> QED BY <2>1, <2>4, OneMoves
<1>3. ASSUME NEW r \in Requests, LoginOpen(r) PROVE Accounted'
  <2>1. row[r] # NoRow /\ row[r].action = "auth.login.ok"
    BY <1>3 DEF LoginOpen, Accounted, RowOf
  <2>2. Alone(r)
    BY <1>3 DEF LoginOpen, Goto, TypeOK, Alone
  <2>3. /\ pc'[r] = "returned" /\ write'[r] = "open"
        /\ row'[r] # NoRow /\ row'[r].action = "auth.login.ok"
    BY <1>3, <2>1 DEF LoginOpen, Goto, TypeOK
  <2> QED BY <2>1, <2>2, <2>3, OneMoves DEF RowOf, LogoutRow
<1>4. ASSUME NEW r \in Requests, NEW t \in held, RefreshRead(r, t) PROVE Accounted'
  <2>1. Verdict(t) \in {"rotate", "replay"} /\ row[r] = NoRow
    BY <1>4 DEF RefreshRead, Verdict, Accounted, RowOf
  <2>2. Alone(r)
    BY <1>4 DEF RefreshRead, Goto, TypeOK, Alone
  <2>3. pc'[r] \in {"rotate", "replay"} /\ row'[r] = NoRow
    BY <1>4, <2>1 DEF RefreshRead, Goto, TypeOK
  <2> QED BY <2>1, <2>2, <2>3, OneMoves DEF RowOf, LogoutRow
<1>5. ASSUME NEW r \in Requests, BumpWins(r) PROVE Accounted'
  <2>1. row[r] = NoRow
    BY <1>5 DEF BumpWins, Accounted, RowOf
  <2>2. Alone(r)
    BY <1>5 DEF BumpWins, Goto, TypeOK, Alone
  <2>3. pc'[r] = "bumped" /\ row'[r] = NoRow
    BY <1>5, <2>1 DEF BumpWins, Goto, TypeOK
  <2> QED BY <2>1, <2>2, <2>3, OneMoves DEF RowOf, LogoutRow
<1>6. ASSUME NEW r \in Requests, BumpLoses(r) PROVE Accounted'
  BY <1>6, OverAccounted DEF BumpLoses
<1>7. ASSUME NEW r \in Requests, UserActive(r) PROVE Accounted'
  <2>1. row[r] = NoRow /\ write[r] = "bump"
    BY <1>7 DEF UserActive, Accounted, RowOf, Staged
  <2>2. Alone(r)
    BY <1>7 DEF UserActive, Goto, TypeOK, Alone
  <2>3. pc'[r] = "returned" /\ row'[r] = NoRow /\ write'[r] = "bump"
    BY <1>7, <2>1 DEF UserActive, Goto, TypeOK
  <2> QED BY <2>1, <2>2, <2>3, OneMoves DEF RowOf, LogoutRow
<1>8. ASSUME NEW r \in Requests, UserInactive(r) PROVE Accounted'
  <2>1. row[r] = NoRow
    BY <1>8 DEF UserInactive, Accounted, RowOf
  <2>2. Alone(r)
    BY <1>8 DEF UserInactive, Goto, TypeOK, Alone
  <2>3. pc'[r] = "raised" /\ row'[r] = NoRow
    BY <1>8, <2>1 DEF UserInactive, Goto, TypeOK
  <2> QED BY <2>1, <2>2, <2>3, OneMoves DEF RowOf, LogoutRow
<1>9. ASSUME NEW r \in Requests, ReplayRevoke(r) PROVE Accounted'
  <2>1. Alone(r)
    BY <1>9 DEF ReplayRevoke, Goto, TypeOK, Alone
  <2>2. /\ pc'[r] = "raised"
        /\ row'[r] = [action |-> "auth.refresh.replay_revoked", target |-> tok[r].fam]
    BY <1>9 DEF ReplayRevoke, Goto, TypeOK
  <2>3. row'[r].action = "auth.refresh.replay_revoked"
    BY <2>2
  <2>4. RowOf(r)'
    BY <2>2, <2>3 DEF RowOf
  <2> QED BY <2>1, <2>4, OneMoves
<1>10. ASSUME NEW r \in Requests, NEW t \in held, LogoutRead(r, t) PROVE Accounted'
  <2>1. row[r] = NoRow
    BY <1>10 DEF LogoutRead, Accounted, RowOf
  <2>2. Alone(r)
    BY <1>10 DEF LogoutRead, Goto, TypeOK, Alone
  <2>3. pc'[r] = "logout" /\ row'[r] = NoRow
    BY <1>10, <2>1 DEF LogoutRead, Goto, TypeOK
  <2> QED BY <2>1, <2>2, <2>3, OneMoves DEF RowOf, LogoutRow
<1>11. ASSUME NEW r \in Requests, LogoutRevoke(r) PROVE Accounted'
  <2>1. write[r] = "none"
    BY <1>11 DEF LogoutRevoke, Staged
  <2>2. Alone(r)
    BY <1>11 DEF LogoutRevoke, Goto, TypeOK, Alone
  <2>3. pc'[r] = "returned" /\ write'[r] \in {"none", "revoke"} /\ row'[r] = LogoutRow(r)'
    BY <1>11, <2>1 DEF LogoutRevoke, Goto, TypeOK, LogoutRow
  <2> QED BY <2>1, <2>2, <2>3, OneMoves DEF RowOf, LogoutRow
<1>12. ASSUME NEW r \in Requests, Commit(r) PROVE Accounted'
  <2>1. CASE CommitFirst
    <3>1. Alone(r) /\ pc[r] = "returned" /\ pc'[r] = "committed"
      BY <1>12, <2>1 DEF Commit, Goto, TypeOK, Alone
    <3>2. RowOf(r)'
      BY <1>12, <2>1, <3>1 DEF Commit, Accounted, RowOf, LogoutRow
    <3> QED BY <3>1, <3>2, OneMoves
  <2>2. CASE ~CommitFirst
    BY <1>12, <2>2, OverAccounted DEF Commit
  <2> QED BY <2>1, <2>2
<1>13. ASSUME NEW r \in Requests, NEW delivered \in BOOLEAN, Reply(r, delivered)
       PROVE  Accounted'
  <2>1. CASE CommitFirst
    BY <1>13, <2>1, OverAccounted DEF Reply
  <2>2. CASE ~CommitFirst
    <3>1. Alone(r) /\ pc[r] = "returned" /\ pc'[r] = "replied"
      BY <1>13, <2>2 DEF Reply, Goto, TypeOK, Alone
    <3>2. RowOf(r)'
      BY <1>13, <2>2, <3>1 DEF Reply, Accounted, RowOf, LogoutRow
    <3> QED BY <3>1, <3>2, OneMoves
  <2> QED BY <2>1, <2>2
<1>14. ASSUME NEW r \in Requests, Rollback(r) \/ Abort(r) PROVE Accounted'
  BY <1>14, OverAccounted DEF Rollback, Abort
<1>15. CASE Restart
  BY <1>15 DEF Restart, Accounted, RowOf
<1>16. ASSUME NEW u \in Users, SetActive(u) PROVE Accounted'
  BY <1>16 DEF SetActive, Accounted, RowOf, LogoutRow
<1>17. CASE UNCHANGED vars
  BY <1>17 DEF vars, Accounted, RowOf, LogoutRow
<1> QED
  BY <1>1, <1>2, <1>3, <1>4, <1>5, <1>6, <1>7, <1>8, <1>9, <1>10, <1>11, <1>12, <1>13,
     <1>14, <1>15, <1>16, <1>17
  DEF Next, Arrive, LockRow, Proceed

\* What a step does to a family that is there.
LEMMA FamiliesGrow ==
  ASSUME IInv, [Next]_vars, NEW f \in Families
  PROVE  /\ family[f].gen \in Nat /\ family'[f].gen \in Nat
         /\ family[f].status # "absent" =>
               family'[f].status # "absent" /\ family[f].gen <= family'[f].gen
         /\ family[f].status = "revoked" => family'[f] = family[f]
<1> USE ConstantsAssumption
<1>1. family \in [Families -> [status : {"absent", "live", "revoked"}, gen : Gens]]
  BY DEF IInv, TypeOK
<1>2. CASE UNCHANGED <<family, spent>>
  BY <1>1, <1>2 DEF Gens
<1>3. ASSUME NEW g \in Families, Inserts(g)
      PROVE  /\ family'[f].gen \in Nat
             /\ family[f].status # "absent" => family'[f] = family[f]
  BY <1>1, <1>3 DEF Inserts, Gens
<1>4. ASSUME NEW g \in Families, NEW n \in Nat, Rotates(g, n)
      PROVE  /\ family'[f].gen \in Nat /\ family'[f].status = family[f].status
             /\ family[f].gen <= family'[f].gen
             /\ family[f].status = "revoked" => family'[f] = family[f]
  BY <1>1, <1>4 DEF Rotates, Live, Gens
<1>5. ASSUME NEW g \in Families, Revokes(g)
      PROVE  /\ family'[f].gen = family[f].gen
             /\ family[f].status # "absent" => family'[f].status # "absent"
             /\ family[f].status = "revoked" => family'[f] = family[f]
  BY <1>1, <1>5 DEF Revokes
<1>6. family[f].gen \in Nat
  BY <1>1 DEF Gens
<1> QED BY <1>2, <1>3, <1>4, <1>5, <1>6, OnlyCommits

\* A family is revoked only by a commit that leaves the row of a logout.
LEMMA StepAudited ==
    IInv /\ Accounted /\ RevocationIsAudited /\ [Next]_vars => RevocationIsAudited'
<1> SUFFICES ASSUME IInv, Accounted, RevocationIsAudited, [Next]_vars,
                    NEW f \in Families, family'[f].status = "revoked"
             PROVE  \E a \in audit' : a.target = f /\ a.action \in
                        {"auth.logout", "auth.refresh.replay_revoked"}
  BY DEF RevocationIsAudited
<1> USE ConstantsAssumption
<1>1. CASE \E r \in Requests : Commit(r)
  <2> PICK r \in Requests : Commit(r)
    BY <1>1
  <2>1. audit \subseteq audit'
    BY DEF Commit
  <2>2. CASE family[f].status = "revoked"
    BY <2>1, <2>2 DEF RevocationIsAudited
  <2>3. CASE family[f].status # "revoked"
    <3>1. write[r] = "revoke" /\ tok[r].fam = f
      <4>1. write[r] \in {"none", "open", "bump", "revoke"}
        BY DEF IInv, TypeOK
      <4>2. family \in [Families -> [status : {"absent", "live", "revoked"}, gen : Gens]]
        BY DEF IInv, TypeOK
      <4>3. CASE write[r] = "none"
        BY <2>3, <4>3, CommitEffect DEF IInv
      <4>4. CASE write[r] = "open"
        <5>1. Inserts(tok[r].fam)
          BY <4>4, CommitEffect DEF IInv
        <5>2. family'[f].status \in {family[f].status, "live"}
          BY <4>2, <5>1 DEF Inserts
        <5> QED BY <2>3, <5>2
      <4>5. CASE write[r] = "bump"
        <5>1. Rotates(tok[r].fam, tok[r].gen)
          BY <4>5, CommitEffect DEF IInv
        <5>2. family'[f].status = family[f].status
          BY <4>2, <5>1 DEF Rotates
        <5> QED BY <2>3, <5>2
      <4>6. CASE write[r] = "revoke"
        BY <2>3, <4>2, <4>6, CommitEffect DEF IInv, Revokes
      <4> QED BY <4>1, <4>3, <4>4, <4>5, <4>6
    <3>2. pc[r] \in {"returned", "replied"}
      BY DEF Commit
    <3>3. row[r] = [action |-> "auth.logout", target |-> f]
      BY <3>1, <3>2 DEF Accounted, RowOf, LogoutRow
    <3>4. row[r] \in Rows
      BY <3>3 DEF Rows, Actions
    <3>5. row[r] \in audit'
      BY <3>4 DEF Commit
    <3> QED BY <3>3, <3>5
  <2> QED BY <2>2, <2>3
<1>2. CASE ~\E r \in Requests : Commit(r)
  <2>1. UNCHANGED <<family, audit>>
    BY <1>2
    DEF Next, Arrive, LockRow, Proceed, LoginVerify, LoginFail, LoginOpen, RefreshRead,
        BumpWins, BumpLoses, UserActive, UserInactive, ReplayRevoke, LogoutRead,
        LogoutRevoke, Reply, Rollback, Abort, Restart, SetActive, database, vars
  <2> QED BY <2>1 DEF RevocationIsAudited
<1> QED BY <1>1, <1>2

\* No family is revoked without the audit row that says so.
THEOREM RevocationsAreAudited == Spec => []RevocationIsAudited
<1>1. Init => RevocationIsAudited
  BY DEF Init, RevocationIsAudited
<1> QED BY <1>1, InitAccounted, StepAccounted, StepAudited, Invariance, PTL DEF Spec

-----------------------------------------------------------------------------
(* What an answer promises, for both orders of the COMMIT and the response *)

Behind(t) == family[t.fam].status # "absent" /\ t.gen <= family[t.fam].gen

LogsOut(r) == row[r] # NoRow /\ row[r].action = "auth.logout"

\* The row of a logout stands for what the tables hold.
Settled(a) ==
    /\ a.target \in Families /\ a \in audit
    /\ family[a.target].status = "revoked" \/ (~CommitFirst /\ a.target \in overtaken)

\* What a request's answer promises is true of the tables before it leaves, or
\* will be once its own transaction commits.
Promised(r) ==
    /\ pc[r] = "replied" => ~CommitFirst
    /\ pc[r] = "logout" => tok[r] \in held
    /\ pc[r] \in {"returned", "replied", "committed"} /\ LogsOut(r) =>
          write[r] = "revoke" \/ (~CommitFirst /\ tok[r].fam \in overtaken)
    /\ pc[r] = "committed" => \A t \in NewTokens(r) : Behind(t)
    /\ pc[r] = "committed" /\ LogsOut(r) => Settled(row[r])

\* LogoutIsDurable, with the type of the row it looks up.
Kept == \A a \in answered : a.action = "auth.logout" => Settled(a) \/ Unsettled(a)

Promises == NeverAhead /\ Kept /\ \A r \in Requests : Promised(r)

LEMMA InitPromises == Init => Promises
  BY DEF Init, Promises, NeverAhead, Kept, Promised

\* Nothing that has been recorded or delivered is taken back.
LEMMA HistoryGrows ==
  ASSUME [Next]_vars
  PROVE  /\ audit \subseteq audit' /\ held \subseteq held'
         /\ lost \subseteq lost' /\ overtaken \subseteq overtaken'
  BY DEF Next, Arrive, LockRow, Proceed, LoginVerify, LoginFail, LoginOpen,
         RefreshRead, BumpWins, BumpLoses, UserActive, UserInactive, ReplayRevoke,
         LogoutRead, LogoutRevoke, Commit, Reply, Rollback, Abort, Restart, SetActive,
         database, client, vars

LEMMA BehindLasts ==
  ASSUME IInv, [Next]_vars, NEW t \in Tokens, Behind(t)
  PROVE  Behind(t)'
<1>1. t.fam \in Families /\ t.gen \in Nat
  BY ConstantsAssumption DEF Tokens, Gens
<1> QED BY <1>1, FamiliesGrow DEF Behind

LEMMA SettledLasts ==
  ASSUME IInv, [Next]_vars, NEW a, Settled(a)
  PROVE  Settled(a)'
  BY FamiliesGrow, HistoryGrows DEF Settled

\* A token is not an audit row.
LEMMA TokensAreNotRows == Tokens \cap Rows = {}
<1> SUFFICES ASSUME NEW x \in Tokens, x \in Rows PROVE FALSE
  OBVIOUS
<1>1. DOMAIN x = {"fam", "gen", "user"}
  BY DEF Tokens
<1>2. DOMAIN x = {"action", "target"}
  BY DEF Rows
<1> QED BY <1>1, <1>2

LEMMA UnkeptMeans ==
  \A x : x \in Unkept(Requests) <=> \E r \in Requests : pc[r] = "replied" /\ x \in Said(r)
  BY DEF Unkept

\* What is unsettled stays so, unless its own request commits.
LEMMA UnsettledLasts ==
  ASSUME [Next]_vars, NEW x, Unsettled(x), NEW r \in Requests, Alone(r),
         pc[r] = "replied" /\ x \in Said(r) => x \in lost'
  PROVE  Unsettled(x)'
<1>1. ~CommitFirst /\ (x \in lost \/ x \in Unkept(Requests))
  BY DEF Unsettled
<1>2. CASE x \in lost'
  BY <1>1, <1>2 DEF Unsettled
<1>3. CASE x \notin lost'
  <2>1. PICK s \in Requests : pc[s] = "replied" /\ x \in Said(s)
    BY <1>1, <1>3, HistoryGrows, UnkeptMeans
  <2>2. s # r
    BY <1>3, <2>1
  <2>3. pc'[s] = "replied" /\ Said(s)' = Said(s)
    BY <2>1, <2>2 DEF Alone, Said, NewTokens, Reported
  <2>4. x \in Unkept(Requests)'
    BY <2>1, <2>3 DEF Unkept
  <2> QED BY <1>1, <2>4 DEF Unsettled
<1> QED BY <1>2, <1>3

\* The tables only grow under a promise that stands.
LEMMA PromiseLasts ==
  ASSUME IInv, [Next]_vars, NEW s \in Requests, Promised(s),
         pc'[s] = pc[s], row'[s] = row[s], tok'[s] = tok[s], write'[s] = write[s]
  PROVE  Promised(s)'
<1>1. NewTokens(s)' = NewTokens(s) /\ LogsOut(s)' = LogsOut(s)
  BY DEF NewTokens, LogsOut
<1>2. ASSUME pc[s] = "committed", NEW t \in NewTokens(s) PROVE Behind(t)'
  <2>1. Behind(t)
    BY <1>2 DEF Promised
  <2>2. t \in Tokens
    BY SaidIsTyped DEF IInv
  <2> QED BY <2>1, <2>2, BehindLasts
<1>3. ASSUME pc[s] = "committed", LogsOut(s) PROVE Settled(row[s])'
  BY <1>3, SettledLasts DEF Promised, Settled
<1> QED BY <1>1, <1>2, <1>3, HistoryGrows DEF Promised

LEMMA HeldStaysBehind ==
  ASSUME IInv, [Next]_vars, NEW t \in held, Behind(t)
  PROVE  Behind(t)'
  BY BehindLasts DEF IInv, TypeOK

\* A step of one request that delivers nothing and keeps its own promise.
LEMMA OnePromises ==
  ASSUME IInv, [Next]_vars, Promises, NEW r \in Requests, Alone(r), Promised(r)',
         pc[r] = "replied" => Said(r) \subseteq lost',
         held' = held, answered' = answered
  PROVE  Promises'
<1>1. ASSUME NEW s \in Requests \ {r} PROVE Promised(s)'
  BY <1>1, PromiseLasts DEF Promises, Alone
<1>2. ASSUME NEW t \in held PROVE Behind(t)' \/ Unsettled(t)'
  BY <1>2, HeldStaysBehind, UnsettledLasts DEF Promises, NeverAhead, Behind
<1>3. ASSUME NEW a \in answered, a.action = "auth.logout"
      PROVE  Settled(a)' \/ Unsettled(a)'
  BY <1>3, SettledLasts, UnsettledLasts DEF Promises, Kept
<1>4. NeverAhead'
  BY <1>2 DEF NeverAhead, Behind
<1>5. Kept'
  BY <1>3 DEF Kept
<1> QED BY <1>1, <1>4, <1>5 DEF Promises

\* ... in particular one that promises nothing yet.
LEMMA NothingPromised ==
  ASSUME IInv, [Next]_vars, Promises, NEW r \in Requests, Alone(r),
         pc'[r] \in {"idle", "login", "rotate", "replay", "bumped", "raised"},
         pc[r] = "replied" => Said(r) \subseteq lost',
         held' = held, answered' = answered
  PROVE  Promises'
<1>1. Promised(r)'
  BY DEF Promised
<1> QED BY <1>1, OnePromises

LEMMA OverMoves ==
  ASSUME TypeOK, NEW r \in Requests, Over(r)
  PROVE  Alone(r) /\ pc'[r] = "idle"
  BY DEF Over, TypeOK, Alone

\* The COMMIT puts the row of a family level with the token its 200 carries ...
LEMMA CommitDelivers ==
  ASSUME IInv, NEW r \in Requests, Commit(r), NEW t \in NewTokens(r)
  PROVE  Behind(t)'
<1> USE ConstantsAssumption
<1>1. write[r] \in {"open", "bump"} /\ tok[r] \in Tokens /\ InTx(r)
  BY CommitEffect DEF NewTokens, IInv, Staged, TypeOK
<1>2. family \in [Families -> [status : {"absent", "live", "revoked"}, gen : Gens]]
  BY DEF IInv, TypeOK
<1>3. tok[r].fam \in Families /\ tok[r].gen \in Nat
  BY <1>1 DEF Tokens, Gens
<1>4. CASE write[r] = "open"
  <2>1. t = tok[r] /\ t.gen = 0
    BY <1>1, <1>4 DEF NewTokens, IInv, OpeningIsFresh, Opening
  <2>2. Inserts(tok[r].fam)
    BY <1>4, CommitEffect DEF IInv
  <2>3. family'[t.fam] = [status |-> "live", gen |-> 0]
    BY <1>2, <1>3, <2>1, <2>2 DEF Inserts
  <2> QED BY <2>1, <2>3 DEF Behind
<1>5. CASE write[r] = "bump"
  <2>1. t = [tok[r] EXCEPT !.gen = tok[r].gen + 1]
    BY <1>5 DEF NewTokens
  <2>2. t.fam = tok[r].fam /\ t.gen = tok[r].gen + 1
    BY <1>1, <2>1 DEF Tokens
  <2>3. Rotates(tok[r].fam, tok[r].gen)
    BY <1>5, CommitEffect DEF IInv
  <2>4. family'[t.fam].gen = t.gen /\ family'[t.fam].status = "live"
    BY <1>2, <1>3, <2>2, <2>3 DEF Rotates, Live
  <2> QED BY <1>3, <2>2, <2>4 DEF Behind
<1> QED BY <1>1, <1>4, <1>5

\* ... and makes true what the 200 of a logout says.
LEMMA CommitSettles ==
  ASSUME IInv, Accounted, NEW r \in Requests, Promised(r), Commit(r), LogsOut(r),
         NEW a, a = row[r]
  PROVE  Settled(a)'
<1>1. /\ pc[r] \in {"returned", "replied"}
      /\ audit' = audit \cup ({row[r]} \ {NoRow})
      /\ overtaken' = overtaken
  BY DEF Commit, client
<1>2. a \in audit' /\ a = LogoutRow(r)
  BY <1>1 DEF LogsOut, Accounted, RowOf
<1>3. a.target = tok[r].fam
  BY <1>2 DEF LogoutRow
<1>4. CASE write[r] = "revoke"
  <2>1. tok[r].fam \in Families /\ Revokes(tok[r].fam)
    BY <1>4, CommitEffect DEF IInv
  <2>2. family'[tok[r].fam].status = "revoked"
    BY <2>1 DEF Revokes, IInv, TypeOK
  <2> QED BY <1>2, <1>3, <2>1, <2>2 DEF Settled
<1>5. CASE ~CommitFirst /\ tok[r].fam \in overtaken
  BY <1>1, <1>2, <1>3, <1>5 DEF Settled, IInv, TypeOK
<1> QED BY <1>1, <1>4, <1>5 DEF Promised

\* So does the COMMIT that runs behind its response.
LEMMA LateCommitPromises ==
  ASSUME ~CommitFirst, IInv, Accounted, Promises, [Next]_vars,
         NEW r \in Requests, Commit(r)
  PROVE  Promises'
<1>1. Alone(r) /\ pc'[r] = "idle" /\ held' = held /\ answered' = answered
  BY OverMoves DEF Commit, IInv, client
<1>2. held \subseteq Tokens /\ answered \subseteq Rows
  BY DEF IInv, TypeOK
<1>3. NewTokens(r) \subseteq Tokens /\ Reported(r) \subseteq Rows
  BY SaidIsTyped DEF IInv
<1>4. \A s \in Requests : Promised(s)'
  <2>1. Promised(r)'
    BY <1>1 DEF Promised
  <2>2. ASSUME NEW s \in Requests \ {r} PROVE Promised(s)'
    BY <1>1, <2>2, PromiseLasts DEF Promises, Alone
  <2> QED BY <2>1, <2>2
<1>5. ASSUME NEW t \in held PROVE Behind(t)' \/ Unsettled(t)'
  <2>1. CASE Behind(t)
    BY <2>1, HeldStaysBehind
  <2>2. CASE Unsettled(t) /\ t \notin Said(r)
    BY <1>1, <2>2, UnsettledLasts
  <2>3. CASE t \in Said(r)
    <3>1. t \in NewTokens(r)
      BY <1>2, <1>3, <2>3, TokensAreNotRows DEF Said
    <3> QED BY <3>1, CommitDelivers
  <2> QED BY <2>1, <2>2, <2>3 DEF Promises, NeverAhead, Behind
<1>6. ASSUME NEW a \in answered, a.action = "auth.logout"
      PROVE  Settled(a)' \/ Unsettled(a)'
  <2>1. CASE Settled(a)
    BY <2>1, SettledLasts
  <2>2. CASE Unsettled(a) /\ a \notin Said(r)
    BY <1>1, <2>2, UnsettledLasts
  <2>3. CASE a \in Said(r)
    <3>1. a = row[r] /\ row[r] # NoRow
      BY <1>2, <1>3, <2>3, TokensAreNotRows DEF Said, Reported
    <3>2. LogsOut(r)
      BY <1>6, <3>1 DEF LogsOut
    <3> QED BY <3>1, <3>2, CommitSettles DEF Promises
  <2> QED BY <1>6, <2>1, <2>2, <2>3 DEF Promises, Kept
<1>7. NeverAhead' /\ Kept'
  BY <1>1, <1>5, <1>6 DEF NeverAhead, Kept, Behind
<1> QED BY <1>4, <1>7 DEF Promises

\* The COMMIT that runs first makes true what the response will say.
LEMMA CommitPromises ==
  ASSUME IInv, Accounted, Promises, [Next]_vars, NEW r \in Requests, Commit(r)
  PROVE  Promises'
<1>1. CASE CommitFirst
  <2>1. /\ pc[r] = "returned" /\ pc'[r] = "committed" /\ Alone(r)
        /\ tok'[r] = tok[r] /\ write'[r] = write[r] /\ row'[r] = row[r]
        /\ held' = held /\ answered' = answered
    BY <1>1 DEF Commit, Goto, IInv, TypeOK, Alone, client
  <2>2. NewTokens(r)' = NewTokens(r) /\ LogsOut(r)' = LogsOut(r)
    BY <2>1 DEF NewTokens, LogsOut
  <2>3. ASSUME LogsOut(r) PROVE Settled(row[r])'
    <3>1. PICK a : a = row[r]
      OBVIOUS
    <3>2. Settled(a)'
      BY <2>3, <3>1, CommitSettles DEF Promises
    <3> QED BY <2>1, <3>1, <3>2 DEF Settled
  <2>4. LogsOut(r) => write[r] = "revoke"
    BY <1>1, <2>1 DEF Promises, Promised
  <2>5. Promised(r)'
    BY <2>1, <2>2, <2>3, <2>4, CommitDelivers DEF Promised
  <2> QED BY <2>1, <2>5, OnePromises
<1>2. CASE ~CommitFirst
  BY <1>2, LateCommitPromises
<1> QED BY <1>1, <1>2

\* The response says what has been committed, or what is about to be.
LEMMA ReplyPromises ==
  ASSUME IInv, Accounted, Promises, [Next]_vars,
         NEW r \in Requests, NEW delivered \in BOOLEAN, Reply(r, delivered)
  PROVE  Promises'
<1> USE ConstantsAssumption
<1>1. /\ pc[r] \in {"returned", "committed"} /\ Alone(r)
      /\ \/ CommitFirst /\ pc[r] = "committed" /\ pc'[r] = "idle"
         \/ /\ ~CommitFirst /\ pc[r] = "returned" /\ pc'[r] = "replied"
            /\ tok'[r] = tok[r] /\ write'[r] = write[r] /\ row'[r] = row[r]
  <2>1. CASE CommitFirst
    BY <2>1, OverMoves DEF Reply, IInv
  <2>2. CASE ~CommitFirst
    BY <2>2 DEF Reply, Goto, IInv, TypeOK, Alone
  <2> QED BY <2>1, <2>2
<1>2. family' = family /\ audit' = audit /\ overtaken' = overtaken
  BY DEF Reply, database, client
<1>3. held' \subseteq held \cup NewTokens(r) /\ answered' \subseteq answered \cup Reported(r)
  BY DEF Reply, client
<1>4. \A s \in Requests : Promised(s)'
  <2>1. Promised(r)'
    <3>1. CASE CommitFirst
      BY <1>1, <3>1 DEF Promised
    <3>2. CASE ~CommitFirst
      BY <1>1, <1>2, <3>2 DEF Promises, Promised, LogsOut
    <3> QED BY <3>1, <3>2
  <2>2. ASSUME NEW s \in Requests \ {r} PROVE Promised(s)'
    BY <1>1, <2>2, PromiseLasts DEF Promises, Alone
  <2> QED BY <2>1, <2>2
<1>5. ASSUME NEW x, Unsettled(x) PROVE Unsettled(x)'
  BY <1>1, <1>5, UnsettledLasts
<1>6. ASSUME ~CommitFirst, NEW x \in Said(r) PROVE Unsettled(x)'
  <2>1. pc'[r] = "replied" /\ Said(r)' = Said(r)
    BY <1>1, <1>6 DEF Said, NewTokens, Reported
  <2>2. x \in Unkept(Requests)'
    BY <2>1 DEF Unkept
  <2> QED BY <1>6, <2>2 DEF Unsettled
<1>7. ASSUME NEW t \in held' PROVE Behind(t)' \/ Unsettled(t)'
  <2>1. CASE t \in held
    BY <1>5, <2>1, HeldStaysBehind DEF Promises, NeverAhead, Behind
  <2>2. CASE t \in NewTokens(r) /\ CommitFirst
    <3>1. Behind(t)
      BY <1>1, <2>2 DEF Promises, Promised
    <3> QED BY <1>2, <3>1 DEF Behind
  <2>3. CASE t \in NewTokens(r) /\ ~CommitFirst
    BY <1>6, <2>3 DEF Said
  <2> QED BY <1>3, <2>1, <2>2, <2>3
<1>8. ASSUME NEW a \in answered', a.action = "auth.logout"
      PROVE  Settled(a)' \/ Unsettled(a)'
  <2>1. CASE a \in answered
    BY <1>5, <1>8, <2>1, SettledLasts DEF Promises, Kept
  <2>2. CASE a \in Reported(r) /\ CommitFirst
    <3>1. a = row[r] /\ LogsOut(r)
      BY <1>8, <2>2 DEF Reported, LogsOut
    <3>2. Settled(a)
      BY <1>1, <2>2, <3>1 DEF Promises, Promised
    <3> QED BY <3>2, SettledLasts
  <2>3. CASE a \in Reported(r) /\ ~CommitFirst
    BY <1>6, <2>3 DEF Said
  <2> QED BY <1>3, <2>1, <2>2, <2>3
<1>9. NeverAhead' /\ Kept'
  BY <1>7, <1>8 DEF NeverAhead, Kept, Behind
<1> QED BY <1>4, <1>9 DEF Promises

LEMMA StepPromises ==
  ASSUME IInv, Accounted, Promises, [Next]_vars
  PROVE  Promises'
<1> USE ConstantsAssumption
<1>1. ASSUME NEW r \in Requests, NEW u \in Users, NEW f \in Families, LoginVerify(r, u, f)
      PROVE  Promises'
  <2>1. Alone(r) /\ pc'[r] = "login"
    BY <1>1 DEF LoginVerify, Goto, IInv, TypeOK, Alone
  <2> QED BY <1>1, <2>1, NothingPromised DEF LoginVerify, client, database
<1>2. ASSUME NEW r \in Requests, NEW u \in Users, LoginFail(r, u) PROVE Promises'
  <2>1. Alone(r) /\ pc'[r] = "raised"
    BY <1>2 DEF LoginFail, Goto, IInv, TypeOK, Alone
  <2> QED BY <1>2, <2>1, NothingPromised DEF LoginFail, client, database
<1>3. ASSUME NEW r \in Requests, LoginOpen(r) PROVE Promises'
  <2>1. Alone(r) /\ pc'[r] = "returned" /\ row'[r] = row[r]
    BY <1>3 DEF LoginOpen, Goto, IInv, TypeOK, Alone
  <2>2. row[r].action = "auth.login.ok"
    BY <1>3 DEF LoginOpen, Accounted, RowOf
  <2>3. Promised(r)'
    BY <2>1, <2>2 DEF Promised, LogsOut
  <2> QED BY <1>3, <2>1, <2>3, OnePromises DEF LoginOpen, client, database
<1>4. ASSUME NEW r \in Requests, NEW t \in held, RefreshRead(r, t) PROVE Promises'
  <2>1. Alone(r) /\ pc'[r] \in {"rotate", "replay"}
    BY <1>4 DEF RefreshRead, Verdict, Goto, IInv, TypeOK, Alone
  <2> QED BY <1>4, <2>1, NothingPromised DEF RefreshRead, client, database
<1>5. ASSUME NEW r \in Requests, BumpWins(r) PROVE Promises'
  <2>1. Alone(r) /\ pc'[r] = "bumped"
    BY <1>5 DEF BumpWins, Goto, IInv, TypeOK, Alone
  <2> QED BY <1>5, <2>1, NothingPromised DEF BumpWins, client, database
<1>6. ASSUME NEW r \in Requests, BumpLoses(r) PROVE Promises'
  BY <1>6, OverMoves, NothingPromised DEF BumpLoses, IInv, client, database
<1>7. ASSUME NEW r \in Requests, UserActive(r) PROVE Promises'
  <2>1. Alone(r) /\ pc'[r] = "returned" /\ row'[r] = row[r]
    BY <1>7 DEF UserActive, Goto, IInv, TypeOK, Alone
  <2>2. row[r] = NoRow
    BY <1>7 DEF UserActive, Accounted, RowOf
  <2>3. Promised(r)'
    BY <2>1, <2>2 DEF Promised, LogsOut
  <2> QED BY <1>7, <2>1, <2>3, OnePromises DEF UserActive, client, database
<1>8. ASSUME NEW r \in Requests, UserInactive(r) PROVE Promises'
  <2>1. Alone(r) /\ pc'[r] = "raised"
    BY <1>8 DEF UserInactive, Goto, IInv, TypeOK, Alone
  <2> QED BY <1>8, <2>1, NothingPromised DEF UserInactive, client, database
<1>9. ASSUME NEW r \in Requests, ReplayRevoke(r) PROVE Promises'
  <2>1. Alone(r) /\ pc'[r] = "raised"
    BY <1>9 DEF ReplayRevoke, Goto, IInv, TypeOK, Alone
  <2> QED BY <1>9, <2>1, NothingPromised DEF ReplayRevoke, client, database
<1>10. ASSUME NEW r \in Requests, NEW t \in held, LogoutRead(r, t) PROVE Promises'
  <2>1. Alone(r) /\ pc'[r] = "logout" /\ tok'[r] = t /\ held' = held
    BY <1>10 DEF LogoutRead, Goto, IInv, TypeOK, Alone, client
  <2>2. Promised(r)'
    BY <2>1 DEF Promised
  <2> QED BY <1>10, <2>1, <2>2, OnePromises DEF LogoutRead, client, database
<1>11. ASSUME NEW r \in Requests, LogoutRevoke(r) PROVE Promises'
  <2>1. Alone(r) /\ pc'[r] = "returned"
    BY <1>11 DEF LogoutRevoke, Goto, IInv, TypeOK, Alone
  <2>2. ASSUME family[tok[r].fam].status = "absent" PROVE Promised(r)'
    <3>1. ~CommitFirst
      BY <1>11, <2>2
      DEF LogoutRevoke, Promises, Promised, NeverAhead, Unsettled
    <3>2. tok'[r].fam \in overtaken'
      BY <1>11, <2>2 DEF LogoutRevoke
    <3> QED BY <2>1, <3>1, <3>2 DEF Promised
  <2>3. ASSUME family[tok[r].fam].status # "absent" PROVE Promised(r)'
    <3>1. write'[r] = "revoke"
      BY <1>11, <2>3 DEF LogoutRevoke, IInv, TypeOK
    <3> QED BY <2>1, <3>1 DEF Promised
  <2>4. Promised(r)'
    BY <2>2, <2>3
  <2>5. pc[r] = "logout" /\ held' = held /\ answered' = answered
    BY <1>11 DEF LogoutRevoke
  <2> QED BY <2>1, <2>4, <2>5, OnePromises
<1>12. ASSUME NEW r \in Requests, Commit(r) PROVE Promises'
  BY <1>12, CommitPromises
<1>13. ASSUME NEW r \in Requests, NEW delivered \in BOOLEAN, Reply(r, delivered)
       PROVE  Promises'
  BY <1>13, ReplyPromises
<1>14. ASSUME NEW r \in Requests, Rollback(r) PROVE Promises'
  <2>1. Alone(r) /\ pc'[r] = "idle" /\ pc[r] = "raised"
    BY <1>14, OverMoves DEF Rollback, IInv
  <2>2. held' = held
    BY <1>14 DEF Rollback
  <2>3. \A s \in Requests : Promised(s)'
    <3>1. Promised(r)'
      BY <2>1 DEF Promised
    <3>2. ASSUME NEW s \in Requests \ {r} PROVE Promised(s)'
      BY <2>1, <2>2, <3>2, PromiseLasts DEF Promises, Alone
    <3> QED BY <3>1, <3>2
  <2>4. NeverAhead'
    <3>1. ASSUME NEW t \in held PROVE Behind(t)' \/ Unsettled(t)'
      BY <2>1, <3>1, HeldStaysBehind, UnsettledLasts DEF Promises, NeverAhead, Behind
    <3> QED BY <2>2, <3>1 DEF NeverAhead, Behind
  <2>5. Kept'
    <3>1. ASSUME NEW a \in answered', a.action = "auth.logout" PROVE a \in answered
      BY <1>14, <2>1, <3>1 DEF Rollback, Reported, Accounted, RowOf
    <3>2. ASSUME NEW a \in answered, a.action = "auth.logout"
          PROVE  Settled(a)' \/ Unsettled(a)'
      BY <2>1, <3>2, SettledLasts, UnsettledLasts DEF Promises, Kept
    <3> QED BY <3>1, <3>2 DEF Kept
  <2> QED BY <2>3, <2>4, <2>5 DEF Promises
<1>15. ASSUME NEW r \in Requests, Abort(r) PROVE Promises'
  <2>1. Alone(r) /\ pc'[r] = "idle" /\ held' = held /\ answered' = answered
    BY <1>15, OverMoves DEF Abort, IInv
  <2>2. pc[r] = "replied" => Said(r) \subseteq lost'
    BY <1>15 DEF Abort, Unkept
  <2> QED BY <2>1, <2>2, NothingPromised
<1>16. CASE Restart
  <2>1. \A s \in Requests : Promised(s)'
    BY <1>16 DEF Restart, Promised
  <2>2. \A x : Unsettled(x) => Unsettled(x)'
    BY <1>16 DEF Restart, Unsettled
  <2>3. NeverAhead' /\ Kept'
    BY <1>16, <2>2 DEF Restart, Promises, NeverAhead, Kept, Settled, database
  <2> QED BY <2>1, <2>3 DEF Promises
<1>17. ASSUME UNCHANGED <<family, audit, pc, tok, write, row, client>> PROVE Promises'
  <2>1. \A s \in Requests : Promised(s)'
    BY <1>17, PromiseLasts DEF Promises
  <2>2. \A s \in Requests : Said(s)' = Said(s)
    BY <1>17 DEF Said, NewTokens, Reported
  <2>3. \A x : Unsettled(x)' <=> Unsettled(x)
    BY <1>17, <2>2 DEF Unsettled, Unkept, client
  <2>4. NeverAhead' /\ Kept'
    BY <1>17, <2>3 DEF Promises, NeverAhead, Kept, Settled, client
  <2> QED BY <2>1, <2>4 DEF Promises
<1>18. ASSUME (\E u \in Users : SetActive(u)) \/ UNCHANGED vars
       PROVE  UNCHANGED <<family, audit, pc, tok, write, row, client>>
  BY <1>18 DEF SetActive, vars, client
<1> QED
  BY <1>1, <1>2, <1>3, <1>4, <1>5, <1>6, <1>7, <1>8, <1>9, <1>10, <1>11, <1>12, <1>13,
     <1>14, <1>15, <1>16, <1>17, <1>18
  DEF Next, Arrive, LockRow, Proceed

LEMMA PromisesHold == Spec => []Promises
<1>1. IInv /\ Accounted /\ Promises /\ [Next]_vars => Promises'
  BY StepPromises
<1> QED
  BY <1>1, InitAccounted, StepAccounted, InitPromises, Invariance, PTL DEF Spec

\* In both orders of the COMMIT and the response, a delivered token is ahead of
\* the committed row of its family only while its own transaction is uncommitted
\* behind its response, or after that transaction was lost; with the COMMIT
\* first, never: evaluate_replay may call such a token forged.
THEOREM TokensAreNeverAhead == Spec => []NeverAhead
<1>1. Promises => NeverAhead
  BY DEF Promises
<1> QED BY <1>1, PromisesHold, PTL

\* In both orders, a logout that was answered has revoked its family and left its
\* row, but for the two outcomes that the late COMMIT adds: its own transaction is
\* pending or lost, or it came before the COMMIT of the login it undoes.
THEOREM LogoutsAreDurable == Spec => []LogoutIsDurable
<1>1. Promises => LogoutIsDurable
  BY DEF Promises, Kept, Settled, LogoutIsDurable
<1> QED BY <1>1, PromisesHold, PTL
=============================================================================
