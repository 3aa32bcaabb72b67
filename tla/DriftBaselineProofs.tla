------------------------- MODULE DriftBaselineProofs -------------------------
(***************************************************************************)
(* Theorems about DriftBaseline, for any number of checks, blocks, runs,     *)
(* log rows and limits.  What concerns the files holds until two rebaseline  *)
(* runs have met: from then on they may share the temporary file.           *)
(***************************************************************************)
EXTENDS DriftBaseline, SequenceTheorems, TLAPS

-----------------------------------------------------------------------------
(* Types *)

LEMMA InitTypes == Init => TypeOK
<1> USE ConstantsAssumption
<1> SUFFICES ASSUME Init PROVE TypeOK
  OBVIOUS
<1>1. path \in Inodes \cup {NoFile} /\ installed \subseteq Inodes
  BY DEF Init
<1>2. data \in [Inodes -> [Blocks -> Refreshers \cup {Trainer, Nobody}]]
  BY DEF Init, Empty
<1>3. log \in Seq(Levels) /\ Len(log) <= MaxLog
  BY DEF Init
<1>4. looked \in [Refreshers -> 0..MaxLog]
  BY DEF Init
<1>5. overlapped \in BOOLEAN
  BY DEF Init
<1> QED BY <1>1, <1>2, <1>3, <1>4, <1>5 DEF Init, TypeOK, Levels

LEMMA AppendTypes ==
  ASSUME TypeOK, NEW row \in Levels, Append1(row)
  PROVE  log' \in Seq(Levels) /\ Len(log') <= MaxLog
  BY ConstantsAssumption DEF TypeOK, Append1

LEMMA CheckTypes ==
  ASSUME TypeOK, NEW c \in Checkers, Check(c)
  PROVE  TypeOK'
<1> USE DEF TypeOK, Goto, files, history
<1>1. CASE CheckStart(c)
  BY <1>1 DEF CheckStart, Levels
<1>2. CASE CheckRead(c)
  BY <1>2 DEF CheckRead
<1>3. ASSUME NEW level \in Levels, CheckPull(c, level) PROVE TypeOK'
  BY <1>3 DEF CheckPull
<1>4. CASE CheckCommit(c)
  <2>1. log' \in Seq(Levels) /\ Len(log') <= MaxLog
    BY <1>4, AppendTypes DEF CheckCommit
  <2> QED BY <1>4, <2>1 DEF CheckCommit
<1> QED BY <1>1, <1>2, <1>3, <1>4 DEF Check

LEMMA RefreshTypes ==
  ASSUME TypeOK, NEW p \in Refreshers, Refresh(p)
  PROVE  TypeOK'
<1> USE ConstantsAssumption DEF TypeOK, Goto, files, history
<1>1. CASE Count(p)
  <2>1. looked' \in [Refreshers -> 0..MaxLog] /\ overlapped' \in BOOLEAN
    <3>1. Len(log) \in 0..MaxLog
      OBVIOUS
    <3> QED BY <1>1, <3>1 DEF Count
  <2> QED BY <1>1, <2>1 DEF Count
<1>2. ASSUME NEW rows \in BOOLEAN, Pull(p, rows) PROVE TypeOK'
  BY <1>2 DEF Pull
<1>3. CASE Exists(p)
  BY <1>3 DEF Exists
<1>4. CASE Backup(p)
  <2>1. CASE path = NoFile
    BY <1>4, <2>1 DEF Backup
  <2>2. CASE path # NoFile
    <3>1. backups' \in [0..MaxRuns -> Inodes \cup {NoFile}]
      BY <1>4, <2>2 DEF Backup
    <3>2. pc' = [pc EXCEPT ![p] = "open"] /\ path' = NoFile
      BY <1>4, <2>2 DEF Backup
    <3> QED BY <1>4, <3>1, <3>2 DEF Backup
  <2> QED BY <2>1, <2>2
<1>5. CASE OpenTmp(p)
  BY <1>5 DEF OpenTmp, Empty
<1>6. CASE Write(p)
  <2>1. wrote'[p] \in 0..NBlocks /\ wrote' \in [Refreshers -> 0..NBlocks]
    BY <1>6 DEF Write
  <2>2. data' \in [Inodes -> [Blocks -> Refreshers \cup {Trainer, Nobody}]]
    BY <1>6 DEF Write
  <2> QED BY <1>6, <2>1, <2>2 DEF Write
<1>7. CASE Rename(p)
  BY <1>7 DEF Rename
<1>8. CASE RefreshCommit(p)
  <2>1. log' \in Seq(Levels) /\ Len(log') <= MaxLog
    BY <1>8, AppendTypes DEF RefreshCommit, Levels
  <2> QED BY <1>8, <2>1 DEF RefreshCommit
<1> QED BY <1>1, <1>2, <1>3, <1>4, <1>5, <1>6, <1>7, <1>8 DEF Refresh

LEMMA NextTypes == TypeOK /\ [Next]_vars => TypeOK'
<1> SUFFICES ASSUME TypeOK, [Next]_vars PROVE TypeOK'
  OBVIOUS
<1>1. ASSUME NEW c \in Checkers, Check(c) PROVE TypeOK'
  BY <1>1, CheckTypes
<1>2. ASSUME NEW p \in Refreshers, Refresh(p) PROVE TypeOK'
  BY <1>2, RefreshTypes
<1>3. ASSUME NEW p \in Checkers \cup Refreshers, Crash(p) PROVE TypeOK'
  BY <1>3 DEF TypeOK, Crash, Goto, files, history
<1>4. CASE OtherRow
  <2>1. log' \in Seq(Levels) /\ Len(log') <= MaxLog
    BY <1>4, AppendTypes DEF OtherRow, Levels
  <2> QED BY <1>4, <2>1 DEF OtherRow, TypeOK, files, history
<1>5. CASE Age
  <2>1. log' \in Seq(Levels) /\ Len(log') <= MaxLog
    BY <1>5, ConstantsAssumption DEF Age, TypeOK
  <2>2. looked' \in [Refreshers -> 0..MaxLog]
    <3>1. \A n \in 0..MaxLog : n # 0 => n - 1 \in 0..MaxLog
      BY ConstantsAssumption
    <3> QED BY <1>5, <3>1 DEF Age, TypeOK
  <2> QED BY <1>5, <2>1, <2>2 DEF Age, TypeOK, files
<1>6. CASE UNCHANGED vars
  BY <1>6 DEF TypeOK, vars
<1> QED BY <1>1, <1>2, <1>3, <1>4, <1>5, <1>6 DEF Next

-----------------------------------------------------------------------------
(* The inductive invariant *)

\* What the steps of a rebaseline run know of the files.
Prepared(p) ==
    /\ pc[p] = "write" <=> fd[p] # NoFile
    /\ pc[p] = "write" =>
          fd[p] = tmp /\ \A b \in Blocks : b <= wrote[p] => data[tmp][b] = p
    /\ pc[p] \in {"quiet", "pulled", "backup"} => backups[clock] = NoFile
    /\ pc[p] \in {"open", "write"} => path = NoFile

\* One run at a time is between its gate and its rename.
Apart == \A p, q \in Refreshers : Replacing(p) /\ Replacing(q) => p = q

\* No backup is dated later than the clock, so none is overwritten.
Dated == \A s \in 0..MaxRuns : s > clock => backups[s] = NoFile

\* Nobody writes to a file that has been the baseline.
Sealed ==
    /\ tmp \notin installed
    /\ path \in installed \cup {NoFile}

Kept ==
    \A i \in installed :
        /\ Complete(i)
        /\ i = path \/ \E s \in DOMAIN backups : backups[s] = i

FilesInv ==
    /\ TypeOK
    /\ Apart
    /\ \A p \in Refreshers : Prepared(p)
    /\ Dated
    /\ Sealed
    /\ Kept

IInv == TypeOK /\ (~overlapped => FilesInv)

LEMMA InitFiles == Init => FilesInv
<1> USE ConstantsAssumption
<1> SUFFICES ASSUME Init PROVE FilesInv
  OBVIOUS
<1>1. TypeOK
  BY InitTypes
<1>2. ASSUME NEW p \in Refreshers PROVE Prepared(p)
  BY DEF Init, Prepared
<1>3. Dated
  BY DEF Init, Dated
<1>4. Sealed
  BY DEF Init, Sealed
<1>6. Apart
  BY DEF Init, Apart, Replacing
<1>5. Kept
  <2> PICK i \in Inodes :
        /\ path \in {i, NoFile}
        /\ data = [j \in Inodes |->
                    IF j = i THEN [b \in Blocks |-> Trainer] ELSE Empty]
        /\ installed = {path} \ {NoFile}
    BY DEF Init
  <2>1. Complete(i)
    BY DEF Complete
  <2> QED BY <2>1 DEF Kept
<1> QED BY <1>1, <1>2, <1>3, <1>4, <1>5, <1>6 DEF FilesInv

\* Steps that leave the files alone and no run behind its claims.
LEMMA FilesStay ==
  ASSUME FilesInv, TypeOK', UNCHANGED <<files, clock>>, Apart',
         \A p \in Refreshers : Prepared(p)'
  PROVE  FilesInv'
<1>1. Dated' /\ Sealed'
  BY DEF FilesInv, Dated, Sealed, files
<1>2. Kept'
  BY DEF FilesInv, Kept, Complete, files
<1> QED BY <1>1, <1>2 DEF FilesInv

\* A file nobody wrote to is as whole as it was.
LEMMA WholeStays ==
  ASSUME NEW i, data'[i] = data[i]
  PROVE  Complete(i) => Complete(i)'
  BY DEF Complete

LEMMA CheckSafe ==
  ASSUME FilesInv, NEW c \in Checkers, Check(c)
  PROVE  FilesInv'
<1> USE DEF Goto
<1>1. TypeOK' /\ TypeOK
  BY CheckTypes DEF FilesInv
<1>2. /\ UNCHANGED <<files, fd, wrote, clock>>
      /\ \A p \in Refreshers :
            \/ pc'[p] = pc[p]
            \/ /\ pc[p] \in {"idle", "read", "pull", "returned"}
               /\ pc'[p] \in {"idle", "read", "pull", "returned"}
  BY <1>1 DEF Check, CheckStart, CheckRead, CheckPull, CheckCommit, TypeOK
<1>3. ASSUME NEW p \in Refreshers PROVE Prepared(p)'
  <2>1. Prepared(p)
    BY DEF FilesInv
  <2> QED BY <1>2, <2>1 DEF Prepared, files
<1>4. Apart'
  BY <1>2 DEF FilesInv, Apart, Replacing
<1> QED BY <1>1, <1>2, <1>3, <1>4, FilesStay

LEMMA CrashSafe ==
  ASSUME FilesInv, NEW q \in Checkers \cup Refreshers, Crash(q), TypeOK'
  PROVE  FilesInv'
<1>1. ASSUME NEW p \in Refreshers PROVE Prepared(p)'
  BY DEF FilesInv, TypeOK, Prepared, Crash, Goto, files
<1>2. Apart'
  BY DEF FilesInv, TypeOK, Apart, Replacing, Crash, Goto
<1> QED BY <1>1, <1>2, FilesStay DEF Crash

LEMMA LogSafe ==
  ASSUME FilesInv, OtherRow \/ Age \/ UNCHANGED vars, TypeOK'
  PROVE  FilesInv'
<1>1. UNCHANGED <<files, pc, fd, wrote, clock>>
  BY DEF OtherRow, Age, vars, files
<1>2. ASSUME NEW p \in Refreshers PROVE Prepared(p)'
  BY <1>1 DEF FilesInv, Prepared, files
<1>3. Apart'
  BY <1>1 DEF FilesInv, Apart, Replacing
<1> QED BY <1>1, <1>2, <1>3, FilesStay

-----------------------------------------------------------------------------
(* The rebaseline run *)

LEMMA RefreshSafe ==
  ASSUME FilesInv, NEW p \in Refreshers, Refresh(p), ~overlapped'
  PROVE  FilesInv'
<1> USE ConstantsAssumption DEF Goto
<1>1. TypeOK /\ TypeOK'
  BY RefreshTypes DEF FilesInv
<1>1a. ASSUME NEW q \in Refreshers, q # p
       PROVE  /\ pc'[q] = pc[q] /\ fd'[q] = fd[q]
              /\ Replacing(q) => RefreshCommit(p)
  <2>1. pc'[q] = pc[q] /\ fd'[q] = fd[q]
    BY <1>1, <1>1a DEF Refresh, Count, Pull, Exists, Backup, OpenTmp, Write, Rename,
       RefreshCommit, TypeOK
  <2>2. CASE Count(p)
    BY <2>1, <2>2 DEF Count
  <2>3. CASE Replacing(p)
    BY <1>1a, <2>1, <2>3 DEF FilesInv, Apart
  <2>4. CASE ~Replacing(p) /\ ~Count(p)
    BY <2>1, <2>4 DEF Refresh, Pull, Exists, Backup, OpenTmp, Write, Rename, Replacing
  <2> QED BY <2>2, <2>3, <2>4
<1>2. ~RefreshCommit(p) => Apart' /\ \A q \in Refreshers \ {p} : Prepared(q)'
  <2>1. ASSUME ~RefreshCommit(p) PROVE Apart'
    BY <1>1a, <2>1 DEF Apart, Replacing
  <2>2. ASSUME ~RefreshCommit(p), NEW q \in Refreshers \ {p} PROVE Prepared(q)'
    BY <1>1a, <2>2 DEF FilesInv, Prepared, Replacing
  <2> QED BY <2>1, <2>2
<1>3. Prepared(p) /\ Dated /\ Sealed /\ Kept
  BY DEF FilesInv
<1>4. CASE Count(p)
  <2>0. ~RefreshCommit(p)
    BY <1>4 DEF Count, RefreshCommit
  <2>1. Prepared(p)'
    BY <1>1, <1>3, <1>4 DEF Count, Prepared, Dated, TypeOK, files
  <2>2. Dated' /\ Sealed' /\ Kept'
    BY <1>1, <1>3, <1>4
    DEF Count, Dated, Sealed, Kept, Complete, TypeOK, files
  <2> QED BY <1>1, <1>2, <2>0, <2>1, <2>2 DEF FilesInv
<1>5. ASSUME NEW rows \in BOOLEAN, Pull(p, rows) PROVE FilesInv'
  <2>0. ~RefreshCommit(p)
    BY <1>5 DEF Pull, RefreshCommit
  <2>1. Prepared(p)'
    BY <1>1, <1>3, <1>5 DEF Pull, Prepared, TypeOK, files
  <2> QED BY <1>1, <1>2, <2>0, <1>5, <2>1, FilesStay DEF Pull
<1>6. CASE Exists(p)
  <2>0. ~RefreshCommit(p)
    BY <1>6 DEF Exists, RefreshCommit
  <2>1. Prepared(p)'
    BY <1>1, <1>3, <1>6 DEF Exists, Prepared, TypeOK, files
  <2> QED BY <1>1, <1>2, <2>0, <1>6, <2>1, FilesStay DEF Exists
<1>7. CASE Backup(p)
  <2>0. ~RefreshCommit(p)
    BY <1>7 DEF Backup, RefreshCommit
  <2>1. Prepared(p)'
    BY <1>1, <1>3, <1>7 DEF Backup, Prepared, TypeOK
  <2>2. Dated' /\ Sealed'
    BY <1>1, <1>3, <1>7 DEF Backup, Dated, Sealed, TypeOK
  <2>3. ASSUME NEW i \in installed
        PROVE  i = path' \/ \E s \in DOMAIN backups' : backups'[s] = i
    <3>1. CASE path = NoFile
      BY <1>3, <1>7, <3>1 DEF Backup, Kept
    <3>2. CASE path # NoFile
      <4>1. backups'[clock] = path /\ backups[clock] = NoFile /\ clock \in DOMAIN backups'
        BY <1>1, <1>3, <1>7, <3>2 DEF Backup, Prepared, TypeOK
      <4>2. CASE i = path
        BY <4>1, <4>2
      <4>3. CASE i # path
        <5> PICK s \in DOMAIN backups : backups[s] = i
          BY <1>3, <4>3 DEF Kept
        <5>1. s # clock
          BY <1>1, <4>1 DEF TypeOK
        <5> QED BY <1>1, <1>7, <3>2, <5>1 DEF Backup, TypeOK
      <4> QED BY <4>2, <4>3
    <3> QED BY <3>1, <3>2
  <2>4. Kept'
    BY <1>3, <1>7, <2>3 DEF Backup, Kept, Complete
  <2> QED BY <1>1, <1>2, <2>0, <2>1, <2>2, <2>4 DEF FilesInv
<1>8. CASE OpenTmp(p)
  <2>0. ~RefreshCommit(p)
    BY <1>8 DEF OpenTmp, RefreshCommit
  <2>1. PICK i \in Inodes :
          /\ IF tmp = NoFile THEN Free(i) ELSE i = tmp
          /\ tmp' = i
          /\ data' = [data EXCEPT ![i] = Empty]
          /\ fd' = [fd EXCEPT ![p] = i]
    BY <1>8 DEF OpenTmp
  <2>2. i \notin installed
    BY <1>3, <2>1 DEF Free, Sealed
  <2>3. Prepared(p)'
    BY <1>1, <1>3, <1>8, <2>1 DEF OpenTmp, Prepared, TypeOK, Blocks
  <2>4. Dated' /\ Sealed'
    BY <1>3, <1>8, <2>1, <2>2 DEF OpenTmp, Dated, Sealed
  <2>5. Kept'
    <3>1. installed' = installed /\ path' = path /\ backups' = backups
      BY <1>8 DEF OpenTmp
    <3>2. \A j \in installed : data'[j] = data[j]
      BY <1>1, <2>1, <2>2 DEF TypeOK
    <3> QED BY <1>3, <3>1, <3>2, WholeStays DEF Kept
  <2> QED BY <1>1, <1>2, <2>0, <2>3, <2>4, <2>5 DEF FilesInv
<1>9. CASE Write(p)
  <2>0. ~RefreshCommit(p)
    BY <1>9 DEF Write, RefreshCommit
  <2>1. fd[p] = tmp /\ tmp \in Inodes /\ tmp \notin installed
    BY <1>1, <1>3, <1>9 DEF Write, Prepared, Sealed, TypeOK
  <2>2. \A j \in Inodes \ {tmp} : data'[j] = data[j]
    BY <1>1, <1>9, <2>1 DEF Write, TypeOK
  <2>3. \A b \in Blocks :
          data'[tmp][b] = IF b = wrote[p] + 1 THEN p ELSE data[tmp][b]
    BY <1>1, <1>9, <2>1 DEF Write, TypeOK
  <2>4. Prepared(p)'
    <3>1. wrote'[p] = wrote[p] + 1 /\ wrote[p] \in Nat
      BY <1>1, <1>9 DEF Write, TypeOK
    <3>2. \A b \in Blocks : b <= wrote'[p] => b <= wrote[p] \/ b = wrote[p] + 1
      BY <3>1 DEF Blocks
    <3>3. \A b \in Blocks : b <= wrote'[p] => data'[tmp][b] = p
      BY <1>3, <1>9, <2>3, <3>2 DEF Write, Prepared
    <3> QED BY <1>3, <1>9, <2>1, <3>3 DEF Write, Prepared
  <2>5. Dated' /\ Sealed'
    BY <1>3, <1>9 DEF Write, Dated, Sealed
  <2>6. Kept'
    <3>1. installed' = installed /\ path' = path /\ backups' = backups
      BY <1>9 DEF Write
    <3>2. \A j \in installed : data'[j] = data[j]
      BY <1>1, <2>1, <2>2 DEF TypeOK
    <3> QED BY <1>3, <3>1, <3>2, WholeStays DEF Kept
  <2> QED BY <1>1, <1>2, <2>0, <2>4, <2>5, <2>6 DEF FilesInv
<1>10. CASE Rename(p)
  <2>0. ~RefreshCommit(p)
    BY <1>10 DEF Rename, RefreshCommit
  <2>1. path = NoFile /\ fd[p] = tmp /\ tmp \in Inodes /\ wrote[p] = NBlocks
    BY <1>1, <1>3, <1>10 DEF Rename, Prepared, TypeOK
  <2>2. Complete(tmp)
    <3>1. \A b \in Blocks : data[tmp][b] = p
      BY <1>3, <1>10, <2>1 DEF Rename, Prepared, Blocks
    <3> QED BY <3>1 DEF Complete
  <2>3. Prepared(p)'
    BY <1>1, <1>3, <1>10, <2>1 DEF Rename, Prepared, TypeOK
  <2>4. Dated' /\ Sealed'
    BY <1>1, <1>3, <1>10, <2>1 DEF Rename, Dated, Sealed, TypeOK
  <2>5. Kept'
    <3>1. /\ installed' = installed \cup {tmp} /\ path' = tmp
          /\ backups' = backups /\ data' = data
      BY <1>1, <1>10, <2>1 DEF Rename, TypeOK
    <3>2. ASSUME NEW i \in installed'
          PROVE  Complete(i) /\ (i = path' \/ \E s \in DOMAIN backups : backups[s] = i)
      BY <1>1, <1>3, <2>1, <2>2, <3>1 DEF Kept, TypeOK
    <3> QED BY <3>1, <3>2, WholeStays DEF Kept
  <2> QED BY <1>1, <1>2, <2>0, <2>3, <2>4, <2>5 DEF FilesInv
<1>11. CASE RefreshCommit(p)
  <2>1. Prepared(p)'
    BY <1>1, <1>3, <1>11 DEF RefreshCommit, Prepared, TypeOK, files
  <2>2. \A q \in Refreshers \ {p} : Prepared(q)'
    BY <1>11, <1>1a DEF FilesInv, Prepared, RefreshCommit, files
  <2>3. Apart'
    BY <1>1, <1>11, <1>1a DEF FilesInv, Apart, Replacing, RefreshCommit, TypeOK
  <2> QED BY <1>1, <1>11, <2>1, <2>2, <2>3, FilesStay DEF RefreshCommit
<1> QED BY <1>4, <1>5, <1>6, <1>7, <1>8, <1>9, <1>10, <1>11 DEF Refresh

\* Runs that have met stay met.
LEMMA NextIInv == IInv /\ [Next]_vars => IInv'
<1> SUFFICES ASSUME IInv, [Next]_vars, ~overlapped' PROVE FilesInv'
  BY NextTypes DEF IInv
<1>1. ~overlapped
  BY DEF Next, Check, CheckStart, CheckRead, CheckPull, CheckCommit, Refresh, Count, Pull,
     Exists, Backup, OpenTmp, Write, Rename, RefreshCommit, Crash, OtherRow, Age, history,
     vars
<1>2. FilesInv /\ TypeOK'
  BY <1>1, NextTypes DEF IInv
<1> QED BY <1>2, CheckSafe, RefreshSafe, CrashSafe, LogSafe DEF Next

-----------------------------------------------------------------------------
(* The gate *)

GateInv ==
    /\ TypeOK
    /\ LateOrBuried
    /\ \A p \in Refreshers : looked[p] <= Len(log)

\* A step that neither logs, ages nor lets a run through.
LEMMA GateStays ==
  ASSUME GateInv, TypeOK', UNCHANGED <<log, looked>>,
         \A p \in Refreshers : Replacing(p)' => Replacing(p)
  PROVE  GateInv'
  BY DEF GateInv, LateOrBuried, Flagged

\* A row that is added is late.
LEMMA AppendLate ==
  ASSUME GateInv, TypeOK', NEW row \in Levels, Append1(row), looked' = looked,
         \A p \in Refreshers : Replacing(p)' => Replacing(p)
  PROVE  GateInv'
<1>1. ASSUME NEW p \in Refreshers
      PROVE  /\ log \in Seq(Levels) /\ log' = Append(log, row)
             /\ looked[p] \in Nat /\ looked[p] <= Len(log)
  BY DEF GateInv, TypeOK, Append1
<1>2. ASSUME NEW p \in Refreshers, Replacing(p)', NEW n \in Flagged'
      PROVE  n > looked'[p] \/ n + LogLimit <= looked'[p]
  <2>1. CASE n = Len(log) + 1
    BY <1>1, <2>1
  <2>2. CASE n # Len(log) + 1
    <3>1. n \in Flagged
      BY <1>1, <1>2, <2>2 DEF Flagged
    <3> QED BY <1>2, <3>1 DEF GateInv, LateOrBuried
  <2> QED BY <2>1, <2>2
<1>3. \A p \in Refreshers : looked'[p] <= Len(log')
  BY <1>1
<1> QED BY <1>2, <1>3 DEF GateInv, LateOrBuried

\* The gate of p lets through what it cannot see.
LEMMA CountLooks ==
  ASSUME GateInv, TypeOK', NEW p \in Refreshers, Count(p)
  PROVE  GateInv'
<1>1. /\ log' = log /\ log \in Seq(Levels) /\ looked'[p] = Len(log)
      /\ \A q \in Refreshers \ {p} : looked'[q] = looked[q] /\ pc'[q] = pc[q]
      /\ Replacing(p)' => Counted = {}
  BY DEF GateInv, TypeOK, Count, Goto, Replacing
<1>2. ASSUME NEW q \in Refreshers, Replacing(q)', NEW n \in Flagged'
      PROVE  n > looked'[q] \/ n + LogLimit <= looked'[q]
  <2>1. n \in Flagged /\ n \in Nat /\ Len(log) \in Nat
    BY <1>1, <1>2 DEF Flagged
  <2>2. CASE q = p
    BY <1>1, <1>2, <2>1, <2>2, ConstantsAssumption DEF Counted
  <2>3. CASE q # p
    BY <1>1, <1>2, <2>1, <2>3 DEF GateInv, LateOrBuried, Replacing
  <2> QED BY <2>2, <2>3
<1>3. \A q \in Refreshers : looked'[q] <= Len(log')
  BY <1>1 DEF GateInv
<1> QED BY <1>2, <1>3 DEF GateInv, LateOrBuried

\* Row and mark move down together.
LEMMA AgeLooks ==
  ASSUME GateInv, TypeOK', Age
  PROVE  GateInv'
<1>1. /\ log \in Seq(Levels) /\ log # <<>> /\ log' = Tail(log) /\ pc' = pc
      /\ \A p \in Refreshers :
            /\ looked[p] \in Nat /\ looked[p] <= Len(log)
            /\ looked'[p] = IF looked[p] = 0 THEN 0 ELSE looked[p] - 1
  BY ConstantsAssumption DEF GateInv, TypeOK, Age
<1>2. Len(log') = Len(log) - 1 /\ Len(log) \in Nat \ {0}
  BY <1>1
<1>3. ASSUME NEW n \in Flagged' PROVE n \in Nat \ {0} /\ n + 1 \in Flagged
  BY <1>1, <1>2, <1>3 DEF Flagged
<1>4. ASSUME NEW p \in Refreshers, Replacing(p)', NEW n \in Flagged'
      PROVE  n > looked'[p] \/ n + LogLimit <= looked'[p]
  <2>1. n + 1 > looked[p] \/ (n + 1) + LogLimit <= looked[p]
    BY <1>1, <1>3, <1>4 DEF GateInv, LateOrBuried, Replacing
  <2> QED BY <1>1, <1>3, <2>1, ConstantsAssumption
<1>5. \A p \in Refreshers : looked'[p] <= Len(log')
  BY <1>1, <1>2
<1> QED BY <1>4, <1>5 DEF GateInv, LateOrBuried

LEMMA NextGate == GateInv /\ [Next]_vars => GateInv'
<1> SUFFICES ASSUME GateInv, [Next]_vars PROVE GateInv'
  OBVIOUS
<1> USE DEF Goto, Replacing
<1>0. TypeOK /\ TypeOK'
  BY NextTypes DEF GateInv
<1>1. ASSUME NEW c \in Checkers, Check(c) PROVE GateInv'
  <2>1. looked' = looked /\ \A p \in Refreshers : Replacing(p)' => Replacing(p)
    BY <1>0, <1>1
    DEF Check, CheckStart, CheckRead, CheckPull, CheckCommit, TypeOK, history
  <2>2. CASE CheckCommit(c)
    <3>1. verdict[c] \in Levels
      BY <1>0 DEF TypeOK
    <3> QED BY <1>0, <2>1, <2>2, <3>1, AppendLate DEF CheckCommit
  <2>3. CASE ~CheckCommit(c)
    <3>1. log' = log
      BY <1>1, <2>3 DEF Check, CheckStart, CheckRead, CheckPull
    <3> QED BY <1>0, <2>1, <3>1, GateStays
  <2> QED BY <2>2, <2>3
<1>2. ASSUME NEW p \in Refreshers, Refresh(p) PROVE GateInv'
  <2>1. CASE Count(p)
    BY <1>0, <2>1, CountLooks
  <2>2. CASE ~Count(p)
    <3>1. looked' = looked /\ \A q \in Refreshers : Replacing(q)' => Replacing(q)
      BY <1>0, <1>2, <2>2
      DEF Refresh, Pull, Exists, Backup, OpenTmp, Write, Rename, RefreshCommit, TypeOK,
          history
    <3>2. CASE RefreshCommit(p)
      BY <1>0, <3>1, <3>2, AppendLate DEF RefreshCommit, Levels
    <3>3. CASE ~RefreshCommit(p)
      <4>1. log' = log
        BY <1>2, <2>2, <3>3 DEF Refresh, Pull, Exists, Backup, OpenTmp, Write, Rename
      <4> QED BY <1>0, <3>1, <4>1, GateStays
    <3> QED BY <3>2, <3>3
  <2> QED BY <2>1, <2>2
<1>3. ASSUME NEW p \in Checkers \cup Refreshers, Crash(p) PROVE GateInv'
  <2>1. UNCHANGED <<log, looked>> /\ \A q \in Refreshers : Replacing(q)' => Replacing(q)
    BY <1>0, <1>3 DEF Crash, TypeOK, history
  <2> QED BY <1>0, <2>1, GateStays
<1>4. CASE OtherRow
  BY <1>0, <1>4, AppendLate DEF OtherRow, Levels, history
<1>5. CASE Age
  BY <1>0, <1>5, AgeLooks
<1>6. CASE UNCHANGED vars
  BY <1>0, <1>6, GateStays DEF vars
<1> QED BY <1>1, <1>2, <1>3, <1>4, <1>5, <1>6 DEF Next

-----------------------------------------------------------------------------
(* Theorems *)

\* The variables keep their types.
THEOREM TypeCorrect == Spec => []TypeOK
<1> QED BY InitTypes, NextTypes, PTL DEF Spec

\* The files are in order until two rebaseline runs have met.
THEOREM Invariance == Spec => []IInv
<1>1. Init => IInv
  BY InitTypes, InitFiles DEF IInv
<1> QED BY <1>1, NextIInv, PTL DEF Spec

\* Rebaseline runs, which may die anywhere, keep every baseline there has been,
\* whole, in place or as a backup (rebaseline_if_quiet), until two have met.
THEOREM BaselinesAreKept == Spec => []PreviousIsKept
<1>1. IInv => PreviousIsKept
  BY DEF IInv, FilesInv, Kept, PreviousIsKept
<1> QED BY <1>1, Invariance, PTL

\* Till then a check never opens half a sample (_write_baseline_csv).
THEOREM BaselineIsWhole == Spec => []NeverTorn
<1>1. IInv => NeverTorn
  BY DEF IInv, FilesInv, Sealed, Kept, NeverTorn
<1> QED BY <1>1, Invariance, PTL

\* The gate of rebaseline_if_quiet is blind only to rows committed after it looked
\* and to rows behind LogLimit others, whatever the log holds and runs side by side.
THEOREM MissedAlertsAreLateOrBuried == Spec => []LateOrBuried
<1>1. Init => GateInv
  <2> SUFFICES ASSUME Init PROVE GateInv
    OBVIOUS
  <2>1. log = <<>> /\ (\A p \in Refreshers : looked[p] = 0 /\ ~Replacing(p))
    BY DEF Init, Replacing
  <2> QED BY <2>1, InitTypes DEF GateInv, LateOrBuried
<1>2. GateInv => LateOrBuried
  BY DEF GateInv
<1> QED BY <1>1, <1>2, NextGate, PTL DEF Spec
=============================================================================
