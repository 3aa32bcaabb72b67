--------------------------- MODULE ComponentsProofs --------------------------
(***************************************************************************)
(* Theorems about the components that MCComponents instantiates, for every   *)
(* value of their constants; the last section carries them to the behaviours *)
(* of its run.                                                               *)
(***************************************************************************)
EXTENDS MCComponents, FiniteSetTheorems, SequenceTheorems, TLAPS

-----------------------------------------------------------------------------
(* MlThreshold *)

\* A PUT under way carries two thresholds, ...
PutsCarry ==
    \A r \in Requests : pc[r] \in {"set", "record"} =>
        prev[r] \in Threshold!Thresholds /\ new[r] \in Threshold!Thresholds

\* ... and has committed the new one when it is about to be answered.
SetIsCommitted == \A r \in Requests : pc[r] = "record" => new[r] \in committed

ThresholdInv == Threshold!TypeOK /\ PutsCarry /\ SetIsCommitted /\ AnswersAreStored

\* What _parse_threshold answers is a threshold, whatever the row holds.
LEMMA ParsedIsThreshold ==
  ASSUME NEW raw \in Threshold!Raw
  PROVE  Threshold!Parse(raw) \in Threshold!Thresholds
<1>1. CASE raw \in {Garbage, Absent} \/ raw > One
  BY <1>1, InstanceAssumption
  DEF Threshold!ConstantsAssumption, Threshold!Parse, Threshold!Thresholds
<1>2. CASE ~(raw \in {Garbage, Absent} \/ raw > One)
  <2>1. raw \in -1..(One + 1)
    BY <1>2 DEF Threshold!Raw
  <2>2. Threshold!Parse(raw) = IF raw < 0 THEN 0 ELSE raw
    BY <1>2 DEF Threshold!Parse
  <2> QED
    BY <1>2, <2>1, <2>2, InstanceAssumption
    DEF Threshold!ConstantsAssumption, Threshold!Thresholds
<1> QED
  BY <1>1, <1>2

\* Nothing is committed or answered before the first request.
LEMMA ThresholdInit == Threshold!Init => ThresholdInv
  BY InstanceAssumption
  DEF Threshold!Init, ThresholdInv, Threshold!TypeOK, PutsCarry, SetIsCommitted, AnswersAreStored,
      Threshold!AnswersAreStored, Threshold!ConstantsAssumption, Threshold!Raw,
      Threshold!Thresholds

\* A request keeps the invariant in each of its steps.
LEMMA ThresholdHandle ==
  ASSUME ThresholdInv, NEW r \in Requests, Threshold!Handle(r)
  PROVE  ThresholdInv'
<1> USE DEF ThresholdInv, Threshold!TypeOK, PutsCarry, SetIsCommitted, AnswersAreStored,
            Threshold!AnswersAreStored, Threshold!Goto, Threshold!session, Threshold!history
<1>1. ASSUME NEW v \in Threshold!Thresholds, Threshold!PutRead(r, v)
      PROVE  ThresholdInv'
  BY <1>1, ParsedIsThreshold DEF Threshold!PutRead
<1>2. CASE Threshold!Set(r)
  <2>1. new[r] \in Threshold!Thresholds /\ Threshold!Thresholds \subseteq Threshold!Raw
    BY <1>2, InstanceAssumption
    DEF Threshold!Set, Threshold!Thresholds, Threshold!Raw, Threshold!ConstantsAssumption
  <2> QED
    BY <1>2, <2>1 DEF Threshold!Set
<1>3. CASE Threshold!Record(r)
  BY <1>3 DEF Threshold!Record, Threshold!Rows
<1>4. CASE Threshold!Finalise(r)
  BY <1>4 DEF Threshold!Finalise, Threshold!Kept, Threshold!Over
<1>5. CASE Threshold!Get(r)
  BY <1>5, ParsedIsThreshold DEF Threshold!Get
<1>6. CASE Threshold!Abort(r)
  BY <1>6 DEF Threshold!Abort, Threshold!Over
<1> QED
  BY <1>1, <1>2, <1>3, <1>4, <1>5, <1>6 DEF Threshold!Handle

\* An edit of the row by hand leaves the requests alone.
LEMMA ThresholdStep == ThresholdInv /\ [Threshold!Next]_thresholdVars => ThresholdInv'
<1> SUFFICES ASSUME ThresholdInv, [Threshold!Next]_thresholdVars
             PROVE  ThresholdInv'
  OBVIOUS
<1>1. ASSUME NEW r \in Requests, Threshold!Handle(r)
      PROVE  ThresholdInv'
  BY <1>1, ThresholdHandle
<1>2. ASSUME NEW raw \in Threshold!Raw, Threshold!Edit(raw)
      PROVE  ThresholdInv'
  BY <1>2
  DEF Threshold!Edit, ThresholdInv, Threshold!TypeOK, PutsCarry, SetIsCommitted,
      AnswersAreStored, Threshold!AnswersAreStored, Threshold!session, Threshold!history
<1>3. CASE UNCHANGED thresholdVars
  BY <1>3
  DEF thresholdVars, ThresholdInv, Threshold!TypeOK, PutsCarry, SetIsCommitted,
      AnswersAreStored, Threshold!AnswersAreStored
<1> QED
  BY <1>1, <1>2, <1>3 DEF Threshold!Next

\* A PUT that was answered 200 has committed its value (api/ml.py,
\* PgMlConfigRepo.set), although the session it ran in is dropped without a commit.
THEOREM AnsweredPutsAreStored == Threshold!Spec => []AnswersAreStored
<1>1. [Threshold!Next]_(Threshold!vars) => [Threshold!Next]_thresholdVars
  BY DEF Threshold!vars, thresholdVars
<1>2. ThresholdInv => AnswersAreStored
  BY DEF ThresholdInv
<1> QED
  BY ThresholdInit, ThresholdStep, <1>1, <1>2, PTL DEF Threshold!Spec

-----------------------------------------------------------------------------
(* ThresholdCalibration *)

FileRow == [label : Calibration!Labels \cup {Bad}, score : Calibration!Scores \cup {Bad}]

CalibrationTypeOK ==
    /\ file \in Seq(FileRow)
    /\ y \in Seq(Calibration!Labels) /\ s \in Seq(Calibration!Scores)
    /\ budget \in Int /\ theta \in Int
    /\ recall \in 0..Parts /\ cut \in Int

\* Whole rows of a label whose score passes the test, in the file and in the lists.
Whole(label, th) == {i \in Calibration!Rows(label) : file[i].score >= th}
Listed(label, th) == {i \in DOMAIN y : y[i] = label /\ s[i] >= th}

\* The lists say the same of label and th as the file does.
Agrees(label, th) ==
    /\ Cardinality(Whole(label, th)) = Cardinality(Listed(label, th))
    /\ Cardinality(Calibration!Rows(label)) = Cardinality(Calibration!Of(label))

\* A row whose score is bad makes one list longer for good; until then the lists
\* hold the whole rows of the file.
ListsAreTheFile ==
    /\ Len(s) <= Len(y)
    /\ Len(s) = Len(y) =>
          \A label \in Calibration!Labels, th \in Int : Agrees(label, th)

\* Both choices were made on lists of one length, which have not changed since.
ThetaIsChosen ==
    Calibration!Calibrated => Len(y) = Len(s) /\ Calibration!Choice(budget, theta)

CutReaches ==
    cut # -1 =>
        /\ Len(y) = Len(s)
        /\ Calibration!Reaches(cut, recall) \/ cut = 0

CalibrationInv ==
    /\ CalibrationTypeOK /\ ListsAreTheFile /\ ThetaIsChosen /\ CutReaches

\* The instance counts as its module does.
LEMMA CalibrationCounts ==
  ASSUME NEW S
  PROVE  Calibration!Count(S) = Cardinality(S)
  BY DEF Calibration!Count, Calibration!Cardinality, Cardinality,
         Calibration!IsFiniteSet, IsFiniteSet

\* What the instance assumes of its constants.
LEMMA CalibrationAssumed ==
  /\ Steps \in Nat \ {0} /\ Parts \in Nat \ {0}
  /\ Budgets \subseteq Int /\ Recalls \subseteq 0..Parts
  /\ Bad \notin Int
  BY InstanceAssumption DEF Calibration!ConstantsAssumption

\* Nothing is read at first, and nothing chosen.
LEMMA CalibrationInit == Calibration!Init => CalibrationInv
<1> SUFFICES ASSUME Calibration!Init
             PROVE  CalibrationInv
  OBVIOUS
<1>1. file = <<>> /\ y = <<>> /\ s = <<>>
  BY DEF Calibration!Init
<1>2. CalibrationTypeOK
  BY CalibrationAssumed, EmptySeq DEF Calibration!Init, CalibrationTypeOK
<1>3. ASSUME NEW label, NEW th
      PROVE  Agrees(label, th)
  <2>1. Whole(label, th) = {} /\ Listed(label, th) = {}
    BY <1>1 DEF Whole, Listed, Calibration!Rows
  <2>2. Calibration!Rows(label) = {} /\ Calibration!Of(label) = {}
    BY <1>1 DEF Calibration!Rows, Calibration!Of
  <2> QED
    BY <2>1, <2>2 DEF Agrees
<1>4. ListsAreTheFile
  BY <1>1, <1>3 DEF ListsAreTheFile
<1>5. ThetaIsChosen /\ CutReaches
  BY CalibrationAssumed
  DEF Calibration!Init, ThetaIsChosen, CutReaches, Calibration!Calibrated, Calibration!Grid
<1> QED
  BY <1>2, <1>4, <1>5 DEF CalibrationInv

\* Adding a new index to each of two sets keeps them as large as each other.
LEMMA GrowTogether ==
  ASSUME NEW S, NEW T, IsFiniteSet(S), IsFiniteSet(T), Cardinality(S) = Cardinality(T),
         NEW i, i \notin S, NEW j, j \notin T
  PROVE  Cardinality(S \cup {i}) = Cardinality(T \cup {j})
<1>1. Cardinality(S \cup {i}) = Cardinality(S) + 1
  BY FS_AddElement
<1>2. Cardinality(T \cup {j}) = Cardinality(T) + 1
  BY FS_AddElement
<1> QED
  BY <1>1, <1>2

\* Indices of a sequence are finitely many.
LEMMA IndicesAreFinite ==
  ASSUME NEW X, NEW q \in Seq(X), NEW I, I \subseteq DOMAIN q
  PROVE  IsFiniteSet(I)
<1>1. DOMAIN q = 1..Len(q) /\ Len(q) \in Nat
  BY LenProperties
<1>2. IsFiniteSet(1..Len(q))
  BY <1>1, FS_Interval
<1> QED
  BY <1>1, <1>2, FS_Subset

\* The four sets are of indices.
LEMMA SetsAreFinite ==
  ASSUME CalibrationTypeOK, NEW label, NEW th
  PROVE  /\ IsFiniteSet(Whole(label, th)) /\ IsFiniteSet(Listed(label, th))
         /\ IsFiniteSet(Calibration!Rows(label)) /\ IsFiniteSet(Calibration!Of(label))
<1>1. /\ Whole(label, th) \subseteq DOMAIN file /\ Listed(label, th) \subseteq DOMAIN y
      /\ Calibration!Rows(label) \subseteq DOMAIN file
      /\ Calibration!Of(label) \subseteq DOMAIN y
  BY DEF Whole, Listed, Calibration!Rows, Calibration!Of
<1> QED
  BY <1>1, IndicesAreFinite DEF CalibrationTypeOK

\* A whole row that is read goes to the end of the file and of both lists.
LEMMA WholeRowAgrees ==
  ASSUME CalibrationTypeOK, Len(s) = Len(y),
         NEW l \in Calibration!Labels, NEW x \in Calibration!Scores,
         file' = Append(file, [label |-> l, score |-> x]),
         y' = Append(y, l), s' = Append(s, x),
         NEW label \in Calibration!Labels, NEW th \in Int, Agrees(label, th)
  PROVE  Agrees(label, th)'
<1> DEFINE f == Len(file) + 1
           n == Len(y) + 1
<1>1. /\ DOMAIN file = 1..Len(file) /\ Len(file) \in Nat /\ DOMAIN file' = 1..f
      /\ \A i \in DOMAIN file : file'[i] = file[i]
      /\ file'[f] = [label |-> l, score |-> x]
  BY AppendProperties, LenProperties, CalibrationAssumed DEF CalibrationTypeOK, FileRow
<1>2. /\ DOMAIN y = 1..Len(y) /\ Len(y) \in Nat /\ DOMAIN y' = 1..n
      /\ \A i \in DOMAIN y : y'[i] = y[i] /\ s'[i] = s[i]
      /\ y'[n] = l /\ s'[n] = x
  BY AppendProperties, LenProperties DEF CalibrationTypeOK
<1>3. x # Bad
  BY CalibrationAssumed DEF Calibration!Scores, Calibration!Certain
<1>4. f \notin DOMAIN file /\ n \notin DOMAIN y
  BY <1>1, <1>2
<1>5. Cardinality(Calibration!Rows(label)') = Cardinality(Calibration!Of(label)')
  <2>1. CASE label = l
    <3>1. /\ Calibration!Rows(label)' = Calibration!Rows(label) \cup {f}
          /\ f \notin Calibration!Rows(label)
      BY <1>1, <1>3, <2>1 DEF Calibration!Rows
    <3>2. /\ Calibration!Of(label)' = Calibration!Of(label) \cup {n}
          /\ n \notin Calibration!Of(label)
      BY <1>2, <2>1 DEF Calibration!Of
    <3> QED
      BY <3>1, <3>2, SetsAreFinite, GrowTogether DEF Agrees
  <2>2. CASE label # l
    <3>1. Calibration!Rows(label)' = Calibration!Rows(label)
      BY <1>1, <2>2 DEF Calibration!Rows
    <3>2. Calibration!Of(label)' = Calibration!Of(label)
      BY <1>2, <2>2 DEF Calibration!Of
    <3> QED
      BY <3>1, <3>2 DEF Agrees
  <2> QED
    BY <2>1, <2>2
<1>6. Cardinality(Whole(label, th)') = Cardinality(Listed(label, th)')
  <2>1. CASE label = l /\ x >= th
    <3>1. /\ Whole(label, th)' = Whole(label, th) \cup {f}
          /\ f \notin Whole(label, th)
      BY <1>1, <1>3, <2>1 DEF Whole, Calibration!Rows
    <3>2. /\ Listed(label, th)' = Listed(label, th) \cup {n}
          /\ n \notin Listed(label, th)
      BY <1>2, <2>1 DEF Listed
    <3> QED
      BY <3>1, <3>2, SetsAreFinite, GrowTogether DEF Agrees
  <2>2. CASE ~(label = l /\ x >= th)
    <3>1. Whole(label, th)' = Whole(label, th)
      BY <1>1, <2>2 DEF Whole, Calibration!Rows
    <3>2. Listed(label, th)' = Listed(label, th)
      BY <1>2, <2>2 DEF Listed
    <3> QED
      BY <3>1, <3>2 DEF Agrees
  <2> QED
    BY <2>1, <2>2
<1> QED
  BY <1>5, <1>6 DEF Agrees

\* One more row keeps the lists in agreement with the file, or apart from each other.
LEMMA ReadKeeps ==
  ASSUME CalibrationInv,
         NEW l \in Calibration!Labels \cup {Bad}, NEW x \in Calibration!Scores \cup {Bad},
         Calibration!ReadRow(l, x)
  PROVE  CalibrationInv'
<1> USE DEF CalibrationInv
<1>1. /\ theta = -1 /\ cut = -1
      /\ file' = Append(file, [label |-> l, score |-> x])
      /\ UNCHANGED <<budget, theta, recall, cut>>
  BY DEF Calibration!ReadRow, Calibration!chosen, Calibration!evaluated
<1>2. file' \in Seq(FileRow)
  BY <1>1, AppendProperties DEF CalibrationTypeOK, FileRow
<1>3. ThetaIsChosen' /\ CutReaches'
  BY <1>1, CalibrationAssumed
  DEF ThetaIsChosen, CutReaches, Calibration!Calibrated, Calibration!Grid
<1>4. CASE l = Bad
  <2>1. y' = y /\ s' = s
    BY <1>4 DEF Calibration!ReadRow
  <2>2. ASSUME NEW label \in Calibration!Labels, NEW th \in Int
        PROVE  Agrees(label, th)' <=> Agrees(label, th)
    <3>1. label # Bad
      BY CalibrationAssumed DEF Calibration!Labels
    <3>2. /\ DOMAIN file = 1..Len(file) /\ Len(file) \in Nat
          /\ DOMAIN file' = 1..(Len(file) + 1)
          /\ \A i \in DOMAIN file : file'[i] = file[i]
          /\ file'[Len(file) + 1].label = Bad
      BY <1>1, <1>4, AppendProperties, LenProperties DEF CalibrationTypeOK, FileRow
    <3>3. Calibration!Rows(label)' = Calibration!Rows(label)
      BY <3>1, <3>2 DEF Calibration!Rows
    <3>4. Whole(label, th)' = Whole(label, th)
      BY <3>1, <3>2 DEF Whole, Calibration!Rows
    <3>5. /\ Listed(label, th)' = Listed(label, th)
          /\ Calibration!Of(label)' = Calibration!Of(label)
      BY <2>1 DEF Listed, Calibration!Of
    <3> QED
      BY <3>3, <3>4, <3>5 DEF Agrees
  <2> QED
    BY <1>1, <1>2, <1>3, <2>1, <2>2 DEF CalibrationTypeOK, ListsAreTheFile
<1>5. CASE l # Bad /\ x = Bad
  <2>1. y' = Append(y, l) /\ s' = s /\ l \in Calibration!Labels
    BY <1>5 DEF Calibration!ReadRow
  <2>2. Len(y') = Len(y) + 1 /\ y' \in Seq(Calibration!Labels) /\ Len(y) \in Nat
    BY <2>1, AppendProperties, LenProperties DEF CalibrationTypeOK
  <2>3. Len(s) \in Nat
    BY LenProperties DEF CalibrationTypeOK
  <2> QED
    BY <1>1, <1>2, <1>3, <2>1, <2>2, <2>3 DEF CalibrationTypeOK, ListsAreTheFile
<1>6. CASE l # Bad /\ x # Bad
  <2>1. /\ y' = Append(y, l) /\ s' = Append(s, x)
        /\ l \in Calibration!Labels /\ x \in Calibration!Scores
    BY <1>6 DEF Calibration!ReadRow
  <2>2. /\ Len(y') = Len(y) + 1 /\ y' \in Seq(Calibration!Labels) /\ Len(y) \in Nat
        /\ Len(s') = Len(s) + 1 /\ s' \in Seq(Calibration!Scores) /\ Len(s) \in Nat
    BY <2>1, AppendProperties, LenProperties DEF CalibrationTypeOK
  <2>3. ASSUME Len(s') = Len(y'), NEW label \in Calibration!Labels, NEW th \in Int
        PROVE  Agrees(label, th)'
    <3>1. Len(s) = Len(y)
      BY <2>2, <2>3
    <3> QED
      BY <1>1, <2>1, <2>3, <3>1, WholeRowAgrees DEF ListsAreTheFile
  <2> QED
    BY <1>1, <1>2, <1>3, <2>2, <2>3 DEF CalibrationTypeOK, ListsAreTheFile
<1> QED
  BY <1>4, <1>5, <1>6

\* While the file and the lists stay, so does what is read off them.
LEMMA ListsStay ==
  ASSUME UNCHANGED <<file, y, s>>, NEW b, NEW th
  PROVE  /\ ListsAreTheFile' <=> ListsAreTheFile
         /\ Calibration!Choice(b, th)' <=> Calibration!Choice(b, th)
         /\ Calibration!Reaches(th, b)' <=> Calibration!Reaches(th, b)
  BY DEF ListsAreTheFile, Agrees, Whole, Listed, Calibration!Rows, Calibration!Of,
         Calibration!Choice, Calibration!Reaches, Calibration!WithinBudget, Calibration!At,
         Calibration!Count

\* A choice is made on what was read.
LEMMA ChoosingKeeps ==
  ASSUME CalibrationInv,
         \/ \E b \in Budgets : Calibration!Calibrate(b)
         \/ Calibration!Raise
         \/ \E t \in Recalls : Calibration!Evaluate(t)
  PROVE  CalibrationInv'
<1> USE DEF CalibrationInv
<1>1. ASSUME NEW b \in Budgets, Calibration!Calibrate(b)
      PROVE  CalibrationInv'
  <2>1. /\ UNCHANGED <<file, y, s>> /\ UNCHANGED <<recall, cut, fpr>>
        /\ budget' = b /\ theta' \in Calibration!Grid
        /\ Len(y) = Len(s)
        /\ Calibration!Choice(b, theta')
    BY <1>1
    DEF Calibration!Calibrate, Calibration!lists, Calibration!evaluated, Calibration!Refused
  <2>2. CalibrationTypeOK'
    BY <2>1, CalibrationAssumed DEF CalibrationTypeOK, Calibration!Grid
  <2>3. PICK th \in Calibration!Grid : th = theta' /\ Calibration!Choice(b, th)
    BY <2>1
  <2>4. Calibration!Choice(b, th)'
    BY <2>1, <2>3, ListsStay
  <2>5. ThetaIsChosen'
    BY <2>1, <2>3, <2>4 DEF ThetaIsChosen
  <2>6. CutReaches'
    BY <2>1
    DEF CutReaches, Calibration!Reaches, Calibration!At, Calibration!Of, Calibration!Count
  <2> QED
    BY <2>1, <2>2, <2>5, <2>6, ListsStay
<1>2. CASE Calibration!Raise
  <2>1. /\ UNCHANGED <<file, y, s>> /\ UNCHANGED <<recall, cut, fpr>>
        /\ budget' = budget /\ theta' = Calibration!Certain + 1
    BY <1>2 DEF Calibration!Raise, Calibration!lists, Calibration!evaluated
  <2>2. theta' \in Int /\ ~Calibration!Calibrated'
    BY <2>1, CalibrationAssumed
    DEF Calibration!Calibrated, Calibration!Certain, Calibration!Grid
  <2>3. CutReaches'
    BY <2>1
    DEF CutReaches, Calibration!Reaches, Calibration!At, Calibration!Of, Calibration!Count
  <2> QED
    BY <2>1, <2>2, <2>3, ListsStay DEF CalibrationTypeOK, ThetaIsChosen
<1>3. ASSUME NEW t \in Recalls, Calibration!Evaluate(t)
      PROVE  CalibrationInv'
  <2>1. /\ UNCHANGED <<file, y, s>> /\ UNCHANGED <<budget, theta>>
        /\ recall' = t /\ Len(y) = Len(s)
        /\ \/ \E i \in DOMAIN s : Calibration!Reaches(s[i], t) /\ cut' = s[i]
           \/ cut' = 0
    BY <1>3
    DEF Calibration!Evaluate, Calibration!lists, Calibration!chosen, Calibration!Refused
  <2>2. CalibrationTypeOK'
    BY <2>1, CalibrationAssumed
    DEF CalibrationTypeOK, Calibration!Scores, Calibration!Certain
  <2>3. PICK c \in Int : c = cut' /\ (Calibration!Reaches(c, t) \/ c = 0)
    BY <2>1, <2>2 DEF CalibrationTypeOK
  <2>4. Calibration!Reaches(c, t) => Calibration!Reaches(c, t)'
    BY <2>1, ListsStay
  <2>5. CutReaches'
    BY <2>1, <2>3, <2>4 DEF CutReaches
  <2>6. ThetaIsChosen'
    BY <2>1
    DEF ThetaIsChosen, Calibration!Choice, Calibration!WithinBudget, Calibration!At,
        Calibration!Of, Calibration!Count, Calibration!Calibrated
  <2> QED
    BY <2>1, <2>2, <2>5, <2>6, ListsStay
<1> QED
  BY <1>1, <1>2, <1>3

\* Every step reads, chooses or does nothing.
LEMMA CalibrationStep ==
  CalibrationInv /\ [Calibration!Next]_calibrationVars => CalibrationInv'
<1> SUFFICES ASSUME CalibrationInv, [Calibration!Next]_calibrationVars
             PROVE  CalibrationInv'
  OBVIOUS
<1>1. CASE Calibration!Next
  BY <1>1, ReadKeeps, ChoosingKeeps DEF Calibration!Next
<1>2. CASE UNCHANGED calibrationVars
  <2>1. ThetaIsChosen' <=> ThetaIsChosen
    BY <1>2
    DEF calibrationVars, ThetaIsChosen, Calibration!Choice, Calibration!WithinBudget,
        Calibration!At, Calibration!Of, Calibration!Count, Calibration!Calibrated
  <2>2. CutReaches' <=> CutReaches
    BY <1>2
    DEF calibrationVars, CutReaches, Calibration!Reaches, Calibration!At, Calibration!Of,
        Calibration!Count
  <2> QED
    BY <1>2, <2>1, <2>2, ListsStay DEF calibrationVars, CalibrationInv, CalibrationTypeOK
<1> QED
  BY <1>1, <1>2

\* What the gate blocks of the file, in terms of the lists the choice was made on.
LEMMA GateOnTheLists ==
  ASSUME CalibrationInv, Len(y) = Len(s), theta \in Calibration!Grid,
         NEW label \in Calibration!Labels
  PROVE  /\ Cardinality(Calibration!Blocked(label)) =
                IF theta < Calibration!Certain
                THEN Cardinality(Calibration!At(label, theta)) ELSE 0
         /\ Cardinality(Calibration!Rows(label)) = Cardinality(Calibration!Of(label))
         /\ Cardinality(Calibration!Rows(label)) \in Nat
         /\ Cardinality(Calibration!At(label, theta)) \in Nat
<1>1. theta \in Int
  BY DEF CalibrationInv, CalibrationTypeOK
<1>2. Agrees(label, theta)
  BY <1>1 DEF CalibrationInv, ListsAreTheFile
<1>3. Calibration!At(label, theta) = Listed(label, theta)
  BY DEF Calibration!At, Calibration!Of, Listed
<1>4. CASE theta < Calibration!Certain
  <2>1. Calibration!Blocked(label) = Whole(label, theta)
    BY <1>4 DEF Calibration!Blocked, Calibration!Gate, Whole
  <2> QED
    BY <1>2, <1>3, <1>4, <2>1, SetsAreFinite, FS_CardinalityType DEF Agrees, CalibrationInv
<1>5. CASE ~(theta < Calibration!Certain)
  <2>1. Calibration!Blocked(label) = {}
    BY <1>5 DEF Calibration!Blocked, Calibration!Gate
  <2> QED
    BY <1>2, <1>3, <1>5, <2>1, SetsAreFinite, FS_CardinalityType, FS_EmptySet
    DEF Agrees, CalibrationInv
<1> QED
  BY <1>4, <1>5

\* What the calibration promises of the lists holds of the file.
LEMMA BudgetIsKept == CalibrationInv => GateKeepsBudget
<1> SUFFICES ASSUME CalibrationInv, theta \in Calibration!Grid
             PROVE  Calibration!Count(Calibration!Blocked(0)) * Parts <=
                        (IF budget > 0 THEN budget ELSE 0)
                            * Calibration!AtLeastOne(Calibration!Count(Calibration!Rows(0)))
  BY DEF GateKeepsBudget, Calibration!GateKeepsBudget, Calibration!Calibrated
<1>1. Len(y) = Len(s) /\ Calibration!Choice(budget, theta) /\ budget \in Int
  BY DEF CalibrationInv, ThetaIsChosen, Calibration!Calibrated, CalibrationTypeOK
<1>2. 0 \in Calibration!Labels
  BY DEF Calibration!Labels
<1> DEFINE blocked == Cardinality(Calibration!Blocked(0))
           at == Cardinality(Calibration!At(0, theta))
           benign == Cardinality(Calibration!Rows(0))
           most == IF budget > 0 THEN budget ELSE 0
<1>3. /\ blocked = IF theta < Calibration!Certain THEN at ELSE 0
      /\ benign = Cardinality(Calibration!Of(0))
      /\ benign \in Nat /\ at \in Nat
  BY <1>1, <1>2, GateOnTheLists
<1>4. /\ Calibration!Count(Calibration!Blocked(0)) = blocked
      /\ Calibration!Count(Calibration!Rows(0)) = benign
      /\ Calibration!Count(Calibration!Of(0)) = benign
      /\ Calibration!Count(Calibration!At(0, theta)) = at
  BY <1>3, CalibrationCounts
<1>5. most \in Nat /\ Parts \in Nat /\ Calibration!AtLeastOne(benign) \in Nat
  BY <1>1, <1>3, CalibrationAssumed DEF Calibration!AtLeastOne
<1>6. Calibration!WithinBudget(theta, budget) =>
          at * Parts <= most * Calibration!AtLeastOne(benign)
  BY <1>4 DEF Calibration!WithinBudget
<1>7. Calibration!WithinBudget(theta, budget) \/ theta = Calibration!Certain
  BY <1>1 DEF Calibration!Choice
<1> HIDE DEF blocked, at, benign, most
<1>8. 0 <= most * Calibration!AtLeastOne(benign)
  BY <1>5
<1>9. theta \in Int /\ Calibration!Certain \in Int
  BY CalibrationAssumed DEF CalibrationInv, CalibrationTypeOK, Calibration!Certain
<1>10. blocked * Parts <= most * Calibration!AtLeastOne(benign)
  <2>1. CASE theta < Calibration!Certain
    BY <1>3, <1>6, <1>7, <1>9, <2>1
  <2>2. CASE ~(theta < Calibration!Certain)
    BY <1>3, <1>5, <1>8, <2>2
  <2> QED
    BY <2>1, <2>2
<1> QED
  BY <1>4, <1>10 DEF most

\* A label in the lists has its score.
LEMMA ScoresAreNumbers ==
  ASSUME CalibrationInv, Len(y) = Len(s)
  PROVE  \A i \in DOMAIN y : s[i] \in Int /\ s[i] >= 0
<1>1. s \in Seq(Calibration!Scores) /\ y \in Seq(Calibration!Labels)
  BY DEF CalibrationInv, CalibrationTypeOK
<1>2. \A i \in DOMAIN y : i \in 1..Len(s)
  BY <1>1, LenProperties
<1>3. \A i \in 1..Len(s) : s[i] \in Calibration!Scores
  BY <1>1, ElementOfSeq
<1>4. \A x \in Calibration!Scores : x \in Int /\ x >= 0
  BY DEF Calibration!Scores
<1> QED
  BY <1>2, <1>3, <1>4

\* A cut within the budget is no lower than the threshold, which so catches as much.
LEMMA RecallIsBought == CalibrationInv => BudgetBuysRecall
<1> SUFFICES ASSUME CalibrationInv, theta \in Calibration!Grid,
                    cut \in Calibration!Grid \ {Calibration!Certain},
                    Calibration!WithinBudget(cut, budget)
             PROVE  Calibration!Count(Calibration!Blocked(1)) * Parts >=
                        recall * Calibration!Count(Calibration!Rows(1))
  BY DEF BudgetBuysRecall, Calibration!BudgetBuysRecall, Calibration!Calibrated
<1>1. /\ theta \in Int /\ cut \in Int /\ recall \in 0..Parts /\ Parts \in Nat
      /\ Calibration!Certain \in Int /\ \A th \in Calibration!Grid : th >= 0
      /\ cut < Calibration!Certain /\ cut # -1
  BY CalibrationAssumed
  DEF CalibrationInv, CalibrationTypeOK, Calibration!Grid, Calibration!Certain
<1>2. Len(y) = Len(s) /\ theta <= cut
  BY DEF CalibrationInv, ThetaIsChosen, Calibration!Choice, Calibration!Calibrated
<1>3. Calibration!Reaches(cut, recall) \/ cut = 0
  BY <1>1 DEF CalibrationInv, CutReaches
<1>4. 1 \in Calibration!Labels /\ theta < Calibration!Certain
  BY <1>1, <1>2 DEF Calibration!Labels
<1> DEFINE blocked == Cardinality(Calibration!Blocked(1))
           at == Cardinality(Calibration!At(1, cut))
           attacks == Cardinality(Calibration!Rows(1))
<1>5. /\ blocked = Cardinality(Calibration!At(1, theta))
      /\ attacks = Cardinality(Calibration!Of(1))
      /\ attacks \in Nat /\ blocked \in Nat
  BY <1>2, <1>4, GateOnTheLists
<1>6. /\ IsFiniteSet(Calibration!At(1, theta)) /\ IsFiniteSet(Calibration!Of(1))
      /\ Calibration!At(1, cut) \subseteq Calibration!At(1, theta)
  <2>1. /\ Calibration!At(1, theta) \subseteq DOMAIN y
        /\ Calibration!Of(1) \subseteq DOMAIN y
    BY DEF Calibration!At, Calibration!Of
  <2>2. \A i \in DOMAIN y : s[i] \in Int
    BY <1>2, ScoresAreNumbers
  <2>3. Calibration!At(1, cut) \subseteq Calibration!At(1, theta)
    BY <1>1, <1>2, <2>2 DEF Calibration!At, Calibration!Of
  <2> QED
    BY <2>1, <2>3, IndicesAreFinite DEF CalibrationInv, CalibrationTypeOK
<1>7. at \in Nat /\ at <= blocked
  BY <1>5, <1>6, FS_Subset, FS_CardinalityType
<1>8. /\ Calibration!Count(Calibration!Blocked(1)) = blocked
      /\ Calibration!Count(Calibration!Rows(1)) = attacks
      /\ Calibration!Count(Calibration!Of(1)) = attacks
      /\ Calibration!Count(Calibration!At(1, cut)) = at
  BY <1>5, CalibrationCounts
<1>9. CASE Calibration!Reaches(cut, recall)
  <2>1. at * Parts >= recall * Calibration!AtLeastOne(attacks)
    BY <1>8, <1>9 DEF Calibration!Reaches
  <2> HIDE DEF at, blocked, attacks
  <2>2. /\ Calibration!AtLeastOne(attacks) \in Nat
        /\ Calibration!AtLeastOne(attacks) >= attacks
    BY <1>5 DEF Calibration!AtLeastOne
  <2>3. recall * Calibration!AtLeastOne(attacks) >= recall * attacks
    BY <1>1, <1>5, <2>2
  <2>4. blocked * Parts >= at * Parts
    BY <1>1, <1>5, <1>7
  <2> QED
    BY <1>1, <1>5, <1>7, <1>8, <2>1, <2>2, <2>3, <2>4
<1>10. CASE cut = 0
  <2>1. Calibration!At(1, theta) = Calibration!Of(1)
    <3>1. \A i \in DOMAIN y : s[i] \in Int /\ s[i] >= 0
      BY <1>2, ScoresAreNumbers
    <3> QED
      BY <1>1, <1>2, <1>10, <3>1 DEF Calibration!At, Calibration!Of
  <2>2. blocked = attacks
    BY <1>5, <2>1
  <2> HIDE DEF blocked, attacks
  <2>3. attacks * Parts >= recall * attacks
    BY <1>1, <1>5
  <2> QED
    BY <1>8, <2>2, <2>3
<1> QED
  BY <1>3, <1>9, <1>10

\* The two invariants of the calibration, of any file, grid, budget and recall.
LEMMA CalibrationInvariance == Calibration!Spec => []CalibrationInv
<1>1. [Calibration!Next]_(Calibration!cvars) => [Calibration!Next]_calibrationVars
  BY DEF Calibration!cvars, calibrationVars
<1> QED
  BY CalibrationInit, CalibrationStep, <1>1, PTL DEF Calibration!Spec

\* A calibration that answers (waf_ml/threshold.py) gives the proxy a threshold that
\* blocks no more benign rows of the file than the budget allows.
THEOREM GateIsWithinBudget == Calibration!Spec => []GateKeepsBudget
  BY CalibrationInvariance, BudgetIsKept, PTL

\* Where the cut of the evaluation (waf_ml/eval.py) is within the budget, the proxy
\* catches at least the recall it was made for.
THEOREM RecallWithinBudget == Calibration!Spec => []BudgetBuysRecall
  BY CalibrationInvariance, RecallIsBought, PTL

-----------------------------------------------------------------------------
(* Notifier *)

Messages == [call : Calls, at : Nat]

NotifyTypeOK ==
    /\ uptime \in Nat /\ last \in Nat
    /\ posting \subseteq Calls
    /\ sent \subseteq Messages
    /\ silenced \in Int

\* The stamp is that of the latest message of this process, 0 before the first.
StampIsLatest ==
    /\ last <= uptime
    /\ \A m \in sent : m.at <= last
    /\ last = 0 \/ \E m \in sent : m.at = last

\* The messages of one call keep the cooldown between them, ...
CallKeepsCooldown ==
    \A m, n \in sent : m.call = n.call /\ m.at < n.at => n.at - m.at >= Cooldown

\* ... because one that awaits its POST looked at the stamp after its last message.
PosterHasWaited ==
    \A m \in sent : m.call \in posting => uptime - m.at >= Cooldown

\* The last call that was skipped had a message in the cooldown before it.
SilenceHasCause ==
    silenced <= uptime /\ (silenced >= Cooldown => Notify!Recent(silenced) # {})

NotifyInv ==
    /\ NotifyTypeOK /\ StampIsLatest /\ CallKeepsCooldown /\ PosterHasWaited
    /\ SilenceHasCause

\* The instance counts as its module does.
LEMMA NotifyCounts ==
  ASSUME NEW S
  PROVE  /\ Notify!Cardinality(S) = Cardinality(S)
         /\ Notify!IsFiniteSet(S) <=> IsFiniteSet(S)
  BY DEF Notify!Cardinality, Cardinality, Notify!IsFiniteSet, IsFiniteSet

\* What the instance assumes of its constants.
LEMMA CooldownIsPositive == Cooldown \in Nat \ {0} /\ IsFiniteSet(Calls) /\ MaxUptime \in Nat
  BY InstanceAssumption, NotifyCounts DEF Notify!ConstantsAssumption

\* A process that has just started has sent and skipped nothing.
LEMMA NotifyInit == Notify!Init => NotifyInv
  BY CooldownIsPositive
  DEF Notify!Init, NotifyInv, NotifyTypeOK, StampIsLatest, CallKeepsCooldown,
      PosterHasWaited, SilenceHasCause

\* What is recent stays recent when another message goes out.
LEMMA RecentGrows ==
  ASSUME NEW t, sent \subseteq sent'
  PROVE  Notify!Recent(t) \subseteq {m \in sent' : m.at <= t /\ t - m.at < Cooldown}
  BY DEF Notify!Recent

\* A call that starts, is skipped or fails.
LEMMA NotifyUnsent ==
  ASSUME NotifyInv, NEW c \in Calls,
         Notify!Start(c) \/ Notify!Skip(c) \/ Notify!Fail(c)
  PROVE  NotifyInv'
<1> USE CooldownIsPositive
    DEF NotifyInv, NotifyTypeOK, StampIsLatest, CallKeepsCooldown, PosterHasWaited,
        Messages
<1>1. CASE Notify!Start(c)
  BY <1>1 DEF Notify!Start, SilenceHasCause, Notify!Recent
<1>2. CASE Notify!Skip(c)
  <2>1. NotifyTypeOK' /\ StampIsLatest' /\ CallKeepsCooldown' /\ PosterHasWaited'
    BY <1>2 DEF Notify!Skip
  <2>2. uptime >= Cooldown => \E m \in sent : m.at <= uptime /\ uptime - m.at < Cooldown
    BY <1>2 DEF Notify!Skip
  <2>3. SilenceHasCause'
    BY <1>2, <2>2 DEF Notify!Skip, SilenceHasCause, Notify!Recent
  <2> QED
    BY <2>1, <2>3
<1>3. CASE Notify!Fail(c)
  BY <1>3 DEF Notify!Fail, SilenceHasCause, Notify!Recent
<1> QED
  BY <1>1, <1>2, <1>3

\* A message that goes out is a cooldown away from those of its call.
LEMMA NotifySent ==
  ASSUME NotifyInv, NEW c \in Calls, Notify!Succeed(c)
  PROVE  NotifyInv'
<1>1. /\ uptime' = uptime /\ last' = uptime /\ silenced' = silenced
      /\ c \in posting /\ posting' = posting \ {c}
      /\ sent' = sent \cup {[call |-> c, at |-> uptime]}
  BY DEF Notify!Succeed
<1> USE CooldownIsPositive
    DEF NotifyInv, NotifyTypeOK, StampIsLatest, CallKeepsCooldown, PosterHasWaited,
        Messages
<1>2. NotifyTypeOK'
  BY <1>1
<1>3. StampIsLatest'
  <2>1. [call |-> c, at |-> uptime] \in sent' /\ [call |-> c, at |-> uptime].at = last'
    BY <1>1
  <2>2. \A m \in sent' : m.at <= last'
    BY <1>1
  <2> QED
    BY <1>1, <2>1, <2>2
<1>4. CallKeepsCooldown'
  BY <1>1
<1>5. PosterHasWaited'
  BY <1>1
<1>6. SilenceHasCause'
  BY <1>1 DEF SilenceHasCause, Notify!Recent
<1> QED
  BY <1>2, <1>3, <1>4, <1>5, <1>6

\* Time only adds to what has been waited; a restart forgets everything.
LEMMA NotifyStep == NotifyInv /\ [Notify!Next]_notifierVars => NotifyInv'
<1> SUFFICES ASSUME NotifyInv, [Notify!Next]_notifierVars
             PROVE  NotifyInv'
  OBVIOUS
<1> USE CooldownIsPositive
    DEF NotifyInv, NotifyTypeOK, StampIsLatest, CallKeepsCooldown, PosterHasWaited,
        Messages, SilenceHasCause, Notify!Recent
<1>1. ASSUME NEW c \in Calls,
             Notify!Start(c) \/ Notify!Skip(c) \/ Notify!Succeed(c) \/ Notify!Fail(c)
      PROVE  NotifyInv'
  BY <1>1, NotifyUnsent, NotifySent
<1>2. CASE Notify!Pass
  BY <1>2 DEF Notify!Pass
<1>3. CASE Notify!Forget
  BY <1>3 DEF Notify!Forget
<1>4. CASE UNCHANGED notifierVars
  BY <1>4 DEF notifierVars
<1> QED
  BY <1>1, <1>2, <1>3, <1>4 DEF Notify!Next

\* A window of a cooldown holds at most one message of each call.
LEMMA OneMessagePerCall ==
  ASSUME NotifyInv, NEW t \in Int
  PROVE  Cardinality(Notify!Recent(t)) <= Cardinality(Calls)
<1> DEFINE caller == [m \in Notify!Recent(t) |-> m.call]
<1>1. \A m \in Notify!Recent(t) : m \in Messages /\ m \in sent
  BY DEF Notify!Recent, NotifyInv, NotifyTypeOK
<1>2. caller \in [Notify!Recent(t) -> Calls]
  BY <1>1 DEF Messages
<1>3. ASSUME NEW m \in Notify!Recent(t), NEW n \in Notify!Recent(t), m.call = n.call
      PROVE  m = n
  <2>1. ~(m.at < n.at) /\ ~(n.at < m.at)
    BY <1>1, <1>3, CooldownIsPositive
    DEF NotifyInv, CallKeepsCooldown, Notify!Recent, Messages
  <2>2. m.at = n.at
    BY <1>1, <2>1 DEF Messages
  <2> QED
    BY <1>1, <1>3, <2>2 DEF Messages
<1>4. caller \in Injection(Notify!Recent(t), Calls)
  BY <1>2, <1>3 DEF Injection, IsInjective
<1> QED
  BY <1>4, CooldownIsPositive, FS_Injection

\* The cooldown of a channel (integrations/notifier.py) is looked at before an await
\* and set after it: no window of a cooldown holds more messages than calls can be in
\* flight, and a call is skipped only after a message, whatever the cooldown.
THEOREM CooldownIsKept == Notify!Spec => []CooldownHolds
<1>1. [Notify!Next]_(Notify!nvars) => [Notify!Next]_notifierVars
  BY DEF Notify!nvars, notifierVars
<1>2. NotifyInv => CooldownHolds
  BY OneMessagePerCall, NotifyCounts
  DEF CooldownHolds, Notify!CooldownHolds, NotifyInv, NotifyTypeOK, SilenceHasCause, Messages
<1> QED
  BY NotifyInit, NotifyStep, <1>1, <1>2, PTL DEF Notify!Spec

-----------------------------------------------------------------------------
(* GateBenchmark *)

Outcome == [label : {Bench!Benign, Bench!Malicious}, blocked : BOOLEAN]

BenchTypeOK ==
    /\ probes \in Seq({Bench!Benign, Bench!Malicious})
    /\ results \in Seq(Outcome)
    /\ denied \in Nat

\* The only results that count as blocked attacks are answers of 403 to attacks.
DeniedAreMeasured == denied = Bench!Amount(Bench!Malicious, TRUE)

\* A verdict is passed on all the results there will be.
VerdictIsLast == verdict # "none" => probes = <<>>
OkMeansNoBreach == verdict = "ok" => ~Bench!Breach

BenchInv == BenchTypeOK /\ DeniedAreMeasured /\ VerdictIsLast /\ OkMeansNoBreach

\* The instance counts as its module does.
LEMMA BenchCounts ==
  ASSUME NEW S
  PROVE  Bench!Cardinality(S) = Cardinality(S)
  BY DEF Bench!Cardinality, Cardinality, Bench!IsFiniteSet, IsFiniteSet

\* Amounts are numbers.
LEMMA AmountIsNat ==
  ASSUME results \in Seq(Outcome), NEW label, NEW blocked
  PROVE  /\ IsFiniteSet(Bench!Picked(label, blocked))
         /\ Bench!Amount(label, blocked) \in Nat
<1>1. Bench!Picked(label, blocked) \subseteq 1..Len(results)
  BY DEF Bench!Picked
<1>2. IsFiniteSet(1..Len(results))
  BY FS_Interval, LenProperties
<1> QED
  BY <1>1, <1>2, FS_Subset, FS_CardinalityType, BenchCounts DEF Bench!Amount

\* A result adds one to the amount of its kind and nothing to the others.
LEMMA AmountGrows ==
  ASSUME results \in Seq(Outcome), NEW r \in Outcome, results' = Append(results, r),
         NEW label, NEW blocked
  PROVE  Bench!Amount(label, blocked)' =
            Bench!Amount(label, blocked) +
                (IF r = [label |-> label, blocked |-> blocked] THEN 1 ELSE 0)
<1> DEFINE n == Len(results) + 1
<1>1. /\ DOMAIN results = 1..Len(results) /\ Len(results) \in Nat
      /\ DOMAIN results' = 1..n
      /\ \A i \in 1..Len(results) : results'[i] = results[i]
      /\ results'[n] = r
  BY AppendProperties, LenProperties
<1>2. n \notin Bench!Picked(label, blocked)
  BY <1>1 DEF Bench!Picked
<1>3. CASE r = [label |-> label, blocked |-> blocked]
  <2>1. Bench!Picked(label, blocked)' = Bench!Picked(label, blocked) \cup {n}
    BY <1>1, <1>3 DEF Bench!Picked
  <2> QED
    BY <1>2, <1>3, <2>1, AmountIsNat, FS_AddElement, BenchCounts DEF Bench!Amount
<1>4. CASE r # [label |-> label, blocked |-> blocked]
  <2>1. Bench!Picked(label, blocked)' = Bench!Picked(label, blocked)
    BY <1>1, <1>4 DEF Bench!Picked
  <2> QED
    BY <1>4, <2>1, AmountIsNat DEF Bench!Amount
<1> QED
  BY <1>3, <1>4

\* A benchmark that has not begun has measured nothing.
LEMMA BenchInit == Bench!Init => BenchInv
<1> SUFFICES ASSUME Bench!Init
             PROVE  BenchInv
  OBVIOUS
<1>1. PICK benign, malicious \in 0..MaxProbes :
          probes = SubSeq(Bench!Corpus(benign, malicious), Warmup + 1, benign + malicious)
  BY DEF Bench!Init
<1>2. /\ MaxProbes \in Nat /\ Warmup \in Nat
  BY InstanceAssumption DEF Bench!ConstantsAssumption
<1>3. Bench!Corpus(benign, malicious) \in Seq({Bench!Benign, Bench!Malicious})
  BY <1>2, IsASeq DEF Bench!Corpus
<1>4. Len(Bench!Corpus(benign, malicious)) = benign + malicious
  BY <1>2, <1>3, LenProperties DEF Bench!Corpus
<1>5. probes \in Seq({Bench!Benign, Bench!Malicious})
  BY <1>1, <1>2, <1>3, <1>4, SubSeqProperties
<1>6. results = <<>> /\ results \in Seq(Outcome)
  BY EmptySeq DEF Bench!Init
<1>7. Bench!Picked(Bench!Malicious, TRUE) = {}
  BY <1>6 DEF Bench!Picked
<1>8. Bench!Amount(Bench!Malicious, TRUE) = 0
  BY <1>7, FS_EmptySet, BenchCounts DEF Bench!Amount
<1> QED
  BY <1>5, <1>6, <1>8
  DEF Bench!Init, BenchInv, BenchTypeOK, DeniedAreMeasured, VerdictIsLast, OkMeansNoBreach

\* A probe is measured as what it was answered.
LEMMA BenchFire ==
  ASSUME BenchInv, NEW outcome \in Bench!Outcomes, Bench!Fire(outcome)
  PROVE  BenchInv'
<1>1. /\ probes # <<>> /\ probes' = Tail(probes)
      /\ verdict' = verdict
      /\ denied' = denied + (IF Head(probes) = Bench!Malicious /\ outcome = "403"
                             THEN 1 ELSE 0)
  BY DEF Bench!Fire
<1>2. /\ Head(probes) \in {Bench!Benign, Bench!Malicious}
      /\ Tail(probes) \in Seq({Bench!Benign, Bench!Malicious})
  BY <1>1, HeadTailProperties DEF BenchInv, BenchTypeOK
<1>3. PICK r \in Outcome :
          /\ results' = Append(results, r)
          /\ r = [label |-> Bench!Malicious, blocked |-> TRUE] <=>
                Head(probes) = Bench!Malicious /\ outcome = "403"
  <2>1. PICK l \in {Bench!Benign, Bench!Malicious}, b \in BOOLEAN :
            /\ l = Head(probes)
            /\ b <=> outcome = "403"
            /\ results' = Append(results, [label |-> l, blocked |-> b])
    BY <1>2 DEF Bench!Fire, Bench!Blocked403
  <2>2. [label |-> l, blocked |-> b] \in Outcome
    BY DEF Outcome
  <2>3. [label |-> l, blocked |-> b] = [label |-> Bench!Malicious, blocked |-> TRUE] <=>
            l = Bench!Malicious /\ b
    OBVIOUS
  <2> QED
    BY <2>1, <2>2, <2>3
<1>4. BenchTypeOK'
  BY <1>1, <1>2, <1>3, AppendProperties DEF BenchInv, BenchTypeOK
<1>5. DeniedAreMeasured'
  <2>1. Bench!Amount(Bench!Malicious, TRUE)' =
            Bench!Amount(Bench!Malicious, TRUE) +
                (IF r = [label |-> Bench!Malicious, blocked |-> TRUE] THEN 1 ELSE 0)
    <3>1. ASSUME NEW label
          PROVE  Bench!Amount(label, TRUE)' =
                    Bench!Amount(label, TRUE) +
                        (IF r = [label |-> label, blocked |-> TRUE] THEN 1 ELSE 0)
      BY <1>3, AmountGrows DEF BenchInv, BenchTypeOK
    <3> QED
      BY <3>1 DEF Bench!Malicious
  <2> QED
    BY <1>1, <1>3, <2>1 DEF BenchInv, DeniedAreMeasured
<1>6. VerdictIsLast' /\ OkMeansNoBreach'
  BY <1>1 DEF BenchInv, VerdictIsLast, OkMeansNoBreach
<1> QED
  BY <1>4, <1>5, <1>6 DEF BenchInv

\* Neither an outage nor the summary changes what was measured.
LEMMA BenchStep == BenchInv /\ [Bench!Next]_benchVars => BenchInv'
<1> SUFFICES ASSUME BenchInv, [Bench!Next]_benchVars
             PROVE  BenchInv'
  OBVIOUS
<1> USE DEF BenchInv, BenchTypeOK, DeniedAreMeasured, VerdictIsLast, OkMeansNoBreach,
            Bench!Breach, Bench!Measured, Bench!Amount, Bench!Picked
<1>1. ASSUME NEW outcome \in Bench!Outcomes, Bench!Fire(outcome)
      PROVE  BenchInv'
  BY <1>1, BenchFire
<1>2. CASE Bench!Outage
  BY <1>2 DEF Bench!Outage
<1>3. CASE Bench!Summarise
  BY <1>3 DEF Bench!Summarise
<1>4. CASE UNCHANGED benchVars
  BY <1>4 DEF benchVars
<1> QED
  BY <1>1, <1>2, <1>3, <1>4 DEF Bench!Next

\* What is left of a rate when what missed it is within the budget.
LEMMA RestOfTheRate ==
  ASSUME NEW hit \in Nat, NEW missed \in Nat, NEW parts \in Nat, NEW most \in 0..parts,
         missed * parts <= most * Bench!Floored(hit + missed)
  PROVE  hit * parts >= (parts - most) * (hit + missed)
<1>1. CASE hit + missed = 0
  BY <1>1
<1>2. CASE hit + missed # 0
  <2>1. missed * parts <= most * (hit + missed)
    BY <1>2 DEF Bench!Floored
  <2>2. (parts - most) * (hit + missed) = parts * (hit + missed) - most * (hit + missed)
    OBVIOUS
  <2>3. parts * (hit + missed) = hit * parts + missed * parts
    OBVIOUS
  <2> QED
    BY <2>1, <2>2, <2>3
<1> QED
  BY <1>1, <1>2

\* A benchmark that passes (bench/run.py) has had 403 from as many of the attacks it
\* measured as the budget asks, whenever the gateway went down on the way.
THEOREM PassIsEarned == Bench!Spec => []PassIsProtection
<1>1. [Bench!Next]_(Bench!bvars) => [Bench!Next]_benchVars
  BY DEF Bench!bvars, benchVars
<1>2. BenchInv => PassIsProtection
  <2> SUFFICES ASSUME BenchInv, verdict = "ok"
               PROVE  denied * BenchParts >=
                        (BenchParts - FnrBudget) * Bench!Measured(Bench!Malicious)
    BY DEF PassIsProtection, Bench!PassIsProtection
  <2> DEFINE hit == Bench!Amount(Bench!Malicious, TRUE)
             missed == Bench!Amount(Bench!Malicious, FALSE)
  <2>1. hit \in Nat /\ missed \in Nat
    BY AmountIsNat DEF BenchInv, BenchTypeOK
  <2>2. BenchParts \in Nat /\ FnrBudget \in 0..BenchParts
    BY InstanceAssumption DEF Bench!ConstantsAssumption
  <2>3. Bench!Measured(Bench!Malicious) = hit + missed /\ denied = hit
    BY DEF Bench!Measured, BenchInv, DeniedAreMeasured
  <2>4. ~(missed * BenchParts > FnrBudget * Bench!Floored(hit + missed))
    BY <2>3 DEF BenchInv, OkMeansNoBreach, Bench!Breach
  <2> HIDE DEF hit, missed
  <2>5. Bench!Floored(hit + missed) \in Nat
    BY <2>1 DEF Bench!Floored
  <2>6. missed * BenchParts <= FnrBudget * Bench!Floored(hit + missed)
    BY <2>1, <2>2, <2>4, <2>5
  <2> QED
    BY <2>1, <2>2, <2>3, <2>6, RestOfTheRate
<1> QED
  BY BenchInit, BenchStep, <1>1, <1>2, PTL DEF Bench!Spec

-----------------------------------------------------------------------------
(* MemoryRepositories *)

RuleRows == [key : RuleKeys, action : Memory!Actions, enabled : BOOLEAN]
RuleItem == [id : Ids, row : RuleRows]

\* Ids and keys of a list of rules are unique.
Unique(list) ==
    \A i, j \in DOMAIN list :
        list[i].id = list[j].id \/ list[i].row.key = list[j].row.key => i = j

MemoryTypeOK ==
    /\ byId \in [DOMAIN byId -> Memory!UserRows] /\ DOMAIN byId \subseteq Ids
    /\ rows \in Seq(RuleItem)
    /\ trail \in Seq(Memory!Actions)
    /\ joined \in Seq(Ids)

\* The index by address has each row under its address in lower case, and no more.
IndexIsOfUsers ==
    /\ DOMAIN byEmail = {Memory!Lower(byId[id].email) : id \in DOMAIN byId}
    /\ \A e \in DOMAIN byEmail :
          byEmail[e] \in DOMAIN byId /\ Memory!Lower(byId[byEmail[e]].email) = e

MemoryInv == MemoryTypeOK /\ IndexIsOfUsers /\ Unique(rows)

\* What the doubles may do.
Conforms == Memory!Contract!Next \/ Memory!OldestFirst \/ Memory!OtherSpelling

\* The rules as the contract sees them.
RuleTable == [id \in {rows[i].id : i \in DOMAIN rows} |-> rows[Memory!IndexOf(id)].row]

\* What the instance assumes of its constants.
LEMMA MemoryAssumed ==
  /\ None \notin Ids \X Memory!UserRows
  /\ MaxAudit \in Nat /\ MaxGeneration \in Nat
  BY InstanceAssumption DEF Memory!ConstantsAssumption

\* The contract counts as the library does.
LEMMA MemoryCounts ==
  ASSUME NEW S
  PROVE  Memory!Contract!Cardinality(S) = Cardinality(S)
  BY DEF Memory!Contract!Cardinality, Cardinality, Memory!Contract!IsFiniteSet, IsFiniteSet

\* The empty repositories are empty tables.
LEMMA MemoryInit == Memory!Init => MemoryInv /\ Memory!Contract!Init
<1> SUFFICES ASSUME Memory!Init
             PROVE  MemoryInv /\ Memory!Contract!Init
  OBVIOUS
<1>1. byId = <<>> /\ joined = <<>> /\ byEmail = <<>> /\ rows = <<>> /\ trail = <<>>
  BY DEF Memory!Init
<1>2. MemoryInv
  BY <1>1, EmptySeq DEF MemoryInv, MemoryTypeOK, IndexIsOfUsers, Unique
<1>3. [id \in {rows[i].id : i \in DOMAIN rows} |-> rows[Memory!IndexOf(id)].row] = <<>>
  BY <1>1
<1>4. Memory!Contract!Init
  BY <1>1, <1>3 DEF Memory!Init, Memory!Contract!Init
<1> QED
  BY <1>2, <1>4

-----------------------------------------------------------------------------
(* Users *)

\* A dictionary answers what a table does.
LEMMA GetIsRow ==
  ASSUME NEW dict, NEW id
  PROVE  Memory!Get(dict, id) = Memory!Contract!Row(dict, id)
  BY DEF Memory!Get, Memory!Contract!Row

\* The ids in the order of insertion are those in the order of creation.
LEMMA JoinedIsBorn ==
  ASSUME MemoryInv
  PROVE  /\ DOMAIN joined = 1..Len(joined) /\ Len(joined) \in Nat
         /\ Memory!Contract!Cardinality(DOMAIN joined) = Len(joined)
<1>1. DOMAIN joined = 1..Len(joined) /\ Len(joined) \in Nat
  BY LenProperties DEF MemoryInv, MemoryTypeOK
<1>2. Cardinality(1..Len(joined)) = Len(joined)
  <2> SUFFICES ASSUME NEW n \in Nat
               PROVE  Cardinality(1..n) = n
    BY <1>1
  <2> QED
    BY FS_Interval
<1> QED
  BY <1>1, <1>2, MemoryCounts

\* An address finds the only row with it, whatever its case.
LEMMA FindIsUnique ==
  ASSUME MemoryInv, NEW e \in Memory!Emails
  PROVE  /\ Memory!Lower(e) \notin DOMAIN byEmail =>
                \A id \in DOMAIN byId : Memory!Lower(byId[id].email) # Memory!Lower(e)
         /\ Memory!Lower(e) \in DOMAIN byEmail =>
                \E id \in DOMAIN byId :
                    /\ Memory!Lower(byId[id].email) = Memory!Lower(e)
                    /\ Memory!Find(e) = Memory!Get(byId, id)
         /\ Memory!Find(e) = None <=> Memory!Lower(e) \notin DOMAIN byEmail
<1>1. \A id \in DOMAIN byId : byId[id] \in Memory!UserRows /\ byId[id].email \in Memory!Emails
  BY DEF MemoryInv, MemoryTypeOK, Memory!UserRows
<1>2. \A id \in DOMAIN byId : <<id, byId[id]>> # None
  BY <1>1, MemoryAssumed DEF MemoryInv, MemoryTypeOK
<1>3. CASE Memory!Lower(e) \in DOMAIN byEmail
  <2>1. PICK id \in DOMAIN byId :
            id = byEmail[Memory!Lower(e)] /\ Memory!Lower(byId[id].email) = Memory!Lower(e)
    BY <1>3 DEF MemoryInv, IndexIsOfUsers
  <2>2. Memory!Find(e) = <<id, byId[id]>>
    BY <1>3, <2>1 DEF Memory!Find, Memory!Get
  <2> QED
    BY <1>2, <1>3, <2>1, <2>2 DEF Memory!Get
<1>4. CASE Memory!Lower(e) \notin DOMAIN byEmail
  <2>1. Memory!Find(e) = None
    BY <1>4 DEF Memory!Find
  <2>2. \A id \in DOMAIN byId : Memory!Lower(byId[id].email) # Memory!Lower(e)
    BY <1>4 DEF MemoryInv, IndexIsOfUsers
  <2> QED
    BY <1>4, <2>1, <2>2
<1> QED
  BY <1>3, <1>4

\* The table of rules stays with the list.
LEMMA RulesStay ==
  ASSUME rows' = rows
  PROVE  RuleTable' = RuleTable
  BY DEF RuleTable, Memory!IndexOf, Memory!First, Memory!Hits

\* Backwards twice is forwards.
LEMMA InsertionIsBackwards ==
  ASSUME MemoryInv
  PROVE  [i \in DOMAIN joined |-> Memory!Get(byId, joined[i])]
             = Memory!Reverse(Memory!Contract!NewestFirst)
<1> DEFINE n == Len(joined)
           newest == [i \in 1..n |-> Memory!Get(byId, joined[n + 1 - i])]
<1>1. DOMAIN joined = 1..n /\ n \in Nat
  BY JoinedIsBorn
<1>2. Memory!Contract!NewestFirst = newest
  BY JoinedIsBorn, GetIsRow DEF Memory!Contract!NewestFirst
<1>3. Memory!Reverse(newest) = [i \in 1..n |-> newest[n - i + 1]]
  <2>1. Len(newest) = n
    BY <1>1
  <2> HIDE DEF newest, n
  <2> QED
    BY <2>1 DEF Memory!Reverse
<1>4. ASSUME NEW i \in 1..n
      PROVE  newest[n - i + 1] = Memory!Get(byId, joined[i])
  <2>1. n - i + 1 \in 1..n /\ n + 1 - (n - i + 1) = i
    BY <1>1
  <2> HIDE DEF n
  <2> QED
    BY <2>1
<1> HIDE DEF newest, n
<1> QED
  BY <1>1, <1>2, <1>3, <1>4

\* Reading a user answers as the table does, or in one of the two other ways.
LEMMA ReadUserImplements ==
  ASSUME MemoryInv, Memory!ReadUser, UNCHANGED <<rows, trail, kv, families>>
  PROVE  Conforms
<1> USE RulesStay DEF RuleTable, Memory!Returns, Memory!Contract!Says
<1>1. byId' = byId /\ joined' = joined /\ byEmail' = byEmail
  BY DEF Memory!ReadUser
<1>2. ASSUME NEW e \in Memory!Emails, Memory!Returns("by_email", e, Memory!Find(e))
      PROVE  Conforms
  <2>1. e \in Memory!Contract!Emails
    BY DEF Memory!Emails, Memory!Contract!Emails
  <2>2. CASE Memory!Lower(e) \in DOMAIN byEmail
    <3>1. PICK id \in DOMAIN byId :
              /\ Memory!Lower(byId[id].email) = Memory!Lower(e)
              /\ Memory!Find(e) = Memory!Get(byId, id)
      BY <2>2, FindIsUnique
    <3>2. CASE byId[id].email = e
      <4>1. Memory!Contract!UserByEmail(e)
        BY <1>1, <1>2, <3>1, <3>2, GetIsRow DEF Memory!Contract!UserByEmail
      <4> QED
        BY <2>1, <4>1 DEF Conforms, Memory!Contract!Next
    <3>3. CASE byId[id].email # e
      BY <1>1, <1>2, <3>1, <3>3 DEF Conforms, Memory!OtherSpelling
    <3> QED
      BY <3>2, <3>3
  <2>3. CASE Memory!Lower(e) \notin DOMAIN byEmail
    <3>1. /\ Memory!Find(e) = None
          /\ \A id \in DOMAIN byId : byId[id].email # e
      BY <2>3, FindIsUnique
    <3>2. Memory!Contract!UserByEmail(e)
      BY <1>1, <1>2, <3>1 DEF Memory!Contract!UserByEmail
    <3> QED
      BY <2>1, <3>2 DEF Conforms, Memory!Contract!Next
  <2> QED
    BY <2>2, <2>3
<1>3. ASSUME NEW id \in Ids, Memory!Returns("by_id", id, Memory!Get(byId, id))
      PROVE  Conforms
  <2>1. Memory!Contract!UserById(id)
    BY <1>1, <1>3, GetIsRow DEF Memory!Contract!UserById
  <2> QED
    BY <2>1 DEF Conforms, Memory!Contract!Next
<1>4. CASE Memory!Returns("list_all", None,
                           [i \in DOMAIN joined |-> Memory!Get(byId, joined[i])])
  BY <1>1, <1>4, InsertionIsBackwards DEF Conforms, Memory!OldestFirst
<1> QED
  BY <1>2, <1>3, <1>4 DEF Memory!ReadUser

\* A user is created under an address that no other has.
LEMMA CreateUserImplements ==
  ASSUME MemoryInv, Memory!CreateUser, UNCHANGED <<rows, trail, kv, families>>
  PROVE  MemoryInv' /\ Memory!Contract!Next
<1> USE DEF Memory!Returns, Memory!Contract!Says
<1>1. PICK e \in Memory!Emails, role \in Memory!Roles, id \in Ids \ DOMAIN byId :
          /\ Memory!Find(e) = None
          /\ byId' = Memory!Put(byId, id, [email |-> e, role |-> role, active |-> TRUE])
          /\ joined' = Append(joined, id)
          /\ byEmail' = Memory!Put(byEmail, Memory!Lower(e), id)
          /\ Memory!Returns("create", <<e, role>>,
                             <<id, [email |-> e, role |-> role, active |-> TRUE]>>)
  BY DEF Memory!CreateUser
<1>2. /\ Memory!Lower(e) \notin DOMAIN byEmail
      /\ \A i \in DOMAIN byId : byId[i].email # e
  BY <1>1, FindIsUnique
<1>3. MemoryInv'
  <2> DEFINE user == [email |-> e, role |-> role, active |-> TRUE]
  <2>1. user \in Memory!UserRows /\ user.email = e
    BY DEF Memory!UserRows
  <2>2. /\ DOMAIN byId' = DOMAIN byId \cup {id}
        /\ \A i \in DOMAIN byId : byId'[i] = byId[i]
        /\ byId'[id] = user
        /\ byId' = [i \in DOMAIN byId' |-> byId'[i]]
    BY <1>1 DEF Memory!Put
  <2>3. /\ DOMAIN byEmail' = DOMAIN byEmail \cup {Memory!Lower(e)}
        /\ \A f \in DOMAIN byEmail : byEmail'[f] = byEmail[f]
        /\ byEmail'[Memory!Lower(e)] = id
    BY <1>1, <1>2 DEF Memory!Put
  <2> HIDE DEF user
  <2>4. MemoryTypeOK'
    <3>1. joined' \in Seq(Ids)
      BY <1>1, AppendProperties DEF MemoryInv, MemoryTypeOK
    <3> QED
      BY <2>1, <2>2, <3>1 DEF MemoryInv, MemoryTypeOK
  <2>5. DOMAIN byEmail' = {Memory!Lower(byId'[i].email) : i \in DOMAIN byId'}
    BY <2>1, <2>2, <2>3 DEF MemoryInv, IndexIsOfUsers
  <2>6. \A f \in DOMAIN byEmail' :
            byEmail'[f] \in DOMAIN byId' /\ Memory!Lower(byId'[byEmail'[f]].email) = f
    BY <2>1, <2>2, <2>3 DEF MemoryInv, IndexIsOfUsers
  <2> QED
    BY <2>4, <2>5, <2>6 DEF MemoryInv, IndexIsOfUsers, Unique
<1>4. Memory!Contract!UserCreate(e, role)
  <2>1. joined' = Memory!Contract!With(joined, Len(joined) + 1, id)
    <3>1. /\ joined' \in Seq(Ids) /\ Len(joined') = Len(joined) + 1
          /\ \A i \in 1..Len(joined) : joined'[i] = joined[i]
          /\ joined'[Len(joined) + 1] = id
      BY <1>1, AppendProperties DEF MemoryInv, MemoryTypeOK
    <3>2. joined' = [i \in 1..Len(joined) + 1 |-> joined'[i]]
      BY <3>1, LenProperties
    <3>3. DOMAIN joined = 1..Len(joined) /\ Len(joined) \in Nat
      BY JoinedIsBorn
    <3> QED
      BY <3>1, <3>2, <3>3 DEF Memory!Contract!With
  <2>2. joined' = Memory!Contract!With(joined,
                      Memory!Contract!Cardinality(DOMAIN joined) + 1, id)
    BY <2>1, JoinedIsBorn
  <2> QED
    BY <1>1, <1>2, <2>2, RulesStay
    DEF Memory!Contract!UserCreate, Memory!Put, Memory!Contract!With, RuleTable
<1>5. e \in Memory!Contract!Emails /\ role \in Memory!Contract!Roles
  BY DEF Memory!Emails, Memory!Contract!Emails, Memory!Roles, Memory!Contract!Roles
<1> QED
  BY <1>3, <1>4, <1>5 DEF Memory!Contract!Next

\* A patch that leaves the addresses alone leaves the index right.
LEMMA PatchKeepsIndex ==
  ASSUME MemoryInv, UNCHANGED <<joined, byEmail, rows, trail>>,
         byId' \in [DOMAIN byId -> Memory!UserRows],
         \A id \in DOMAIN byId : byId'[id].email = byId[id].email
  PROVE  MemoryInv'
<1>1. DOMAIN byId' = DOMAIN byId
  OBVIOUS
<1>2. MemoryTypeOK' /\ Unique(rows)'
  BY <1>1 DEF MemoryInv, MemoryTypeOK, Unique
<1>3. IndexIsOfUsers'
  BY <1>1 DEF MemoryInv, IndexIsOfUsers
<1> QED
  BY <1>2, <1>3 DEF MemoryInv

\* A patch of one user that leaves its address alone changes no other.
LEMMA PatchOfOne ==
  ASSUME MemoryInv, UNCHANGED <<joined, byEmail, rows, trail>>,
         NEW id \in DOMAIN byId, NEW user \in Memory!UserRows,
         user.email = byId[id].email, byId' = [byId EXCEPT ![id] = user]
  PROVE  MemoryInv'
<1>1. byId \in [DOMAIN byId -> Memory!UserRows]
  BY DEF MemoryInv, MemoryTypeOK
<1> QED
  BY <1>1, PatchKeepsIndex

\* A user is patched as the table is.
LEMMA UpdatePartialImplements ==
  ASSUME MemoryInv, Memory!UpdatePartial, UNCHANGED <<rows, trail, kv, families>>
  PROVE  MemoryInv' /\ Memory!Contract!Next
<1> USE DEF Memory!Returns, Memory!Contract!Says
<1>1. PICK id \in Ids, role \in Memory!Change(Memory!Roles),
           active \in Memory!Change(BOOLEAN) :
          /\ byId' = IF id \notin DOMAIN byId THEN byId
                     ELSE [byId EXCEPT ![id].role = Memory!Patch(role, @),
                                       ![id].active = Memory!Patch(active, @)]
          /\ Memory!Returns("update_partial", <<id, role, active>>, Memory!Get(byId', id))
          /\ UNCHANGED <<joined, byEmail>>
  BY DEF Memory!UpdatePartial
<1>2. MemoryInv'
  <2>1. CASE id \notin DOMAIN byId
    BY <1>1, <2>1, PatchKeepsIndex DEF MemoryInv, MemoryTypeOK
  <2>2. CASE id \in DOMAIN byId
    <3>1. /\ byId[id] \in Memory!UserRows
          /\ byId \in [DOMAIN byId -> Memory!UserRows]
      BY <2>2 DEF MemoryInv, MemoryTypeOK
    <3>2. /\ Memory!Patch(role, byId[id].role) \in Memory!Roles
          /\ Memory!Patch(active, byId[id].active) \in BOOLEAN
      BY <3>1 DEF Memory!Patch, Memory!Change, Memory!UserRows
    <3> DEFINE user == [byId[id] EXCEPT !.role = Memory!Patch(role, byId[id].role),
                                        !.active = Memory!Patch(active, byId[id].active)]
    <3>3. byId' = [byId EXCEPT ![id] = user]
      BY <1>1, <2>2
    <3>4. user \in Memory!UserRows /\ user.email = byId[id].email
      BY <3>1, <3>2 DEF Memory!UserRows
    <3> HIDE DEF user
    <3> QED
      BY <1>1, <2>2, <3>3, <3>4, PatchOfOne
  <2> QED
    BY <2>1, <2>2
<1>3. /\ role \in Memory!Contract!Change(Memory!Contract!Roles)
      /\ active \in Memory!Contract!Change(BOOLEAN)
  BY DEF Memory!Change, Memory!Roles, Memory!Contract!Change, Memory!Contract!Roles
<1>4. Memory!Contract!UserUpdate(id, role, active)
  BY <1>1, RulesStay
  DEF Memory!Contract!UserUpdate, Memory!Patch, Memory!Contract!New, RuleTable,
      Memory!Get, Memory!Contract!Row
<1> QED
  BY <1>2, <1>3, <1>4 DEF Memory!Contract!Next

\* A user is deactivated as in the table.
LEMMA SoftDeleteImplements ==
  ASSUME MemoryInv, Memory!SoftDelete, UNCHANGED <<rows, trail, kv, families>>
  PROVE  MemoryInv' /\ Memory!Contract!Next
<1> USE DEF Memory!Returns, Memory!Contract!Says
<1>1. PICK id \in Ids :
          /\ byId' = IF id \notin DOMAIN byId THEN byId
                     ELSE [byId EXCEPT ![id].active = FALSE]
          /\ Memory!Returns("delete", id, id \in DOMAIN byId)
          /\ UNCHANGED <<joined, byEmail>>
  BY DEF Memory!SoftDelete
<1>2. MemoryInv'
  <2>1. CASE id \notin DOMAIN byId
    BY <1>1, <2>1, PatchKeepsIndex DEF MemoryInv, MemoryTypeOK
  <2>2. CASE id \in DOMAIN byId
    <3>1. /\ byId[id] \in Memory!UserRows
          /\ byId \in [DOMAIN byId -> Memory!UserRows]
      BY <2>2 DEF MemoryInv, MemoryTypeOK
    <3> DEFINE user == [byId[id] EXCEPT !.active = FALSE]
    <3>2. byId' = [byId EXCEPT ![id] = user]
      BY <1>1, <2>2
    <3>3. user \in Memory!UserRows /\ user.email = byId[id].email
      BY <3>1 DEF Memory!UserRows
    <3> HIDE DEF user
    <3> QED
      BY <1>1, <2>2, <3>2, <3>3, PatchOfOne
  <2> QED
    BY <2>1, <2>2
<1>3. Memory!Contract!UserDelete(id)
  BY <1>1, RulesStay DEF Memory!Contract!UserDelete, RuleTable
<1> QED
  BY <1>2, <1>3 DEF Memory!Contract!Next

-----------------------------------------------------------------------------
(* Audit trail, configuration and families *)

\* The trail is a list, and the log a table over the times 1..n.
LEMMA TrailIsLog ==
  ASSUME MemoryInv
  PROVE  /\ DOMAIN trail = 1..Len(trail) /\ Len(trail) \in Nat
         /\ Memory!Contract!Cardinality(DOMAIN trail) = Len(trail)
<1>1. DOMAIN trail = 1..Len(trail) /\ Len(trail) \in Nat
  BY LenProperties DEF MemoryInv, MemoryTypeOK
<1>2. Cardinality(1..Len(trail)) = Len(trail)
  <2> SUFFICES ASSUME NEW n \in Nat
               PROVE  Cardinality(1..n) = n
    BY <1>1
  <2> QED
    BY FS_Interval
<1> QED
  BY <1>1, <1>2, MemoryCounts

\* A record is the row of the next time.
LEMMA RecordImplements ==
  ASSUME MemoryInv, Memory!Record, UNCHANGED <<byId, joined, byEmail, rows, kv, families>>
  PROVE  MemoryInv' /\ Memory!Contract!Next
<1> USE DEF Memory!Returns, Memory!Contract!Says
<1>1. PICK action \in Memory!Actions :
          /\ Len(trail) < MaxAudit
          /\ trail' = Append(trail, action)
          /\ Memory!Returns("record", action, None)
  BY DEF Memory!Record
<1>2. DOMAIN trail = 1..Len(trail) /\ Len(trail) \in Nat
  BY TrailIsLog
<1>3. Memory!Contract!Cardinality(DOMAIN trail) = Len(trail)
  BY TrailIsLog
<1>4. trail' = Memory!Contract!With(trail, Len(trail) + 1, action)
  <2>1. /\ trail' \in Seq(Memory!Actions) /\ Len(trail') = Len(trail) + 1
        /\ \A i \in 1..Len(trail) : trail'[i] = trail[i]
        /\ trail'[Len(trail) + 1] = action
    BY <1>1, AppendProperties DEF MemoryInv, MemoryTypeOK
  <2>2. trail' = [i \in 1..Len(trail) + 1 |-> trail'[i]]
    BY <2>1, LenProperties
  <2> QED
    BY <1>2, <2>1, <2>2 DEF Memory!Contract!With
<1>5. Memory!Contract!AuditRecord(action)
  BY <1>1, <1>2, <1>3, <1>4, RulesStay, MemoryAssumed
  DEF Memory!Contract!AuditRecord, RuleTable
<1>6. MemoryInv'
  <2>1. trail' \in Seq(Memory!Actions)
    BY <1>1, AppendProperties DEF MemoryInv, MemoryTypeOK
  <2> QED
    BY <2>1 DEF MemoryInv, MemoryTypeOK, IndexIsOfUsers, Unique
<1>7. action \in Memory!Contract!Actions
  BY DEF Memory!Actions, Memory!Contract!Actions
<1> QED
  BY <1>5, <1>6, <1>7 DEF Memory!Contract!Next

\* The end of the list, backwards, is the latest rows of the table.
LEMMA RecentImplements ==
  ASSUME MemoryInv, Memory!Recent, UNCHANGED <<byId, joined, byEmail, rows, kv, families>>
  PROVE  Memory!Contract!Next
<1> USE DEF Memory!Returns, Memory!Contract!Says
<1> DEFINE n == Len(trail)
<1>1. PICK limit \in 1..MaxAudit + 1 :
          /\ Memory!Returns("recent", limit,
                Memory!Reverse(SubSeq(trail, IF limit < n THEN n - limit + 1 ELSE 1, n)))
          /\ trail' = trail
  BY DEF Memory!Recent
<1>2. /\ DOMAIN trail = 1..n /\ n \in Nat /\ limit \in Nat /\ limit > 0
      /\ trail \in Seq(Memory!Actions)
  BY TrailIsLog, MemoryAssumed DEF MemoryInv, MemoryTypeOK
<1>3. Memory!Contract!Cardinality(DOMAIN trail) = n
  BY TrailIsLog
<1> DEFINE from == IF limit < n THEN n - limit + 1 ELSE 1
           most == IF limit < n THEN limit ELSE n
           tail == SubSeq(trail, from, n)
<1>4. from \in 1..n + 1 /\ from \in Nat /\ n - from + 1 = most /\ most \in Nat
  BY <1>2
<1>5. /\ Len(tail) = most
      /\ \A i \in 1..most : tail[i] = trail[from + i - 1]
  <2>1. \A i \in from..n : trail[i] \in Memory!Actions
    BY <1>2, <1>4
  <2> HIDE DEF from, most, n
  <2>2. /\ Len(tail) = IF from <= n THEN n - from + 1 ELSE 0
        /\ \A i \in 1..n - from + 1 : tail[i] = trail[from + i - 1]
    BY <1>2, <1>4, <2>1, SubSeqProperties
  <2> QED
    BY <1>2, <1>4, <2>2
<1>6. \A i \in 1..most : tail[most - i + 1] = trail[n + 1 - i]
  <2> SUFFICES ASSUME NEW i \in 1..most
               PROVE  tail[most - i + 1] = trail[n + 1 - i]
    OBVIOUS
  <2>1. most - i + 1 \in 1..most /\ from + (most - i + 1) - 1 = n + 1 - i
    BY <1>2, <1>4
  <2> HIDE DEF tail, from, most
  <2> QED
    BY <1>5, <2>1
<1>7. Memory!Reverse(tail) = [i \in 1..most |-> trail[n + 1 - i]]
  <2> HIDE DEF tail, from, most
  <2> QED
    BY <1>5, <1>6 DEF Memory!Reverse
<1>8. Memory!Contract!AuditRecent(limit)
  BY <1>1, <1>3, <1>7, RulesStay DEF Memory!Contract!AuditRecent, RuleTable
<1> QED
  BY <1>8 DEF Memory!Contract!Next

\* The configuration is a dictionary on both sides.
LEMMA UseConfigImplements ==
  ASSUME Memory!UseConfig, UNCHANGED <<byId, joined, byEmail, rows, trail, families>>
  PROVE  Memory!Contract!Next
<1> USE RulesStay DEF Memory!Returns, Memory!Contract!Says, RuleTable
<1>1. PICK key \in ConfigKeys :
          \/ /\ Memory!Returns("get_config", key,
                                IF key \in DOMAIN kv THEN kv[key] ELSE None)
             /\ UNCHANGED kv
          \/ \E v \in Memory!Levels :
                /\ kv' = Memory!Put(kv, key, v)
                /\ Memory!Returns("set", <<key, v>>, None)
  BY DEF Memory!UseConfig
<1>2. \/ Memory!Contract!ConfigGet(key)
      \/ \E v \in Memory!Contract!Levels : Memory!Contract!ConfigSet(key, v)
  BY <1>1
  DEF Memory!Contract!ConfigGet, Memory!Contract!ConfigSet, Memory!Put, Memory!Contract!With,
      Memory!Levels, Memory!Contract!Levels
<1> QED
  BY <1>2 DEF Memory!Contract!Next

\* Families are dictionaries too; bump_generation returns early where the UPDATE matches
\* no row.
LEMMA FamiliesImplement ==
  ASSUME \/ Memory!ReadFamily \/ Memory!CreateFamily
         \/ Memory!BumpGeneration \/ Memory!RevokeFamily,
         UNCHANGED <<byId, joined, byEmail, rows, trail, kv>>
  PROVE  Memory!Contract!Next
<1> USE RulesStay DEF Memory!Returns, Memory!Contract!Says, RuleTable
<1>1. CASE Memory!ReadFamily
  <2>1. \E id \in Ids : Memory!Contract!FamilyById(id)
    BY <1>1, GetIsRow DEF Memory!ReadFamily, Memory!Contract!FamilyById
  <2> QED
    BY <2>1 DEF Memory!Contract!Next
<1>2. CASE Memory!CreateFamily
  <2>1. Memory!Contract!FamilyCreate
    BY <1>2
    DEF Memory!CreateFamily, Memory!Contract!FamilyCreate, Memory!Put, Memory!Contract!With
  <2> QED
    BY <2>1 DEF Memory!Contract!Next
<1>3. CASE Memory!BumpGeneration
  <2>1. PICK id \in Ids, expected \in 0..MaxGeneration - 1 :
            \/ /\ Memory!Refused(id, expected)
               /\ Memory!Returns("bump_generation", <<id, expected>>, None)
               /\ UNCHANGED families
            \/ /\ ~Memory!Refused(id, expected)
               /\ families' = [families EXCEPT ![id].generation = @ + 1]
               /\ Memory!Returns("bump_generation", <<id, expected>>,
                                 Memory!Get(families', id))
    BY <1>3 DEF Memory!BumpGeneration
  <2>2. expected \in 0..MaxGeneration /\ expected < MaxGeneration
    BY MemoryAssumed
  <2>3. Memory!Contract!FamilyBump(id, expected)
    BY <2>1, <2>2
    DEF Memory!Contract!FamilyBump, Memory!Refused, Memory!Get, Memory!Contract!Row
  <2> QED
    BY <2>2, <2>3 DEF Memory!Contract!Next
<1>4. CASE Memory!RevokeFamily
  <2>1. \E id \in Ids : Memory!Contract!FamilyRevoke(id)
    BY <1>4 DEF Memory!RevokeFamily, Memory!Contract!FamilyRevoke
  <2> QED
    BY <2>1 DEF Memory!Contract!Next
<1> QED
  BY <1>1, <1>2, <1>3, <1>4

-----------------------------------------------------------------------------
(* Rules *)

\* The first position of an id in a list, 0 if it has none, and the table of a list.
Position(list, id) ==
    LET hits == {i \in DOMAIN list : list[i].id = id}
    IN  IF hits = {} THEN 0 ELSE CHOOSE i \in hits : \A j \in hits : i <= j

Table(list) ==
    [id \in {list[i].id : i \in DOMAIN list} |-> list[Position(list, id)].row]

Listing == {list \in Seq(RuleItem) : Unique(list)}

\* The scan of _index_of, before and after a step.
LEMMA RuleTableIsTable ==
  /\ \A id : Memory!IndexOf(id) = Position(rows, id)
  /\ \A id : Memory!IndexOf(id)' = Position(rows', id)
  /\ RuleTable = Table(rows) /\ RuleTable' = Table(rows')
<1>1. \A id : Memory!IndexOf(id) = Position(rows, id)
  BY DEF Memory!IndexOf, Memory!First, Memory!Hits, Position
<1>2. \A id : Memory!IndexOf(id)' = Position(rows', id)
  BY DEF Memory!IndexOf, Memory!First, Memory!Hits, Position
<1>3. RuleTable = Table(rows)
  BY <1>1 DEF RuleTable, Table
<1>4. RuleTable' = Table(rows')
  BY <1>2 DEF RuleTable, Table
<1> QED
  BY <1>1, <1>2, <1>3, <1>4

\* An id is found where it is, and nowhere else.
LEMMA PositionIsUnique ==
  ASSUME NEW list \in Listing, NEW i \in DOMAIN list
  PROVE  /\ Position(list, list[i].id) = i
         /\ i \in Nat /\ i # 0
<1>1. {j \in DOMAIN list : list[j].id = list[i].id} = {i}
  BY DEF Listing, Unique
<1>2. i \in Nat /\ i # 0
  BY LenProperties DEF Listing
<1> QED
  BY <1>1, <1>2 DEF Position

\* An id that is nowhere has no position.
LEMMA PositionOfAbsent ==
  ASSUME NEW list, NEW id, id \notin {list[i].id : i \in DOMAIN list}
  PROVE  Position(list, id) = 0
  BY DEF Position

\* Row by row, the table of a list is the list.
LEMMA TableIsTheList ==
  ASSUME NEW list \in Listing
  PROVE  /\ DOMAIN Table(list) = {list[i].id : i \in DOMAIN list}
         /\ \A i \in DOMAIN list : Table(list)[list[i].id] = list[i].row
         /\ Table(list) = [id \in DOMAIN Table(list) |-> Table(list)[id]]
  BY PositionIsUnique DEF Table

\* What a call answers of an id is the row of the table.
LEMMA ItemIsRow ==
  ASSUME NEW list \in Listing, NEW id
  PROVE  Memory!Item(list, Position(list, id)) = Memory!Contract!Row(Table(list), id)
<1>1. CASE id \in {list[i].id : i \in DOMAIN list}
  <2>1. PICK i \in DOMAIN list : list[i].id = id
    BY <1>1
  <2>2. Position(list, id) = i /\ i # 0
    BY <2>1, PositionIsUnique
  <2> QED
    BY <1>1, <2>1, <2>2, TableIsTheList DEF Memory!Item, Memory!Contract!Row
<1>2. CASE id \notin {list[i].id : i \in DOMAIN list}
  BY <1>2, PositionOfAbsent, TableIsTheList DEF Memory!Item, Memory!Contract!Row
<1> QED
  BY <1>1, <1>2

\* The list of the repository is such a list.
LEMMA RowsAreListing == MemoryInv => rows \in Listing
  BY DEF MemoryInv, MemoryTypeOK, Listing

\* The same for keys.
LEMMA KeyIsUnique ==
  ASSUME MemoryInv, NEW key
  PROVE  \/ /\ Memory!IndexOfKey(key) = 0
            /\ \A i \in DOMAIN rows : rows[i].row.key # key
         \/ \E i \in DOMAIN rows :
               /\ Memory!IndexOfKey(key) = i /\ i # 0
               /\ rows[i].row.key = key
<1>1. CASE \E i \in DOMAIN rows : rows[i].row.key = key
  <2>1. PICK i \in DOMAIN rows : rows[i].row.key = key
    BY <1>1
  <2>2. {j \in DOMAIN rows : rows[j].row.key = key} = {i}
    BY <2>1 DEF MemoryInv, Unique
  <2>3. i \in Nat /\ i # 0
    BY LenProperties DEF MemoryInv, MemoryTypeOK
  <2>4. Memory!IndexOfKey(key) = i
    BY <2>2, <2>3 DEF Memory!IndexOfKey, Memory!First, Memory!Hits
  <2> QED
    BY <2>1, <2>3, <2>4
<1>2. CASE ~\E i \in DOMAIN rows : rows[i].row.key = key
  <2>1. Memory!IndexOfKey(key) = 0
    BY <1>2 DEF Memory!IndexOfKey, Memory!First, Memory!Hits
  <2> QED
    BY <1>2, <2>1
<1> QED
  BY <1>1, <1>2

\* Reading a rule answers as the table does.
LEMMA ReadRuleImplements ==
  ASSUME MemoryInv, Memory!ReadRule,
         UNCHANGED <<byId, joined, byEmail, trail, kv, families>>
  PROVE  Memory!Contract!Next
<1> USE DEF Memory!Returns, Memory!Contract!Says
<1>1. rows' = rows /\ RuleTable' = RuleTable /\ rows \in Listing
  BY RulesStay, RowsAreListing DEF Memory!ReadRule
<1>2. /\ DOMAIN RuleTable = {rows[i].id : i \in DOMAIN rows}
      /\ \A i \in DOMAIN rows : RuleTable[rows[i].id] = rows[i].row
  BY <1>1, RuleTableIsTable, TableIsTheList
<1>3. \A id : Memory!Item(rows, Memory!IndexOf(id)) = Memory!Contract!Row(RuleTable, id)
  BY <1>1, RuleTableIsTable, ItemIsRow
<1>4. ASSUME NEW key \in RuleKeys,
             Memory!Returns("get_by_key", key, Memory!Item(rows, Memory!IndexOfKey(key)))
      PROVE  Memory!Contract!Next
  <2>1. CASE \A i \in DOMAIN rows : rows[i].row.key # key
    <3>1. Memory!Item(rows, Memory!IndexOfKey(key)) = None
      BY <2>1, KeyIsUnique DEF Memory!Item
    <3>2. {id \in DOMAIN RuleTable : RuleTable[id].key = key} = {}
      BY <1>2, <2>1
    <3>3. Memory!Contract!RuleByKey(key)
      BY <1>1, <1>4, <3>1, <3>2 DEF Memory!Contract!RuleByKey, RuleTable
    <3> QED
      BY <3>3 DEF Memory!Contract!Next
  <2>2. CASE ~\A i \in DOMAIN rows : rows[i].row.key # key
    <3>1. PICK i \in DOMAIN rows :
              Memory!IndexOfKey(key) = i /\ i # 0 /\ rows[i].row.key = key
      BY <2>2, KeyIsUnique
    <3>2. /\ rows[i].id \in {id \in DOMAIN RuleTable : RuleTable[id].key = key}
          /\ Memory!Item(rows, i) = Memory!Contract!Row(RuleTable, rows[i].id)
      BY <1>2, <3>1 DEF Memory!Item, Memory!Contract!Row
    <3>3. Memory!Contract!RuleByKey(key)
      BY <1>1, <1>4, <3>1, <3>2 DEF Memory!Contract!RuleByKey, RuleTable
    <3> QED
      BY <3>3 DEF Memory!Contract!Next
  <2> QED
    BY <2>1, <2>2
<1>5. ASSUME NEW id \in Ids, Memory!Returns("get", id, Memory!Item(rows, Memory!IndexOf(id)))
      PROVE  Memory!Contract!Next
  <2>1. Memory!Contract!RuleById(id)
    BY <1>1, <1>3, <1>5 DEF Memory!Contract!RuleById, RuleTable
  <2> QED
    BY <2>1 DEF Memory!Contract!Next
<1>6. CASE Memory!Returns("list", None, {Memory!Item(rows, i) : i \in DOMAIN rows})
  <2>1. \A i \in DOMAIN rows :
            Memory!Item(rows, i) = Memory!Contract!Row(RuleTable, rows[i].id)
    BY <1>1, <1>2, PositionIsUnique DEF Memory!Item, Memory!Contract!Row
  <2>2. {Memory!Item(rows, i) : i \in DOMAIN rows} =
            {Memory!Contract!Row(RuleTable, id) : id \in DOMAIN RuleTable}
    BY <1>2, <2>1
  <2>3. Memory!Contract!RuleList
    BY <1>1, <1>6, <2>2 DEF Memory!Contract!RuleList, RuleTable
  <2> QED
    BY <2>3 DEF Memory!Contract!Next
<1> QED
  BY <1>4, <1>5, <1>6 DEF Memory!ReadRule

\* A rule is created under a key and an id that no other has.
LEMMA CreateRuleImplements ==
  ASSUME MemoryInv, Memory!CreateRule,
         UNCHANGED <<byId, joined, byEmail, trail, kv, families>>
  PROVE  MemoryInv' /\ Memory!Contract!Next
<1> USE DEF Memory!Returns, Memory!Contract!Says
<1>1. PICK key \in RuleKeys, action \in Memory!Actions, id \in Ids :
          /\ Memory!IndexOfKey(key) = 0 /\ Memory!IndexOf(id) = 0
          /\ rows' = Append(rows, [id |-> id, row |-> [key |-> key, action |-> action,
                                                       enabled |-> TRUE]])
          /\ Memory!Returns("create_rule", <<key, action>>,
                            <<id, [key |-> key, action |-> action, enabled |-> TRUE]>>)
  BY DEF Memory!CreateRule
<1> DEFINE rule == [key |-> key, action |-> action, enabled |-> TRUE]
           item == [id |-> id, row |-> rule]
           n == Len(rows)
<1>2. item \in RuleItem /\ item.id = id /\ item.row = rule /\ rule.key = key
  BY DEF RuleItem, RuleRows
<1>3. rows \in Listing
  BY RowsAreListing
<1>4. \A i \in DOMAIN rows : rows[i].id # id /\ rows[i].row.key # key
  BY <1>1, <1>3, KeyIsUnique, RuleTableIsTable, PositionIsUnique
<1> HIDE DEF rule
<1>5. /\ DOMAIN rows = 1..n /\ n \in Nat
      /\ DOMAIN rows' = 1..n + 1 /\ rows' \in Seq(RuleItem)
      /\ \A i \in DOMAIN rows : rows'[i] = rows[i]
      /\ rows'[n + 1] = item
  <2> HIDE DEF item
  <2>1. rows \in Seq(RuleItem) /\ rows' = Append(rows, item)
    BY <1>1, <1>3 DEF Listing, item, rule
  <2> QED
    BY <1>2, <2>1, AppendProperties, LenProperties
<1>6. rows' \in Listing
  <2> HIDE DEF item
  <2>1. Unique(rows')
    BY <1>2, <1>4, <1>5, <1>3 DEF Listing, Unique
  <2> QED
    BY <1>5, <2>1 DEF Listing
<1>7. /\ DOMAIN RuleTable = {rows[i].id : i \in DOMAIN rows}
      /\ \A i \in DOMAIN rows : RuleTable[rows[i].id] = rows[i].row
      /\ DOMAIN RuleTable' = {rows'[i].id : i \in DOMAIN rows'}
      /\ \A i \in DOMAIN rows' : RuleTable'[rows'[i].id] = rows'[i].row
      /\ RuleTable' = [k \in DOMAIN RuleTable' |-> RuleTable'[k]]
  BY <1>3, <1>6, RuleTableIsTable, TableIsTheList
<1> HIDE DEF item
<1>8. DOMAIN RuleTable' = DOMAIN RuleTable \cup {id}
  BY <1>2, <1>5, <1>7
<1>9. /\ RuleTable'[id] = rule
      /\ \A k \in DOMAIN RuleTable : RuleTable'[k] = RuleTable[k]
  <2>1. RuleTable'[id] = rule
    <3>1. n + 1 \in DOMAIN rows' /\ rows'[n + 1] = item
      BY <1>5
    <3> HIDE DEF n
    <3> QED
      BY <1>2, <1>7, <3>1
  <2>2. ASSUME NEW k \in DOMAIN RuleTable
        PROVE  RuleTable'[k] = RuleTable[k]
    <3>1. PICK i \in DOMAIN rows : rows[i].id = k
      BY <1>7
    <3>2. i \in DOMAIN rows' /\ rows'[i] = rows[i]
      BY <1>5
    <3> QED
      BY <1>7, <3>1, <3>2
  <2> QED
    BY <2>1, <2>2
<1>10. id \notin DOMAIN RuleTable
  BY <1>4, <1>7
<1>11. RuleTable' = Memory!Contract!With(RuleTable, id, rule)
  BY <1>7, <1>8, <1>9, <1>10 DEF Memory!Contract!With
<1>12. \A k \in DOMAIN RuleTable : RuleTable[k].key # key
  BY <1>4, <1>7
<1>13. Memory!Contract!RuleCreate(key, action)
  BY <1>1, <1>10, <1>11, <1>12 DEF Memory!Contract!RuleCreate, RuleTable, rule
<1>14. MemoryInv'
  BY <1>1, <1>6 DEF MemoryInv, MemoryTypeOK, IndexIsOfUsers, Listing
<1>15. action \in Memory!Contract!Actions
  BY DEF Memory!Actions, Memory!Contract!Actions
<1> QED
  BY <1>13, <1>14, <1>15 DEF Memory!Contract!Next

\* A rule is patched as the table is.
LEMMA UpdateRuleImplements ==
  ASSUME MemoryInv, Memory!UpdateRule,
         UNCHANGED <<byId, joined, byEmail, trail, kv, families>>
  PROVE  MemoryInv' /\ Memory!Contract!Next
<1> USE DEF Memory!Returns, Memory!Contract!Says
<1>1. PICK id \in Ids, action \in Memory!Change(Memory!Actions),
           enabled \in Memory!Change(BOOLEAN) :
          LET i == Memory!IndexOf(id)
          IN  /\ rows' = IF i = 0 THEN rows
                         ELSE [rows EXCEPT ![i].row.action = Memory!Patch(action, @),
                                           ![i].row.enabled = Memory!Patch(enabled, @)]
              /\ Memory!Returns("update", <<id, action, enabled>>, Memory!Item(rows', i))
  BY DEF Memory!UpdateRule
<1>2. rows \in Listing
  BY RowsAreListing
<1>3. /\ action \in Memory!Contract!Change(Memory!Contract!Actions)
      /\ enabled \in Memory!Contract!Change(BOOLEAN)
  BY DEF Memory!Change, Memory!Actions, Memory!Contract!Change, Memory!Contract!Actions
<1>4. /\ DOMAIN RuleTable = {rows[j].id : j \in DOMAIN rows}
      /\ \A j \in DOMAIN rows : RuleTable[rows[j].id] = rows[j].row
  BY <1>2, RuleTableIsTable, TableIsTheList
<1>5. CASE id \notin DOMAIN RuleTable
  <2>1. Memory!IndexOf(id) = 0
    BY <1>4, <1>5, RuleTableIsTable, PositionOfAbsent
  <2>2. rows' = rows /\ answer' = <<"update", <<id, action, enabled>>, None>>
    BY <1>1, <2>1 DEF Memory!Item
  <2>3. RuleTable' = RuleTable
    BY <2>2, RulesStay
  <2>4. Memory!Contract!RuleUpdate(id, action, enabled)
    BY <1>5, <2>2, <2>3 DEF Memory!Contract!RuleUpdate, Memory!Contract!Row, RuleTable
  <2>5. MemoryInv'
    BY <2>2 DEF MemoryInv, MemoryTypeOK, IndexIsOfUsers, Unique
  <2> QED
    BY <1>3, <2>4, <2>5 DEF Memory!Contract!Next
<1>6. CASE id \in DOMAIN RuleTable
  <2>1. PICK i \in DOMAIN rows : rows[i].id = id /\ Memory!IndexOf(id) = i /\ i # 0
    BY <1>2, <1>4, <1>6, RuleTableIsTable, PositionIsUnique
  <2>2. rows \in [1..Len(rows) -> RuleItem] /\ DOMAIN rows = 1..Len(rows)
    BY <1>2, LenProperties DEF Listing
  <2>3. rows[i] \in RuleItem
    BY <2>1, <2>2
  <2> DEFINE rule == [rows[i].row EXCEPT !.action = Memory!Patch(action, rows[i].row.action),
                                         !.enabled = Memory!Patch(enabled, rows[i].row.enabled)]
             item == [rows[i] EXCEPT !.row = rule]
  <2>4. rows' = [rows EXCEPT ![i] = item]
    BY <1>1, <2>1, <2>2, <2>3 DEF RuleItem, RuleRows
  <2>5. /\ Memory!Patch(action, rows[i].row.action) \in Memory!Actions
        /\ Memory!Patch(enabled, rows[i].row.enabled) \in BOOLEAN
    BY <2>3 DEF Memory!Patch, Memory!Change, RuleItem, RuleRows
  <2>6. rule \in RuleRows /\ rule.key = rows[i].row.key
    BY <2>3, <2>5 DEF RuleItem, RuleRows
  <2>7. RuleTable[id] = rows[i].row
    BY <1>4, <2>1
  <2>8. [RuleTable EXCEPT ![id].action = Memory!Contract!New(action, @),
                          ![id].enabled = Memory!Contract!New(enabled, @)]
            = [RuleTable EXCEPT ![id] = rule]
    BY <1>6, <2>7 DEF Memory!Contract!New, Memory!Patch
  <2> HIDE DEF rule
  <2>9. item \in RuleItem /\ item.id = id /\ item.row = rule
    BY <2>1, <2>3, <2>6 DEF RuleItem
  <2> HIDE DEF item
  <2>10. /\ DOMAIN rows' = DOMAIN rows /\ rows' \in Seq(RuleItem)
         /\ \A j \in DOMAIN rows : rows'[j] = IF j = i THEN item ELSE rows[j]
    BY <1>2, <2>1, <2>2, <2>4, <2>9, ExceptSeq, LenProperties DEF Listing
  <2>11. rows' \in Listing
    BY <1>2, <2>1, <2>6, <2>9, <2>10 DEF Listing, Unique
  <2>12. /\ DOMAIN RuleTable' = {rows'[j].id : j \in DOMAIN rows'}
         /\ \A j \in DOMAIN rows' : RuleTable'[rows'[j].id] = rows'[j].row
         /\ RuleTable' = [k \in DOMAIN RuleTable' |-> RuleTable'[k]]
    BY <2>11, RuleTableIsTable, TableIsTheList
  <2>13. /\ DOMAIN RuleTable' = DOMAIN RuleTable
         /\ RuleTable'[id] = rule
         /\ \A k \in DOMAIN RuleTable : k # id => RuleTable'[k] = RuleTable[k]
    <3>1. \A j \in DOMAIN rows : rows'[j].id = rows[j].id
      BY <2>1, <2>9, <2>10
    <3>2. DOMAIN RuleTable' = DOMAIN RuleTable
      BY <1>4, <2>10, <2>12, <3>1
    <3>3. RuleTable'[id] = rule
      <4>1. i \in DOMAIN rows' /\ rows'[i] = item
        BY <2>1, <2>10
      <4> QED
        BY <2>9, <2>12, <4>1
    <3>4. ASSUME NEW k \in DOMAIN RuleTable, k # id
          PROVE  RuleTable'[k] = RuleTable[k]
      <4>1. PICK j \in DOMAIN rows : rows[j].id = k
        BY <1>4
      <4>2. j \in DOMAIN rows' /\ rows'[j] = rows[j]
        BY <2>1, <2>10, <3>4, <4>1
      <4> QED
        BY <1>4, <2>12, <4>1, <4>2
    <3> QED
      BY <3>2, <3>3, <3>4
  <2>14. RuleTable' = [RuleTable EXCEPT ![id] = rule]
    BY <2>12, <2>13
  <2>15. Memory!Item(rows', i) = Memory!Contract!Row(RuleTable', id)
    BY <1>6, <2>1, <2>9, <2>10, <2>13 DEF Memory!Item, Memory!Contract!Row
  <2>16. Memory!Contract!RuleUpdate(id, action, enabled)
    BY <1>1, <1>6, <2>1, <2>8, <2>14, <2>15 DEF Memory!Contract!RuleUpdate, RuleTable
  <2>17. MemoryInv'
    BY <2>11 DEF MemoryInv, MemoryTypeOK, IndexIsOfUsers, Listing
  <2> QED
    BY <1>3, <2>16, <2>17 DEF Memory!Contract!Next
<1> QED
  BY <1>5, <1>6

\* Removing a position moves the rows behind it one forward.
LEMMA Removed ==
  ASSUME NEW S, NEW list \in Seq(S), NEW i \in DOMAIN list
  PROVE  /\ Memory!RemoveAt(list, i) \in Seq(S)
         /\ Len(list) \in Nat \ {0} /\ i \in Nat /\ DOMAIN list = 1..Len(list)
         /\ DOMAIN Memory!RemoveAt(list, i) = 1..Len(list) - 1
         /\ \A j \in 1..Len(list) - 1 :
                Memory!RemoveAt(list, i)[j] = IF j < i THEN list[j] ELSE list[j + 1]
<1> DEFINE n == Len(list)
           front == SubSeq(list, 1, i - 1)
           back == SubSeq(list, i + 1, n)
<1>1. DOMAIN list = 1..n /\ n \in Nat /\ i \in 1..n
  BY LenProperties
<1>2. \A j \in 1..n : list[j] \in S
  BY <1>1, ElementOfSeq
<1>3. /\ front \in Seq(S) /\ Len(front) = i - 1
      /\ \A j \in 1..i - 1 : front[j] = list[j]
  <2>1. \A j \in 1..i - 1 : list[j] \in S
    BY <1>1, <1>2
  <2> HIDE DEF n
  <2>2. /\ front \in Seq(S)
        /\ Len(front) = IF 1 <= i - 1 THEN (i - 1) - 1 + 1 ELSE 0
        /\ \A j \in 1..(i - 1) - 1 + 1 : front[j] = list[1 + j - 1]
    BY <1>1, <2>1, SubSeqProperties
  <2> HIDE DEF front
  <2> QED
    BY <1>1, <2>2
<1>4. /\ back \in Seq(S) /\ Len(back) = n - i
      /\ \A j \in 1..n - i : back[j] = list[i + j]
  <2>1. \A j \in i + 1..n : list[j] \in S
    BY <1>1, <1>2
  <2> HIDE DEF n
  <2>2. /\ back \in Seq(S)
        /\ Len(back) = IF i + 1 <= n THEN n - (i + 1) + 1 ELSE 0
        /\ \A j \in 1..n - (i + 1) + 1 : back[j] = list[(i + 1) + j - 1]
    BY <1>1, <2>1, SubSeqProperties
  <2> HIDE DEF back
  <2>3. /\ n - (i + 1) + 1 = n - i
        /\ (IF i + 1 <= n THEN n - (i + 1) + 1 ELSE 0) = n - i
        /\ \A j \in 1..n - i : (i + 1) + j - 1 = i + j
    BY <1>1
  <2> QED
    BY <2>2, <2>3
<1>5. Memory!RemoveAt(list, i) = front \o back
  BY DEF Memory!RemoveAt
<1> HIDE DEF front, back, n
<1>6. /\ front \o back \in Seq(S) /\ Len(front \o back) = n - 1
      /\ \A j \in 1..n - 1 : (front \o back)[j] =
              IF j <= i - 1 THEN front[j] ELSE back[j - (i - 1)]
  <2>1. Len(front) + Len(back) = n - 1
    BY <1>1, <1>3, <1>4
  <2> QED
    BY <1>3, <1>4, <2>1, ConcatProperties
<1>7. DOMAIN (front \o back) = 1..n - 1
  BY <1>6, LenProperties
<1>8. \A j \in 1..n - 1 : (front \o back)[j] = IF j < i THEN list[j] ELSE list[j + 1]
  <2> SUFFICES ASSUME NEW j \in 1..n - 1
               PROVE  (front \o back)[j] = IF j < i THEN list[j] ELSE list[j + 1]
    OBVIOUS
  <2>1. CASE j < i
    <3>1. j <= i - 1 /\ j \in 1..i - 1
      BY <1>1, <2>1
    <3> QED
      BY <1>3, <1>6, <2>1, <3>1
  <2>2. CASE ~(j < i)
    <3>1. ~(j <= i - 1) /\ j - (i - 1) \in 1..n - i /\ i + (j - (i - 1)) = j + 1
      BY <1>1, <2>2
    <3> QED
      BY <1>4, <1>6, <2>2, <3>1
  <2> QED
    BY <2>1, <2>2
<1>9. n \in Nat \ {0} /\ i \in Nat /\ n = Len(list)
  BY <1>1 DEF n
<1> QED
  BY <1>1, <1>5, <1>6, <1>7, <1>8, <1>9

\* What is removed from a list of rules is removed from its table, and no more.
LEMMA RemovedFromTable ==
  ASSUME NEW list \in Listing, NEW i \in DOMAIN list
  PROVE  /\ Memory!RemoveAt(list, i) \in Listing
         /\ Table(Memory!RemoveAt(list, i)) =
                Memory!Contract!Without(Table(list), list[i].id)
<1> DEFINE rest == Memory!RemoveAt(list, i)
           n == Len(list)
           At(j) == IF j < i THEN j ELSE j + 1
<1>1. /\ rest \in Seq(RuleItem) /\ n \in Nat \ {0} /\ i \in 1..n
      /\ DOMAIN list = 1..n /\ DOMAIN rest = 1..n - 1
      /\ \A j \in 1..n - 1 : rest[j] = IF j < i THEN list[j] ELSE list[j + 1]
  BY Removed DEF Listing
<1> HIDE DEF rest, n
<1>2. /\ \A j \in DOMAIN rest : At(j) \in DOMAIN list /\ rest[j] = list[At(j)] /\ At(j) # i
      /\ \A j, k \in DOMAIN rest : At(j) = At(k) => j = k
      /\ \A k \in DOMAIN list : k # i => \E j \in DOMAIN rest : At(j) = k
  <2>1. \A j \in 1..n - 1 : At(j) \in 1..n /\ rest[j] = list[At(j)] /\ At(j) # i
    BY <1>1
  <2>2. \A j, k \in 1..n - 1 : At(j) = At(k) => j = k
    BY <1>1
  <2>3. ASSUME NEW k \in 1..n, k # i
        PROVE  \E j \in 1..n - 1 : At(j) = k
    <3>1. CASE k < i
      BY <1>1, <3>1
    <3>2. CASE ~(k < i)
      <4>1. k - 1 \in 1..n - 1 /\ At(k - 1) = k
        BY <1>1, <2>3, <3>2
      <4> QED
        BY <4>1
    <3> QED
      BY <3>1, <3>2
  <2> QED
    BY <1>1, <2>1, <2>2, <2>3
<1> HIDE DEF At
<1>3. rest \in Listing
  BY <1>1, <1>2 DEF Listing, Unique
<1>4. /\ DOMAIN Table(list) = {list[j].id : j \in DOMAIN list}
      /\ \A j \in DOMAIN list : Table(list)[list[j].id] = list[j].row
      /\ DOMAIN Table(rest) = {rest[j].id : j \in DOMAIN rest}
      /\ \A j \in DOMAIN rest : Table(rest)[rest[j].id] = rest[j].row
      /\ Table(rest) = [k \in DOMAIN Table(rest) |-> Table(rest)[k]]
  BY <1>3, TableIsTheList
<1>5. \A j \in DOMAIN list : list[j].id = list[i].id => j = i
  BY DEF Listing, Unique
<1>6. DOMAIN Table(rest) = DOMAIN Table(list) \ {list[i].id}
  BY <1>2, <1>4, <1>5
<1>7. ASSUME NEW k \in DOMAIN Table(rest)
      PROVE  Table(rest)[k] = Table(list)[k]
  <2>1. PICK j \in DOMAIN rest : rest[j].id = k
    BY <1>4
  <2> QED
    BY <1>2, <1>4, <2>1
<1>8. Table(rest) = Memory!Contract!Without(Table(list), list[i].id)
  BY <1>4, <1>6, <1>7 DEF Memory!Contract!Without
<1> QED
  BY <1>3, <1>8 DEF rest

\* A rule is deleted from the list as from the table.
LEMMA DeleteRuleImplements ==
  ASSUME MemoryInv, Memory!DeleteRule,
         UNCHANGED <<byId, joined, byEmail, trail, kv, families>>
  PROVE  MemoryInv' /\ Memory!Contract!Next
<1> USE DEF Memory!Returns, Memory!Contract!Says
<1>1. PICK id \in Ids :
          /\ rows' = IF Memory!IndexOf(id) = 0 THEN rows
                     ELSE Memory!RemoveAt(rows, Memory!IndexOf(id))
          /\ Memory!Returns("delete_rule", id, Memory!IndexOf(id) # 0)
  BY DEF Memory!DeleteRule
<1>2. rows \in Listing
  BY RowsAreListing
<1>3. RuleTable = Table(rows) /\ RuleTable' = Table(rows')
  BY RuleTableIsTable
<1>4. DOMAIN RuleTable = {rows[j].id : j \in DOMAIN rows}
  BY <1>2, <1>3, TableIsTheList
<1>5. /\ rows' \in Listing
      /\ RuleTable' = Memory!Contract!Without(RuleTable, id)
      /\ Memory!IndexOf(id) # 0 <=> id \in DOMAIN RuleTable
  <2>1. CASE id \notin DOMAIN RuleTable
    <3>1. Memory!IndexOf(id) = 0
      BY <1>4, <2>1, RuleTableIsTable, PositionOfAbsent
    <3>2. RuleTable = Memory!Contract!Without(RuleTable, id)
      BY <2>1, <1>2, <1>3, TableIsTheList DEF Memory!Contract!Without
    <3> QED
      BY <1>1, <1>2, <1>3, <2>1, <3>1, <3>2
  <2>2. CASE id \in DOMAIN RuleTable
    <3>1. PICK i \in DOMAIN rows : rows[i].id = id /\ Memory!IndexOf(id) = i /\ i # 0
      BY <1>2, <1>4, <2>2, RuleTableIsTable, PositionIsUnique
    <3> QED
      BY <1>1, <1>2, <1>3, <2>2, <3>1, RemovedFromTable
  <2> QED
    BY <2>1, <2>2
<1>6. Memory!Contract!RuleDelete(id)
  BY <1>1, <1>5 DEF Memory!Contract!RuleDelete, RuleTable
<1>7. MemoryInv'
  BY <1>5 DEF MemoryInv, MemoryTypeOK, IndexIsOfUsers, Listing
<1> QED
  BY <1>6, <1>7 DEF Memory!Contract!Next

\* A step of the doubles is one of the contract, or one of the two others.
LEMMA MemoryStep ==
  ASSUME MemoryInv, Memory!Next
  PROVE  MemoryInv' /\ Conforms
<1>1. ASSUME UNCHANGED <<byId, joined, byEmail, rows, trail>>
      PROVE  MemoryInv'
  BY <1>1 DEF MemoryInv, MemoryTypeOK, IndexIsOfUsers, Unique
<1>2. ASSUME Memory!ReadUser \/ Memory!CreateUser \/ Memory!UpdatePartial \/ Memory!SoftDelete,
             UNCHANGED <<used, rows, trail, kv, families>>
      PROVE  MemoryInv' /\ Conforms
  BY <1>1, <1>2, ReadUserImplements, CreateUserImplements, UpdatePartialImplements,
     SoftDeleteImplements DEF Conforms, Memory!ReadUser
<1>3. ASSUME Memory!ReadRule \/ Memory!CreateRule \/ Memory!UpdateRule \/ Memory!DeleteRule,
             UNCHANGED <<used, byId, joined, byEmail, trail, kv, families>>
      PROVE  MemoryInv' /\ Conforms
  BY <1>1, <1>3, ReadRuleImplements, CreateRuleImplements, UpdateRuleImplements,
     DeleteRuleImplements DEF Conforms, Memory!ReadRule
<1>4. ASSUME Memory!Record \/ Memory!Recent,
             UNCHANGED <<used, byId, joined, byEmail, rows, kv, families>>
      PROVE  MemoryInv' /\ Conforms
  BY <1>1, <1>4, RecordImplements, RecentImplements DEF Conforms, Memory!Recent
<1>5. ASSUME Memory!UseConfig, UNCHANGED <<used, byId, joined, byEmail, rows, trail, families>>
      PROVE  MemoryInv' /\ Conforms
  BY <1>1, <1>5, UseConfigImplements DEF Conforms
<1>6. ASSUME \/ Memory!ReadFamily \/ Memory!CreateFamily
             \/ Memory!BumpGeneration \/ Memory!RevokeFamily,
             UNCHANGED <<used, byId, joined, byEmail, rows, trail, kv>>
      PROVE  MemoryInv' /\ Conforms
  BY <1>1, <1>6, FamiliesImplement DEF Conforms
<1> QED
  BY <1>2, <1>3, <1>4, <1>5, <1>6 DEF Memory!Next

\* Where the doubles stay as they are, the invariant does.
LEMMA MemoryStays ==
  ASSUME MemoryInv, UNCHANGED memoryVars
  PROVE  MemoryInv'
  BY DEF memoryVars, MemoryInv, MemoryTypeOK, IndexIsOfUsers, Unique

\* Whatever calls came before, a call on the in-memory repositories answers what
\* PostgreSQL would, but for the order of list_all, which is backwards, and for an
\* address that is spelt otherwise than its row.
THEOREM MemoryKeepsContract == Memory!Spec => Memory!ImplementsContract
<1>1. Memory!Init => MemoryInv /\ Memory!Contract!Init
  BY MemoryInit
<1>2. MemoryInv /\ [Memory!Next]_(Memory!mvars) => MemoryInv' /\ [Conforms]_(Memory!mvars)
  BY MemoryStep, MemoryStays DEF memoryVars, Memory!mvars
<1> QED
  BY <1>1, <1>2, PTL DEF Memory!Spec, Memory!ImplementsContract, Conforms

-----------------------------------------------------------------------------
(* Explanations *)

\* The lock excludes: who is behind it holds it, and so no two are.
LockExcludes == \A r \in Calls : stage[r] \in {"locked", "building"} <=> holder = r

\* The cache has nothing while somebody builds, ...
BuilderMissed == \A r \in Calls : stage[r] = "building" => ~explainer

\* ... and holds an explainer exactly if it was built.
BuiltIsCached == built = IF explainer THEN 1 ELSE 0

\* The import is known to fail only where shap is not installed.
FailureIsTrue == importFailed => ~setup.installed

\* Requests get as far as the lock only for a tree and with shap, ...
ShapIsWanted(r) == setup.shap /\ Explain!Tree(setup.model)
OnlyTreesLock ==
    \A r \in Calls :
        /\ stage[r] \in {"import", "lock", "locked", "building", "compute"} => ShapIsWanted(r)
        /\ stage[r] \in {"lock", "locked", "building", "compute"} => setup.installed

\* ... and past it only with the explainer, which stays.
OnlyExplainerExplains ==
    \A r \in Calls :
        \/ stage[r] = "compute"
        \/ stage[r] = "replied" /\ reply[r] = "shap"
        => explainer /\ setup.installed /\ ShapIsWanted(r)

ExplainTypeOK ==
    /\ setup \in Explain!Setups
    /\ importFailed \in BOOLEAN /\ explainer \in BOOLEAN
    /\ stage \in [Calls -> {"idle", "begin", "import", "lock", "locked", "building",
                            "compute", "weights", "replied"}]
    /\ reply \in [Calls -> Explain!PanelMethods \cup {"shap", "500", None}]

ExplainInv ==
    /\ ExplainTypeOK /\ LockExcludes /\ BuilderMissed /\ BuiltIsCached /\ FailureIsTrue
    /\ OnlyTreesLock /\ OnlyExplainerExplains

\* The lock is free or held by a request.
LEMMA NoneIsNoCall == None \notin Calls
  BY InstanceAssumption DEF Explain!ConstantsAssumption

\* A service that has just started has explained nothing.
LEMMA ExplainInit == Explain!Init => ExplainInv
  BY NoneIsNoCall
  DEF Explain!Init, ExplainInv, ExplainTypeOK, LockExcludes, BuilderMissed, BuiltIsCached,
      FailureIsTrue, OnlyTreesLock, OnlyExplainerExplains

\* The steps of a request up to the lock.
LEMMA ExplainBegin ==
  ASSUME ExplainInv, NEW r \in Calls,
         \/ Explain!Arrive(r) \/ Explain!Unexplained(r) \/ Explain!Predict(r)
         \/ Explain!Import(r) \/ Explain!Lock(r)
  PROVE  ExplainInv'
<1> USE NoneIsNoCall
    DEF ExplainInv, ExplainTypeOK, LockExcludes, BuilderMissed, BuiltIsCached,
        FailureIsTrue, OnlyTreesLock, OnlyExplainerExplains, ShapIsWanted,
        Explain!Go, Explain!Reply, Explain!shared
<1>1. CASE Explain!Arrive(r)
  BY <1>1 DEF Explain!Arrive
<1>2. CASE Explain!Unexplained(r)
  BY <1>2 DEF Explain!Unexplained, Explain!PanelMethods
<1>3. CASE Explain!Predict(r)
  BY <1>3 DEF Explain!Predict
<1>4. CASE Explain!Import(r)
  BY <1>4 DEF Explain!Import, Explain!Setups
<1>5. CASE Explain!Lock(r)
  BY <1>5 DEF Explain!Lock
<1> QED
  BY <1>1, <1>2, <1>3, <1>4, <1>5

\* The steps under the lock and after it.
LEMMA ExplainLocked ==
  ASSUME ExplainInv, NEW r \in Calls,
         \/ Explain!Cached(r) \/ Explain!Miss(r) \/ Explain!Build(r) \/ Explain!BuildFails(r)
         \/ Explain!ShapValues(r) \/ Explain!ShapFails(r)
  PROVE  ExplainInv'
<1> USE NoneIsNoCall
    DEF ExplainInv, ExplainTypeOK, LockExcludes, BuilderMissed, BuiltIsCached,
        FailureIsTrue, OnlyTreesLock, OnlyExplainerExplains, ShapIsWanted,
        Explain!Go, Explain!Reply, Explain!shared
<1>1. CASE Explain!Cached(r)
  BY <1>1 DEF Explain!Cached
<1>2. CASE Explain!Miss(r)
  BY <1>2 DEF Explain!Miss
<1>3. CASE Explain!Build(r)
  BY <1>3 DEF Explain!Build
<1>4. CASE Explain!BuildFails(r)
  BY <1>4 DEF Explain!BuildFails
<1>5. CASE Explain!ShapValues(r)
  BY <1>5 DEF Explain!ShapValues
<1>6. CASE Explain!ShapFails(r)
  BY <1>6 DEF Explain!ShapFails
<1> QED
  BY <1>1, <1>2, <1>3, <1>4, <1>5, <1>6

\* The fall-back, and what the panel makes of an answer.
LEMMA ExplainEnd ==
  ASSUME ExplainInv, NEW r \in Calls,
         Explain!Weights(r) \/ Explain!Show(r) \/ Explain!GiveUp(r)
  PROVE  ExplainInv'
<1> USE NoneIsNoCall
    DEF ExplainInv, ExplainTypeOK, LockExcludes, BuilderMissed, BuiltIsCached,
        FailureIsTrue, OnlyTreesLock, OnlyExplainerExplains, ShapIsWanted,
        Explain!Go, Explain!Reply, Explain!shared
<1>1. CASE Explain!Weights(r)
  <2>1. Explain!WeightsOf(setup.model) \in Explain!PanelMethods
    BY DEF Explain!WeightsOf, Explain!PanelMethods
  <2>2. PICK m \in Explain!PanelMethods \cup {"500"} : Explain!Reply(r, m)
    BY <1>1, <2>1 DEF Explain!Weights
  <2>3. m # "shap"
    BY DEF Explain!PanelMethods
  <2> QED
    BY <1>1, <2>2, <2>3 DEF Explain!Weights
<1>2. CASE Explain!Show(r)
  BY <1>2 DEF Explain!Show
<1>3. CASE Explain!GiveUp(r)
  BY <1>3 DEF Explain!GiveUp
<1> QED
  BY <1>1, <1>2, <1>3

\* A restart drops the explainer and every request with it.
LEMMA ExplainStep == ExplainInv /\ [Explain!Next]_explainVars => ExplainInv'
<1> SUFFICES ASSUME ExplainInv, [Explain!Next]_explainVars
             PROVE  ExplainInv'
  OBVIOUS
<1>1. ASSUME NEW r \in Calls, Explain!Explain(r)
      PROVE  ExplainInv'
  BY <1>1, ExplainBegin, ExplainLocked, ExplainEnd DEF Explain!Explain
<1>2. CASE Explain!Restart
  <2>1. setup' \in Explain!Setups
    BY <1>2 DEF Explain!Restart, Explain!Setups, ExplainInv, ExplainTypeOK
  <2> QED
    BY <1>2, <2>1, NoneIsNoCall
    DEF Explain!Restart, ExplainInv, ExplainTypeOK, LockExcludes, BuilderMissed,
        BuiltIsCached, FailureIsTrue, OnlyTreesLock, OnlyExplainerExplains
<1>3. CASE UNCHANGED explainVars
  BY <1>3
  DEF explainVars, ExplainInv, ExplainTypeOK, LockExcludes, BuilderMissed, BuiltIsCached,
      FailureIsTrue, OnlyTreesLock, OnlyExplainerExplains, ShapIsWanted
<1> QED
  BY <1>1, <1>2, <1>3 DEF Explain!Next

\* A model artefact builds its explainer at most once (shap_explainer.py), and an
\* answer that claims SHAP was given by it, whatever the number of worker threads.
THEOREM ExplainerIsOne == Explain!Spec => []OneExplainer
<1>1. [Explain!Next]_(Explain!evars) => [Explain!Next]_explainVars
  BY DEF Explain!evars, explainVars
<1>2. ExplainInv => OneExplainer
  BY DEF ExplainInv, OneExplainer, Explain!OneExplainer, ExplainTypeOK, LockExcludes,
         BuilderMissed, BuiltIsCached, FailureIsTrue, OnlyExplainerExplains, ShapIsWanted
<1> QED
  BY ExplainInit, ExplainStep, <1>1, <1>2, PTL DEF Explain!Spec

-----------------------------------------------------------------------------
(* The run of MCComponents, where one of the components moves *)

someVars == <<running, vars, thresholdVars, calibrationVars, sessionVars, notifierVars,
              benchVars, memoryVars, explainVars>>

\* A component that is not the one chosen stays as it is: a behaviour of the run is one
\* of each component.
LEMMA RunIsOfEach ==
  SomeSpec => /\ Spec /\ SessionSpec
              /\ Threshold!Spec /\ Calibration!Spec /\ Notify!Spec
              /\ Bench!Spec /\ Memory!Spec /\ Explain!Spec
<1>1. SomeInit => /\ Init /\ SessionInit
                  /\ Threshold!Init /\ Calibration!Init /\ Notify!Init
                  /\ Bench!Init /\ Memory!Init /\ Explain!Init
  BY DEF SomeInit
<1>2. [SomeNext]_someVars => [Threshold!Next]_(Threshold!vars)
  BY DEF SomeNext, Others, someVars, thresholdVars, Threshold!vars
<1>3. [SomeNext]_someVars => [Calibration!Next]_(Calibration!cvars)
  BY DEF SomeNext, Others, someVars, calibrationVars, Calibration!cvars
<1>4. [SomeNext]_someVars => [Notify!Next]_(Notify!nvars)
  BY DEF SomeNext, Others, someVars, notifierVars, Notify!nvars
<1>5. [SomeNext]_someVars => [Bench!Next]_(Bench!bvars)
  BY DEF SomeNext, Others, someVars, benchVars, Bench!bvars
<1>6. [SomeNext]_someVars => [Memory!Next]_(Memory!mvars)
  BY DEF SomeNext, Others, someVars, memoryVars, Memory!mvars
<1>7. [SomeNext]_someVars => [Explain!Next]_(Explain!evars)
  BY DEF SomeNext, Others, someVars, explainVars, Explain!evars
<1>8. [SomeNext]_someVars => [Next]_vars
  BY DEF SomeNext, Others, someVars, vars
<1>9. [SomeNext]_someVars => [SessionNext]_sessionVars
  BY DEF SomeNext, Others, someVars, sessionVars
<1> QED
  BY <1>1, <1>2, <1>3, <1>4, <1>5, <1>6, <1>7, <1>8, <1>9, PTL
  DEF SomeSpec, someVars, Spec, SessionSpec, Threshold!Spec, Calibration!Spec, Notify!Spec, Bench!Spec,
      Memory!Spec, Explain!Spec

\* What MCComponents checks of the other five on a small instance, for every one.
THEOREM RunKeepsPromises ==
  SomeSpec => [](/\ AnswersAreStored /\ GateKeepsBudget /\ BudgetBuysRecall
                 /\ CooldownHolds /\ PassIsProtection /\ OneExplainer)
  BY RunIsOfEach, AnsweredPutsAreStored, GateIsWithinBudget, RecallWithinBudget,
     CooldownIsKept, PassIsEarned, ExplainerIsOne, PTL

\* And what it checks of the doubles: the run leaves the contract alone while another
\* component moves.
THEOREM DoublesKeepContract == SomeSpec => ImplementsContract
<1>1. SomeInit => MemoryInv /\ Memory!Contract!Init
  BY MemoryInit DEF SomeInit
<1>2. MemoryInv /\ [SomeNext]_someVars
         => MemoryInv' /\ [running = "memory" => Conforms]_memoryVars
  <2> SUFFICES ASSUME MemoryInv, [SomeNext]_someVars
               PROVE  MemoryInv' /\ [running = "memory" => Conforms]_memoryVars
    OBVIOUS
  <2>1. CASE Memory!Next
    BY <2>1, MemoryStep
  <2>2. CASE UNCHANGED memoryVars
    BY <2>2, MemoryStays
  <2> QED
    BY <2>1, <2>2 DEF SomeNext, Others, someVars
<1> QED
  BY <1>1, <1>2, PTL DEF SomeSpec, someVars, ImplementsContract, Conforms
==============================================================================
