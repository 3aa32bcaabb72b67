-------------------------- MODULE LoginSessionProofs -------------------------
(***************************************************************************)
(* Theorems about the panel's sign-in: LoginRateLimit, for any limit, window *)
(* and set of accounts, and BrowserSession, for any number of tabs, of calls *)
(* in flight and of tokens.                                                  *)
(***************************************************************************)
EXTENDS LoginRateLimit, BrowserSession, SequenceTheorems, TLAPS

-----------------------------------------------------------------------------
(* LoginRateLimit.  The deque is the tail of the attempts that were permitted: *)
(* Linked says so, Past that what is missing in front is older than the window. *)

\* How many of the permitted attempts of a have left its deque.
Gone(a) == Len(granted[a]) - Len(bucket[a])

Linked ==
    \A a \in Accounts :
        /\ Gone(a) >= 0
        /\ \A i \in 1..Len(bucket[a]) : bucket[a][i] = granted[a][Gone(a) + i]

Past == \A a \in Accounts : \A i \in 1..Gone(a) : granted[a][i] < now - Window

Sorted ==
    \A a \in Accounts : \A i, j \in 1..Len(granted[a]) :
        /\ granted[a][i] <= now
        /\ i <= j => granted[a][i] <= granted[a][j]

Short == \A a \in Accounts : Len(bucket[a]) <= MaxHits

\* After a refusal the deque stays full as long as the clock stands still.
StaysFull ==
    \A a \in Accounts :
        /\ refused[a] <= now
        /\ refused[a] = now =>
            Len(bucket[a]) = MaxHits /\ bucket[a][1] >= now - Window

LimitInv == TypeOK /\ Linked /\ Past /\ Sorted /\ Short /\ StaysFull /\ LimitHolds

-----------------------------------------------------------------------------
\* A panel that has just started satisfies the invariant.
LEMMA LimitInit == Init => LimitInv
  BY ConstantsAssumption
  DEF Init, LimitInv, TypeOK, Linked, Past, Sorted, Short, StaysFull, LimitHolds, Gone

\* What is in a sequence of times.
LEMMA Times ==
  ASSUME NEW s \in Seq(0..MaxTime)
  PROVE  /\ s \in Seq(Int) /\ Len(s) \in Nat
         /\ \A i \in 1..Len(s) : s[i] \in 0..MaxTime /\ s[i] \in Int
<1>1. \A i \in 1..Len(s) : s[i] \in 0..MaxTime /\ Len(s) \in Nat
  BY ElementOfSeq, LenProperties
<1>2. \A i \in 0..MaxTime : i \in Int
  OBVIOUS
<1> QED BY <1>1, <1>2, LenProperties

\* The loop of check: it pops exactly what is older than the window, because
\* times in the deque never decrease.
LEMMA LoopPopsThePast ==
  ASSUME LimitInv, NEW a \in Accounts, NEW n \in 0..Len(bucket[a]),
         Expired(bucket[a]) = 1..n
  PROVE  /\ \A i \in 1..n : bucket[a][i] < now - Window
         /\ \A i \in (n + 1)..Len(bucket[a]) : bucket[a][i] >= now - Window
<1>1. bucket[a] \in Seq(0..MaxTime) /\ Len(bucket[a]) \in Nat
  BY DEF LimitInv, TypeOK
<1>2. ASSUME NEW i \in 1..n PROVE bucket[a][i] < now - Window
  <2>1. i \in Expired(bucket[a]) BY <1>2
  <2> QED BY <2>1 DEF Expired
<1>3. \A i, j \in 1..Len(bucket[a]) : i <= j => bucket[a][i] <= bucket[a][j]
  <2> SUFFICES ASSUME NEW i \in 1..Len(bucket[a]), NEW j \in 1..Len(bucket[a]), i <= j
               PROVE bucket[a][i] <= bucket[a][j]
    OBVIOUS
  <2>1. /\ granted[a] \in Seq(0..MaxTime) /\ Len(granted[a]) \in Nat
        /\ Gone(a) \in Int /\ Gone(a) >= 0
        /\ bucket[a][i] = granted[a][Gone(a) + i]
        /\ bucket[a][j] = granted[a][Gone(a) + j]
    BY <1>1 DEF LimitInv, TypeOK, Linked, Gone
  <2>2. Gone(a) + Len(bucket[a]) = Len(granted[a])
    BY <1>1, <2>1 DEF Gone
  <2>3. Gone(a) + i \in 1..Len(granted[a]) /\ Gone(a) + j \in 1..Len(granted[a])
    BY <1>1, <2>1, <2>2
  <2> QED BY <2>1, <2>3 DEF LimitInv, Sorted
<1>4. ASSUME NEW i \in (n + 1)..Len(bucket[a]), bucket[a][i] < now - Window
      PROVE FALSE
  <2>1. n + 1 \in 1..Len(bucket[a]) BY <1>1, <1>4
  <2>2. now \in Int /\ Window \in Int /\ \A m \in 1..Len(bucket[a]) : bucket[a][m] \in Int
    BY <1>1, ConstantsAssumption DEF LimitInv, TypeOK
  <2>3. bucket[a][n + 1] < now - Window
    BY <1>3, <1>4, <2>1, <2>2
  <2>4. \A m \in 1..(n + 1) : bucket[a][m] < now - Window
    BY <1>2, <2>3
  <2>5. n + 1 \in Expired(bucket[a]) BY <2>1, <2>4 DEF Expired
  <2> QED BY <2>5
<1>5. now \in Int /\ Window \in Int /\ \A m \in 1..Len(bucket[a]) : bucket[a][m] \in Int
  BY <1>1, ConstantsAssumption DEF LimitInv, TypeOK
<1> QED BY <1>1, <1>2, <1>4, <1>5

\* What a call of check does to one deque and its history, said without the
\* deque's own indices: n entries are gone from its front.
LEMMA CheckEffect ==
  ASSUME LimitInv, NEW a \in Accounts, NEW n \in 0..Len(bucket[a]),
         Expired(bucket[a]) = 1..n
  PROVE  /\ Kept(bucket[a], n) \in Seq(0..MaxTime)
         /\ Len(Kept(bucket[a], n)) = Len(bucket[a]) - n
         /\ \A i \in 1..(Len(bucket[a]) - n) :
                /\ Kept(bucket[a], n)[i] = granted[a][Gone(a) + n + i]
                /\ Kept(bucket[a], n)[i] >= now - Window
         /\ \A i \in 1..(Gone(a) + n) : granted[a][i] < now - Window
         /\ Gone(a) \in Nat
         /\ Gone(a) + Len(bucket[a]) = Len(granted[a])
<1>1. /\ bucket[a] \in Seq(0..MaxTime) /\ Len(bucket[a]) \in Nat
      /\ granted[a] \in Seq(0..MaxTime) /\ Len(granted[a]) \in Nat
      /\ now \in Int /\ Window \in Int
  BY ConstantsAssumption DEF LimitInv, TypeOK
<1>2. Gone(a) \in Nat /\ Gone(a) + Len(bucket[a]) = Len(granted[a])
  <2>1. Gone(a) >= 0 BY DEF LimitInv, Linked
  <2>2. Gone(a) = Len(granted[a]) - Len(bucket[a]) BY DEF Gone
  <2> QED BY <1>1, <2>1, <2>2
<1>3. /\ Kept(bucket[a], n) \in Seq(0..MaxTime)
      /\ Len(Kept(bucket[a], n)) = Len(bucket[a]) - n
      /\ \A i \in 1..(Len(bucket[a]) - n) :
            Kept(bucket[a], n)[i] = bucket[a][n + i]
  <2> DEFINE b == bucket[a]
  <2> HIDE DEF b
  <2>1. b \in Seq(0..MaxTime) /\ Len(b) \in Nat /\ n \in 0..Len(b)
    BY <1>1 DEF b
  <2> DEFINE m == n + 1
             l == Len(b)
  <2>2. m \in Int /\ l \in Int /\ \A i \in m..l : b[i] \in 0..MaxTime
    <3>1. \A i \in 1..Len(b) : b[i] \in 0..MaxTime BY <2>1, Times
    <3>2. \A i \in m..l : i \in 1..Len(b) BY <2>1
    <3> QED BY <2>1, <3>1, <3>2
  <2>4. /\ SubSeq(b, m, l) \in Seq(0..MaxTime)
        /\ Len(SubSeq(b, m, l)) = IF m <= l THEN l - m + 1 ELSE 0
        /\ \A i \in 1..(l - m + 1) : SubSeq(b, m, l)[i] = b[m + i - 1]
    <3> HIDE DEF m, l
    <3> QED BY <2>2, SubSeqProperties
  <2>5. l - m + 1 = l - n /\ (m <= l \/ l - n = 0)
        /\ \A i \in 1..(l - n) : m + i - 1 = n + i
    BY <2>1
  <2>3. /\ SubSeq(b, n + 1, Len(b)) \in Seq(0..MaxTime)
        /\ Len(SubSeq(b, n + 1, Len(b))) = Len(b) - n
        /\ \A i \in 1..(Len(b) - n) : SubSeq(b, n + 1, Len(b))[i] = b[n + i]
    BY <2>1, <2>4, <2>5
  <2> QED BY <2>3 DEF b, Kept
<1>4. ASSUME NEW i \in 1..(Len(bucket[a]) - n)
      PROVE  /\ Kept(bucket[a], n)[i] = granted[a][Gone(a) + n + i]
             /\ Kept(bucket[a], n)[i] >= now - Window
  <2>1. n + i \in 1..Len(bucket[a]) /\ n + i \in (n + 1)..Len(bucket[a])
    BY <1>1, <1>4
  <2>2. bucket[a][n + i] = granted[a][Gone(a) + (n + i)]
    BY <2>1 DEF LimitInv, Linked
  <2>3. bucket[a][n + i] >= now - Window
    BY <2>1, LoopPopsThePast
  <2>4. Gone(a) + (n + i) = Gone(a) + n + i
    BY <1>1, <1>2
  <2> QED BY <1>3, <2>2, <2>3, <2>4
<1>5. ASSUME NEW i \in 1..(Gone(a) + n) PROVE granted[a][i] < now - Window
  <2>1. CASE i <= Gone(a)
    <3>1. i \in 1..Gone(a) BY <1>2, <2>1
    <3> QED BY <3>1 DEF LimitInv, Past
  <2>2. CASE i > Gone(a)
    <3>1. i - Gone(a) \in 1..n /\ i - Gone(a) \in 1..Len(bucket[a])
          /\ Gone(a) + (i - Gone(a)) = i
      BY <1>1, <1>2, <2>2
    <3>2. bucket[a][i - Gone(a)] = granted[a][i]
      BY <3>1 DEF LimitInv, Linked
    <3>3. bucket[a][i - Gone(a)] < now - Window
      BY <3>1, LoopPopsThePast
    <3> QED BY <3>2, <3>3
  <2> QED BY <1>2, <2>1, <2>2
<1> QED BY <1>2, <1>3, <1>4, <1>5

\* A permitted call appends the clock to the deque and to the history: there
\* were fewer than MaxHits entries left in the window.
LEMMA Permit ==
  ASSUME LimitInv, NEW a \in Accounts, NEW n \in 0..Len(bucket[a]),
         Expired(bucket[a]) = 1..n, ~Full(Kept(bucket[a], n)),
         bucket' = [bucket EXCEPT ![a] = Append(Kept(bucket[a], n), now)],
         granted' = [granted EXCEPT ![a] = Append(granted[a], now)],
         UNCHANGED <<now, refused>>
  PROVE  LimitInv'
<1> DEFINE kept == Kept(bucket[a], n)
           g == granted[a]
<1>1. /\ Len(kept) \in Nat /\ Len(g) \in Nat /\ Gone(a) \in Nat
      /\ Gone(a) + n + Len(kept) = Len(g)
      /\ now \in Nat /\ MaxHits \in Nat \ {0} /\ Window \in Nat \ {0}
      /\ Len(bucket[a]) \in Nat /\ n \in Nat
  <2>1. bucket[a] \in Seq(0..MaxTime) /\ g \in Seq(0..MaxTime) /\ kept \in Seq(0..MaxTime)
    BY CheckEffect DEF LimitInv, TypeOK
  <2>2. Len(kept) = Len(bucket[a]) - n /\ Gone(a) + Len(bucket[a]) = Len(g)
    BY CheckEffect
  <2>3. Gone(a) \in Nat BY CheckEffect
  <2>4. Len(bucket[a]) \in Nat /\ Len(g) \in Nat /\ Len(kept) \in Nat BY <2>1
  <2>5. now \in Nat BY ConstantsAssumption DEF LimitInv, TypeOK
  <2>6. n \in Nat BY <2>4
  <2> QED BY <2>2, <2>3, <2>4, <2>5, <2>6, ConstantsAssumption
<1>2. \A i \in 1..Len(kept) :
        kept[i] = g[Gone(a) + n + i] /\ kept[i] >= now - Window
  <2>1. Len(kept) = Len(bucket[a]) - n BY CheckEffect
  <2> QED BY <2>1, CheckEffect
<1>3. \A i \in 1..(Gone(a) + n) : g[i] < now - Window
  BY CheckEffect
<1>4. Len(kept) < MaxHits
  BY <1>1 DEF Full
<1>5. /\ bucket'[a] = Append(kept, now) /\ granted'[a] = Append(g, now)
      /\ now' = now /\ refused' = refused
      /\ bucket' \in [Accounts -> Seq(0..MaxTime)]
      /\ granted' \in [Accounts -> Seq(0..MaxTime)]
      /\ \A c \in Accounts \ {a} : bucket'[c] = bucket[c] /\ granted'[c] = granted[c]
  <2>1. kept \in Seq(0..MaxTime) /\ g \in Seq(0..MaxTime) /\ now \in 0..MaxTime
    BY CheckEffect DEF LimitInv, TypeOK
  <2>2. Append(kept, now) \in Seq(0..MaxTime) /\ Append(g, now) \in Seq(0..MaxTime)
    BY <2>1, AppendProperties
  <2> QED BY <2>2 DEF LimitInv, TypeOK
<1>6. /\ kept \in Seq(Int) /\ g \in Seq(Int) /\ now \in Int
      /\ \A i \in 1..Len(g) : g[i] \in Int
  <2>1. kept \in Seq(0..MaxTime) /\ g \in Seq(0..MaxTime) /\ now \in 0..MaxTime
    BY CheckEffect DEF LimitInv, TypeOK
  <2> QED BY <2>1, Times
<1>9. \A i, j \in 1..Len(g) : g[i] <= now /\ (i <= j => g[i] <= g[j])
  BY DEF LimitInv, Sorted
<1>20. Len(granted[a]) = Len(g) /\ \A i \in 1..(Len(g) - MaxHits) : g[i + MaxHits] - g[i] > Window
  BY DEF LimitInv, LimitHolds
<1> DEFINE bn == bucket'[a]
           gn == granted'[a]
           h == Gone(a)
           t == now
<1> HIDE DEF kept, g, bn, gn, h, t
<1>17. /\ Len(bn) = Len(kept) + 1 /\ bn[Len(kept) + 1] = t
       /\ \A i \in 1..Len(kept) : bn[i] = kept[i]
       /\ Len(gn) = Len(g) + 1 /\ gn[Len(g) + 1] = t
       /\ \A i \in 1..Len(g) : gn[i] = g[i]
  <2>1. bn = Append(kept, t) /\ gn = Append(g, t) /\ t \in Int
    BY <1>5, <1>6 DEF bn, gn, t
  <2> QED BY <1>6, <2>1, AppendProperties
<1> DEFINE l == Len(g)
           p == Len(kept)
<1>18. /\ l \in Nat /\ p \in Nat /\ h \in Nat /\ n \in Nat /\ t \in Nat
       /\ h + n + p = l /\ p < MaxHits
       /\ MaxHits \in Nat \ {0} /\ Window \in Nat \ {0}
       /\ \A i \in 1..p : kept[i] = g[h + n + i]
       /\ \A i \in 1..(h + n) : g[i] < t - Window
  BY <1>1, <1>2, <1>3, <1>4 DEF h, t
<1>19. /\ \A i \in 1..l : g[i] \in Int
       /\ \A i, j \in 1..l : g[i] <= t /\ (i <= j => g[i] <= g[j])
       /\ \A i \in 1..(l - MaxHits) : g[i + MaxHits] - g[i] > Window
       /\ Len(bn) = p + 1 /\ bn[p + 1] = t
       /\ \A i \in 1..p : bn[i] = kept[i]
       /\ Len(gn) = l + 1 /\ gn[l + 1] = t
       /\ \A i \in 1..l : gn[i] = g[i]
  BY <1>6, <1>9, <1>17, <1>20 DEF t
<1>7. Gone(a)' = h + n
  <2>1. Gone(a)' = Len(gn) - Len(bn) BY DEF Gone, gn, bn
  <2> HIDE DEF l, p
  <2> QED BY <2>1, <1>18, <1>19
<1>8. \A c \in Accounts \ {a} : Gone(c)' = Gone(c)
  BY <1>5 DEF Gone
<1>10. TypeOK'
  BY <1>5 DEF LimitInv, TypeOK
<1>11. Linked'
  <2>1. \A i \in 1..(p + 1) : bn[i] = gn[h + n + i]
    <3> HIDE DEF l, p
    <3> SUFFICES ASSUME NEW i \in 1..(p + 1) PROVE bn[i] = gn[h + n + i]
      OBVIOUS
    <3>1. CASE i \in 1..p
      <4>1. h + n + i \in 1..l BY <1>18, <3>1
      <4> QED BY <1>18, <1>19, <3>1, <4>1
    <3>2. CASE i = p + 1
      <4>1. h + n + i = l + 1 BY <1>18, <3>2
      <4> QED BY <1>19, <3>2, <4>1
    <3> QED BY <1>18, <3>1, <3>2
  <2>2. Gone(a)' >= 0 BY <1>7, <1>18
  <2>3. \A i \in 1..Len(bucket'[a]) : bucket'[a][i] = granted'[a][Gone(a)' + i]
    BY <1>7, <1>19, <2>1 DEF bn, gn
  <2>4. ASSUME NEW c \in Accounts \ {a}
        PROVE  /\ Gone(c)' >= 0
               /\ \A i \in 1..Len(bucket'[c]) : bucket'[c][i] = granted'[c][Gone(c)' + i]
    BY <1>5, <1>8 DEF LimitInv, Linked
  <2> QED BY <2>2, <2>3, <2>4 DEF Linked
<1>12. Past'
  <2>1. \A i \in 1..(h + n) : gn[i] < t - Window
    <3> HIDE DEF l, p
    <3>1. \A i \in 1..(h + n) : i \in 1..l BY <1>18
    <3> QED BY <1>18, <1>19, <3>1
  <2>2. \A i \in 1..Gone(a)' : granted'[a][i] < now' - Window
    BY <1>5, <1>7, <2>1 DEF gn, t
  <2> QED BY <1>5, <1>8, <2>2 DEF LimitInv, Past
<1>13. Sorted'
  <2>1. \A i, j \in 1..Len(gn) : gn[i] <= t /\ (i <= j => gn[i] <= gn[j])
    <3> HIDE DEF l, p
    <3> SUFFICES ASSUME NEW i \in 1..(l + 1), NEW j \in 1..(l + 1)
                 PROVE  gn[i] <= t /\ (i <= j => gn[i] <= gn[j])
      BY <1>19
    <3>1. i \in 1..l \/ i = l + 1 BY <1>18
    <3>2. j \in 1..l \/ j = l + 1 BY <1>18
    <3>3. CASE i \in 1..l /\ j \in 1..l BY <1>19, <3>3
    <3>4. CASE i \in 1..l /\ j = l + 1 BY <1>19, <3>4
    <3>5. CASE i = l + 1 /\ j \in 1..l BY <1>18, <1>19, <3>5
    <3>6. CASE i = l + 1 /\ j = l + 1 BY <1>18, <1>19, <3>6
    <3> QED BY <3>1, <3>2, <3>3, <3>4, <3>5, <3>6
  <2>2. \A i, j \in 1..Len(granted'[a]) :
            granted'[a][i] <= now' /\ (i <= j => granted'[a][i] <= granted'[a][j])
    BY <1>5, <2>1 DEF gn, t
  <2> QED BY <1>5, <2>2 DEF LimitInv, Sorted
<1>14. Short'
  <2>1. Len(bucket'[a]) <= MaxHits
    <3>1. Len(bn) <= MaxHits
      <4> HIDE DEF l, p
      <4> QED BY <1>18, <1>19
    <3> QED BY <3>1 DEF bn
  <2> QED BY <1>5, <2>1 DEF LimitInv, Short
<1>15. StaysFull'
  <2>1. refused[a] # now
    <3> SUFFICES ASSUME refused[a] = now PROVE FALSE
      OBVIOUS
    <3>1. Len(bucket[a]) = MaxHits /\ bucket[a][1] >= now - Window
      BY DEF LimitInv, StaysFull
    <3>2. n = 0
      <4> SUFFICES ASSUME n # 0 PROVE FALSE OBVIOUS
      <4>1. 1 \in 1..n BY <1>1
      <4>2. bucket[a][1] < now - Window BY <4>1, LoopPopsThePast
      <4>3. bucket[a][1] \in Int
        <5>1. bucket[a] \in Seq(0..MaxTime) BY DEF LimitInv, TypeOK
        <5>2. 1 \in 1..Len(bucket[a]) BY <1>1, <3>1
        <5> QED BY <5>1, <5>2, Times
      <4> QED BY <1>1, <3>1, <4>2, <4>3
    <3>3. Len(kept) = Len(bucket[a]) - n BY CheckEffect DEF kept
    <3> QED BY <1>1, <1>4, <3>1, <3>2, <3>3
  <2> QED BY <1>5, <2>1 DEF LimitInv, StaysFull
<1>16. LimitHolds'
  <2>2. \A i \in 1..(Len(gn) - MaxHits) : gn[i + MaxHits] - gn[i] > Window
    <3> HIDE DEF l, p
    <3>3. Len(gn) = l + 1 BY <1>19
    <3> SUFFICES ASSUME NEW i \in 1..(Len(gn) - MaxHits)
                 PROVE  gn[i + MaxHits] - gn[i] > Window
      OBVIOUS
    <3>4. i \in 1..(l + 1 - MaxHits) BY <1>18, <3>3
    <3>1. CASE i + MaxHits <= l
      <4>1. i \in 1..(l - MaxHits) /\ i \in 1..l /\ i + MaxHits \in 1..l
        BY <1>18, <3>1, <3>4
      <4> QED BY <1>19, <4>1
    <3>2. CASE i + MaxHits = l + 1
      <4>1. i \in 1..(h + n) /\ i \in 1..l BY <1>18, <3>2, <3>4
      <4>2. g[i] \in Int /\ gn[i] = g[i] /\ g[i] < t - Window /\ gn[i + MaxHits] = t
        BY <1>18, <1>19, <3>2, <4>1
      <4> QED BY <1>18, <4>2
    <3> QED BY <1>18, <3>1, <3>2, <3>4
  <2>3. \A i \in 1..(Len(granted'[a]) - MaxHits) :
            granted'[a][i + MaxHits] - granted'[a][i] > Window
    BY <2>2 DEF gn
  <2> QED BY <1>5, <2>3 DEF LimitInv, LimitHolds
<1> QED BY <1>10, <1>11, <1>12, <1>13, <1>14, <1>15, <1>16 DEF LimitInv

\* A refused call leaves a deque of exactly MaxHits times within the window.
LEMMA Refuse ==
  ASSUME LimitInv, NEW a \in Accounts, NEW n \in 0..Len(bucket[a]),
         Expired(bucket[a]) = 1..n, Full(Kept(bucket[a], n)),
         bucket' = [bucket EXCEPT ![a] = Kept(bucket[a], n)],
         refused' = [refused EXCEPT ![a] = now],
         UNCHANGED <<now, granted>>
  PROVE  LimitInv'
<1> DEFINE kept == Kept(bucket[a], n)
           h == Gone(a)
<1>1. /\ Len(kept) \in Nat /\ h \in Nat /\ n \in Nat
      /\ h + n + Len(kept) = Len(granted[a]) /\ Len(granted[a]) \in Nat
      /\ Len(kept) = Len(bucket[a]) - n /\ Len(bucket[a]) \in Nat
      /\ Len(granted[a]) - Len(kept) = h + n
  <2>1. /\ kept \in Seq(0..MaxTime) /\ Len(kept) = Len(bucket[a]) - n
        /\ h \in Nat /\ h + Len(bucket[a]) = Len(granted[a])
    BY CheckEffect
  <2>2. bucket[a] \in Seq(0..MaxTime) /\ granted[a] \in Seq(0..MaxTime)
    BY DEF LimitInv, TypeOK
  <2>3. Len(bucket[a]) \in Nat /\ Len(granted[a]) \in Nat /\ Len(kept) \in Nat
    BY <2>1, <2>2, Times
  <2>4. n \in Nat BY <2>3
  <2> DEFINE lk == Len(kept)
             lb == Len(bucket[a])
             lg == Len(granted[a])
  <2>5. /\ lk \in Nat /\ lb \in Nat /\ lg \in Nat /\ h \in Nat /\ n \in Nat
        /\ lk = lb - n /\ h + lb = lg
    BY <2>1, <2>3, <2>4
  <2>6. h + n + lk = lg /\ lg - lk = h + n
    <3> HIDE DEF lk, lb, lg, h
    <3> QED BY <2>5
  <2> QED BY <2>5, <2>6
<1>2. \A i \in 1..Len(kept) :
        kept[i] = granted[a][h + n + i] /\ kept[i] >= now - Window
  BY <1>1, CheckEffect
<1>3. \A i \in 1..(h + n) : granted[a][i] < now - Window
  BY CheckEffect
<1>4. /\ now \in 0..MaxTime /\ now \in Int
      /\ MaxHits \in Nat /\ MaxHits > 0 /\ Window \in Int
  BY ConstantsAssumption DEF LimitInv, TypeOK
<1> HIDE DEF kept, h
<1>5. /\ bucket'[a] = kept /\ refused'[a] = now /\ now' = now /\ granted' = granted
      /\ \A c \in Accounts \ {a} : bucket'[c] = bucket[c] /\ refused'[c] = refused[c]
  BY DEF LimitInv, TypeOK, kept
<1>6. Len(kept) = MaxHits
  <2>1. Len(kept) >= MaxHits BY DEF Full, kept
  <2>2. Len(bucket[a]) <= MaxHits BY DEF LimitInv, Short
  <2> QED BY <1>1, <1>4, <2>1, <2>2
<1>7. Gone(a)' = h + n
  <2>1. Gone(a)' = Len(granted[a]) - Len(kept) BY <1>5 DEF Gone
  <2> QED BY <1>1, <2>1, Zenon
<1>8. \A c \in Accounts \ {a} : Gone(c)' = Gone(c)
  BY <1>5 DEF Gone
<1>10. TypeOK'
  <2>1. kept \in Seq(0..MaxTime) BY CheckEffect DEF kept
  <2> QED BY <1>4, <2>1 DEF LimitInv, TypeOK, kept
<1>11. Linked'
  <2>1. Gone(a)' >= 0 BY <1>1, <1>7
  <2>3. \A i \in 1..Len(bucket'[a]) : bucket'[a][i] = granted'[a][Gone(a)' + i]
    BY <1>2, <1>5, <1>7, Zenon
  <2>2. ASSUME NEW c \in Accounts \ {a}
        PROVE  /\ Gone(c)' >= 0
               /\ \A i \in 1..Len(bucket'[c]) : bucket'[c][i] = granted'[c][Gone(c)' + i]
    BY <1>5, <1>8 DEF LimitInv, Linked
  <2> QED BY <2>1, <2>2, <2>3 DEF Linked
<1>12. Past'
  <2>1. \A i \in 1..Gone(a)' : granted'[a][i] < now' - Window
    BY <1>3, <1>5, <1>7
  <2> QED BY <1>5, <1>8, <2>1 DEF LimitInv, Past
<1>13. Sorted' /\ LimitHolds'
  BY <1>5 DEF LimitInv, Sorted, LimitHolds
<1>14. Short'
  BY <1>4, <1>5, <1>6 DEF LimitInv, Short
<1>15. StaysFull'
  <2>1. 1 \in 1..Len(kept) BY <1>4, <1>6
  <2>2. kept[1] >= now - Window BY <1>2, <2>1
  <2> QED BY <1>4, <1>5, <1>6, <2>2 DEF LimitInv, StaysFull
<1> QED BY <1>10, <1>11, <1>12, <1>13, <1>14, <1>15 DEF LimitInv

\* The clock only makes past times older.
LEMMA Passing == LimitInv /\ Tick => LimitInv'
<1> SUFFICES ASSUME LimitInv, Tick PROVE LimitInv'
  OBVIOUS
<1>1. now \in Int /\ now' = now + 1 /\ now' \in 0..MaxTime /\ Window \in Int
  BY ConstantsAssumption DEF LimitInv, TypeOK, Tick
<1>2. bucket' = bucket /\ granted' = granted /\ refused' = refused
  BY DEF Tick
<1>3. \A c \in Accounts : Gone(c)' = Gone(c)
  BY <1>2 DEF Gone
<1>4. \A c \in Accounts : \A i \in 1..Len(granted[c]) : granted[c][i] \in Int
  <2> TAKE c \in Accounts
  <2>1. granted[c] \in Seq(0..MaxTime) BY DEF LimitInv, TypeOK
  <2> QED BY <2>1, Times
<1>5. TypeOK'
  BY <1>1, <1>2 DEF LimitInv, TypeOK
<1>6. Linked'
  BY <1>2, <1>3 DEF LimitInv, Linked
<1>7. Past'
  <2> SUFFICES ASSUME NEW c \in Accounts, NEW i \in 1..Gone(c)
               PROVE  granted[c][i] < now + 1 - Window
    BY <1>1, <1>2, <1>3 DEF Past
  <2>1. granted[c][i] < now - Window BY DEF LimitInv, Past
  <2>2. i \in 1..Len(granted[c])
    <3>1. /\ Len(granted[c]) \in Nat /\ Len(bucket[c]) \in Nat
          /\ Gone(c) = Len(granted[c]) - Len(bucket[c])
      <4>1. granted[c] \in Seq(0..MaxTime) /\ bucket[c] \in Seq(0..MaxTime)
        BY DEF LimitInv, TypeOK
      <4> QED BY <4>1, Times DEF Gone
    <3> QED BY <3>1
  <2>3. granted[c][i] \in Int BY <1>4, <2>2
  <2> QED BY <1>1, <2>1, <2>3
<1>8. Sorted'
  <2> SUFFICES ASSUME NEW c \in Accounts,
                      NEW i \in 1..Len(granted[c]), NEW j \in 1..Len(granted[c])
               PROVE  /\ granted[c][i] <= now + 1
                      /\ i <= j => granted[c][i] <= granted[c][j]
    BY <1>1, <1>2 DEF Sorted
  <2>1. granted[c][i] <= now /\ (i <= j => granted[c][i] <= granted[c][j])
    BY DEF LimitInv, Sorted
  <2>2. granted[c][i] \in Int BY <1>4
  <2> QED BY <1>1, <2>1, <2>2
<1>9. Short' /\ LimitHolds'
  BY <1>2 DEF LimitInv, Short, LimitHolds
<1>10. StaysFull'
  <2> SUFFICES ASSUME NEW c \in Accounts PROVE refused[c] <= now + 1 /\ refused[c] # now + 1
    BY <1>1, <1>2 DEF StaysFull
  <2>1. refused[c] <= now BY DEF LimitInv, StaysFull
  <2>2. refused[c] \in Int BY ConstantsAssumption DEF LimitInv, TypeOK
  <2> QED BY <1>1, <2>1, <2>2
<1> QED BY <1>5, <1>6, <1>7, <1>8, <1>9, <1>10 DEF LimitInv

\* A restart empties everything.
LEMMA Restarted == LimitInv /\ Restart => LimitInv'
<1> SUFFICES ASSUME LimitInv, Restart PROVE LimitInv'
  OBVIOUS
<1>1. /\ now' = now /\ now \in 0..MaxTime /\ MaxTime \in Nat
      /\ MaxHits \in Nat /\ MaxHits > 0
  BY ConstantsAssumption DEF LimitInv, TypeOK, Restart
<1>2. \A c \in Accounts : bucket'[c] = <<>> /\ granted'[c] = <<>> /\ refused'[c] = -1
  BY DEF Restart
<1>3. \A c \in Accounts : Gone(c)' = 0
  BY <1>2 DEF Gone
<1>4. TypeOK'
  BY <1>1 DEF Restart, TypeOK
<1>5. Linked' /\ Past'
  BY <1>2, <1>3 DEF Linked, Past
<1>6. Sorted' /\ Short' /\ LimitHolds'
  BY <1>1, <1>2 DEF Sorted, Short, LimitHolds
<1>7. StaysFull'
  BY <1>1, <1>2 DEF StaysFull
<1> QED BY <1>4, <1>5, <1>6, <1>7 DEF LimitInv

-----------------------------------------------------------------------------
\* Every step keeps the invariant.
LEMMA LimitStep == LimitInv /\ [Next]_vars => LimitInv'
<1> SUFFICES ASSUME LimitInv, [Next]_vars PROVE LimitInv'
  OBVIOUS
<1>1. ASSUME NEW a \in Accounts, Check(a) PROVE LimitInv'
  <2>1. PICK n \in 0..Len(bucket[a]) :
          /\ Expired(bucket[a]) = 1..n
          /\ IF Full(Kept(bucket[a], n))
             THEN /\ bucket' = [bucket EXCEPT ![a] = Kept(bucket[a], n)]
                  /\ refused' = [refused EXCEPT ![a] = now]
                  /\ UNCHANGED granted
             ELSE /\ bucket' = [bucket EXCEPT ![a] = Append(Kept(bucket[a], n), now)]
                  /\ granted' = [granted EXCEPT ![a] = Append(granted[a], now)]
                  /\ UNCHANGED refused
          /\ UNCHANGED now
    BY <1>1 DEF Check
  <2>2. CASE Full(Kept(bucket[a], n))
    BY <2>1, <2>2, Refuse
  <2>3. CASE ~Full(Kept(bucket[a], n))
    BY <2>1, <2>3, Permit
  <2> QED BY <2>2, <2>3
<1>2. CASE Tick BY <1>2, Passing
<1>3. CASE Restart BY <1>3, Restarted
<1>4. CASE UNCHANGED vars
  BY <1>4 DEF vars, LimitInv, TypeOK, Linked, Past, Sorted, Short, StaysFull, LimitHolds, Gone
<1> QED BY <1>1, <1>2, <1>3, <1>4 DEF Next

\* The invariant holds for ever.
LEMMA LimitInvariance == Spec => []LimitInv
<1> QED BY LimitInit, LimitStep, PTL DEF Spec

\* check keeps its variables well typed for any limit, window and accounts.
THEOREM LimitTypeCorrect == Spec => []TypeOK
<1>1. LimitInv => TypeOK BY DEF LimitInv
<1> QED BY <1>1, LimitInvariance, PTL

\* The limit promised by SlidingWindowRateLimiter.check: of MaxHits + 1
\* successive permitted attempts, the last is more than a window after the first.
THEOREM LimitIsKept == Spec => []LimitHolds
<1>1. LimitInv => LimitHolds BY DEF LimitInv
<1> QED BY <1>1, LimitInvariance, PTL

\* check refuses only an account with MaxHits permitted attempts in its window.
THEOREM RefusalsAreEarned == Spec => []RefusalIsEarned
<1>1. LimitInv => RefusalIsEarned
  <2> SUFFICES ASSUME LimitInv, NEW a \in Accounts, refused[a] = now
               PROVE  /\ Len(granted[a]) >= MaxHits
                      /\ granted[a][Len(granted[a]) - MaxHits + 1] >= now - Window
    BY DEF RefusalIsEarned
  <2>1. Len(bucket[a]) = MaxHits /\ bucket[a][1] >= now - Window
    BY DEF LimitInv, StaysFull
  <2>2. MaxHits \in Nat /\ MaxHits > 0 /\ Len(granted[a]) \in Nat
    <3>1. granted[a] \in Seq(0..MaxTime) BY DEF LimitInv, TypeOK
    <3> QED BY <3>1, ConstantsAssumption, Times
  <2>3. Gone(a) >= 0 /\ Gone(a) = Len(granted[a]) - MaxHits
    BY <2>1 DEF LimitInv, Linked, Gone
  <2>4. 1 \in 1..Len(bucket[a]) BY <2>1, <2>2
  <2>5. bucket[a][1] = granted[a][Gone(a) + 1]
    BY <2>4 DEF LimitInv, Linked
  <2> QED BY <2>1, <2>2, <2>3, <2>5
<1> QED BY <1>1, LimitInvariance, PTL

-----------------------------------------------------------------------------
(* BrowserSession *)

-----------------------------------------------------------------------------
(* The inductive invariant *)

Given == {NoToken} \cup Tokens
Pairs == [session : Given, csrf : Given]

SentCalls ==
    [at : {"sent"}, tab : Tabs, op : Ops,
     session : Given, cookie : Given, header : Given]
ServedCalls ==
    [at : {"served", "arrived"}, tab : Tabs, op : Ops, status : {200, 401, 403},
     session : Given, cookie : Given, header : Given,
     cookies : {Keep} \cup Pairs, token : Given]
AnyCall == {NoCall} \cup SentCalls \cup ServedCalls

Typed ==
    /\ jar \in Pairs
    /\ expired \subseteq Tokens
    /\ issued \in 0..MaxIssued
    /\ owner \in [Tokens -> Tabs \cup {NoToken}]
    /\ under \in [Tokens -> Given]
    /\ page \in [Tabs -> {"closed", "boot", "ready"}]
    /\ authed \in [Tabs -> BOOLEAN]
    /\ store \in [Tabs -> Given]
    /\ call \in [Calls -> AnyCall]

\* A pair of cookies is planted together: the CSRF token is one of the session's.
Matched(j) ==
    /\ j.session # NoToken => j.csrf # NoToken
    /\ j.csrf # NoToken => under[j.csrf] = j.session

Issuing(c) == call[c].op \in {"login", "me", "csrf"}

\* A tab waits for one token at a time, and is not logged in meanwhile.
Waits(t) ==
    /\ authed[t] =>
          /\ page[t] = "ready" /\ store[t] # NoToken
          /\ \A c \in Calls : SentBy(t, c) => ~Issuing(c)
    /\ \A c \in Calls :
          SentBy(t, c) => (page[t] # "ready" <=> call[c].op \in {"me", "csrf"})
    /\ \A c, d \in Calls :
          SentBy(t, c) /\ SentBy(t, d) /\ Issuing(c) /\ Issuing(d) => c = d

\* Only tokens that were issued are about.
Own(c) ==
    /\ call[c].at # "free" => call[c].cookie <= issued
    /\ Answered(c) => call[c].token <= issued
    /\ call[c].at = "served" /\ call[c].cookies # Keep =>
          call[c].cookies.csrf <= issued
Circulating == jar.csrf <= issued /\ \A c \in Calls : Own(c)

\* A write carries a token of its session; one that its tab was given last is
\* also in its header.
Wrote(c) ==
    call[c].at # "free" /\ call[c].op = "mutate" =>
        /\ call[c].header # NoToken
        /\ call[c].session # NoToken =>
              /\ call[c].cookie # NoToken
              /\ under[call[c].cookie] = call[c].session
              /\ owner[call[c].cookie] = call[c].tab => call[c].cookie = call[c].header

\* What an answer says of the write or the token it answers.
Tells(c) ==
    Answered(c) =>
        /\ call[c].status = 403 =>
              /\ call[c].op = "mutate" /\ call[c].session # NoToken
              /\ call[c].cookie # call[c].header
        /\ call[c].status = 200 /\ call[c].op = "mutate" =>
              call[c].session # NoToken /\ call[c].cookie = call[c].header
        /\ call[c].status = 200 /\ call[c].op \in {"login", "csrf"} =>
              /\ call[c].token # NoToken /\ owner[call[c].token] = call[c].tab
              /\ call[c].at = "served" => call[c].cookies # Keep
        /\ call[c].at = "served" /\ call[c].cookies # Keep =>
              /\ Matched(call[c].cookies)
              /\ call[c].cookies.csrf # NoToken =>
                    /\ call[c].op \in {"login", "csrf"} /\ call[c].status = 200
                    /\ call[c].cookies.csrf = call[c].token

\* Of the tokens of a tab the jar holds none but the last: the one in its store, or
\* the one its script is about to put there.
Latest(t) ==
    jar.csrf # NoToken /\ owner[jar.csrf] = t =>
        /\ authed[t] => store[t] = jar.csrf
        /\ \A c \in Calls :
              /\ SentBy(t, c) /\ call[c].at = "arrived" /\ call[c].status = 200
              /\ call[c].op \in {"login", "csrf"}
              => call[c].token = jar.csrf

SessionInv ==
    /\ Typed
    /\ Matched(jar)
    /\ Circulating
    /\ \A t \in Tabs : Waits(t) /\ Latest(t)
    /\ \A c \in Calls : Wrote(c) /\ Tells(c)

LEMMA SessionInitInv == SessionInit => SessionInv
<1> SUFFICES ASSUME SessionInit PROVE SessionInv
  OBVIOUS
<1>1. Typed
  BY SessionAssumption DEF SessionInit, Typed, Pairs, Given, Clear, Pair, AnyCall
<1>2. jar.csrf = NoToken /\ jar.session = NoToken /\ issued = 0
  BY DEF SessionInit, Clear, Pair
<1>3. \A c \in Calls : call[c].at = "free"
  BY DEF SessionInit, NoCall
<1>4. Matched(jar) /\ Circulating
  BY <1>2, <1>3 DEF Matched, Circulating, Own, Answered, NoToken
<1>5. ASSUME NEW t \in Tabs PROVE Waits(t) /\ Latest(t)
  BY <1>2, <1>3 DEF SessionInit, Waits, Latest, SentBy
<1>6. ASSUME NEW c \in Calls PROVE Wrote(c) /\ Tells(c)
  BY <1>3 DEF Wrote, Tells, Answered
<1> QED BY <1>1, <1>4, <1>5, <1>6 DEF SessionInv

-----------------------------------------------------------------------------
(* Calls *)

LEMMA CallTypes ==
  ASSUME Typed, NEW c \in Calls
  PROVE  /\ call[c].at \in {"free", "sent", "served", "arrived"}
         /\ call[c].at = "free" => call[c] = NoCall
         /\ call[c].at = "sent" => call[c] \in SentCalls
         /\ Answered(c) => call[c] \in ServedCalls
         /\ call[c].at # "free" =>
               /\ call[c].tab \in Tabs /\ call[c].op \in Ops
               /\ call[c].session \in Given /\ call[c].cookie \in Given
               /\ call[c].header \in Given
<1>1. call[c] \in AnyCall
  BY DEF Typed
<1>2. CASE call[c] = NoCall
  BY <1>2 DEF NoCall, Answered
<1>3. CASE call[c] \in SentCalls
  BY <1>3 DEF SentCalls, Answered
<1>4. CASE call[c] \in ServedCalls
  BY <1>4 DEF ServedCalls, Answered
<1> QED BY <1>1, <1>2, <1>3, <1>4 DEF AnyCall

LEMMA PutTypes ==
  ASSUME Typed, NEW c \in Calls, NEW state \in AnyCall, Put(c, state)
  PROVE  /\ call' \in [Calls -> AnyCall]
         /\ call'[c] = state
         /\ \A d \in Calls \ {c} : call'[d] = call[d]
  BY DEF Typed, Put

\* A cookie pair is not the absence of one.
LEMMA PairIsKept ==
  ASSUME NEW s \in Given, NEW n \in Given
  PROVE  /\ Pair(s, n) # Keep /\ Pair(s, n) \in Pairs
         /\ Pair(s, n).session = s /\ Pair(s, n).csrf = n
<1>1. DOMAIN Pair(s, n) # DOMAIN Keep
  BY DEF Pair, Keep
<1> QED BY <1>1 DEF Pair, Pairs

LEMMA SentTypes ==
  ASSUME Typed, NEW t \in Tabs, NEW o \in Ops
  PROVE  Sent(t, o) \in SentCalls
  BY DEF Typed, Sent, SentCalls, Pairs, Given, NoToken

\* Tokens that were issued stay as they are.
Grows ==
    /\ issued <= issued'
    /\ \A n \in Tokens :
          n <= issued => owner'[n] = owner[n] /\ under'[n] = under[n]

\* A call that nobody touches goes on meaning what it did.
LEMMA CallStays ==
  ASSUME Typed, Typed', Grows, NEW c \in Calls, call'[c] = call[c],
         Own(c), Wrote(c), Tells(c)
  PROVE  Own(c)' /\ Wrote(c)' /\ Tells(c)'
<1>1. issued \in Nat /\ issued' \in Nat
  BY DEF Typed
<1>2. Answered(c)' = Answered(c)
  BY DEF Answered
<1>3. Answered(c) => call[c].at # "free" /\ call[c].token \in Given
                     /\ call[c].cookies \in {Keep} \cup Pairs
  BY CallTypes DEF Answered, ServedCalls
<1>4. call[c].at = "served" => Answered(c)
  BY DEF Answered
<1>5. call[c].at # "free" => call[c].cookie \in Given
  BY CallTypes
<1>6. Own(c)'
  <2>1. call[c].at # "free" => call[c].cookie <= issued'
    BY <1>1, <1>5, SMT DEF Own, Grows, Given, Tokens, NoToken
  <2>2. Answered(c) => call[c].token <= issued'
    BY <1>1, <1>3, SMT DEF Own, Grows, Given, Tokens, NoToken
  <2>3. call[c].at = "served" /\ call[c].cookies # Keep =>
          call[c].cookies.csrf <= issued'
    <3>1. call[c].at = "served" /\ call[c].cookies # Keep =>
            call[c].cookies.csrf \in Given
      BY <1>3, <1>4 DEF Pairs
    <3> QED BY <1>1, <3>1, SMT DEF Own, Grows, Given, Tokens, NoToken
  <2> QED BY <1>2, <2>1, <2>2, <2>3 DEF Own
<1>7. Wrote(c)'
  BY <1>5 DEF Wrote, Own, Grows, Given
<1>8. Tells(c)'
  <2>1. Answered(c) /\ call[c].token # NoToken => owner'[call[c].token] = owner[call[c].token]
    BY <1>3 DEF Own, Grows, Given
  <2>2. call[c].at = "served" /\ call[c].cookies # Keep /\ Matched(call[c].cookies)
        => Matched(call[c].cookies)'
    <3> SUFFICES ASSUME call[c].at = "served", call[c].cookies # Keep,
                        Matched(call[c].cookies)
                 PROVE  Matched(call[c].cookies)'
      OBVIOUS
    <3>1. call[c].cookies.csrf \in Given /\ call[c].cookies.csrf <= issued
      BY <1>3, <1>4 DEF Pairs, Own
    <3> QED BY <3>1 DEF Matched, Grows, Given
  <2> QED BY <1>2, <2>1, <2>2 DEF Tells
<1> QED BY <1>6, <1>7, <1>8

\* A tab whose state and calls nobody touches, under a jar nobody touches.
LEMMA TabStays ==
  ASSUME SessionInv, Typed', Grows, jar' = jar, NEW t \in Tabs,
         page'[t] = page[t], authed'[t] = authed[t], store'[t] = store[t],
         \A c \in Calls : SentBy(t, c)' => SentBy(t, c) /\ call'[c] = call[c]
  PROVE  Waits(t)' /\ Latest(t)'
<1>1. Waits(t) /\ Latest(t) /\ Typed /\ jar.csrf <= issued
  BY DEF SessionInv, Circulating
<1>2. Waits(t)'
  BY <1>1 DEF Waits, Issuing
<1>3. jar.csrf # NoToken => owner'[jar.csrf] = owner[jar.csrf]
  BY <1>1 DEF Grows, Typed, Pairs, Given
<1>4. Latest(t)'
  BY <1>1, <1>3 DEF Latest
<1> QED BY <1>2, <1>4

\* All parts of the invariant at once, when the jar stays.
LEMMA JarStays ==
  ASSUME SessionInv, Typed', Grows, jar' = jar,
         \A t \in Tabs : Waits(t)' /\ Latest(t)',
         \A c \in Calls : call'[c] = call[c] \/ (Own(c)' /\ Wrote(c)' /\ Tells(c)')
  PROVE  SessionInv'
<1>1. \A c \in Calls : Own(c)' /\ Wrote(c)' /\ Tells(c)'
  BY CallStays DEF SessionInv, Circulating
<1>2. jar.csrf \in Given /\ jar.csrf <= issued /\ issued \in Nat /\ issued' \in Nat
  BY DEF SessionInv, Circulating, Typed, Pairs
<1>3. Matched(jar)'
  BY <1>2 DEF SessionInv, Matched, Grows, Given
<1>4. jar'.csrf <= issued'
  BY <1>2, SMT DEF Grows, Given, Tokens, NoToken
<1> QED BY <1>1, <1>3, <1>4 DEF SessionInv, Circulating

-----------------------------------------------------------------------------
(* The server *)

\* c is answered; the tab, its cookies and its header are those it came with.
Served(c) ==
    /\ jar' = jar /\ page' = page /\ authed' = authed /\ store' = store
    /\ \A d \in Calls \ {c} : call'[d] = call[d]
    /\ call'[c].at = "served" /\ call'[c].tab = call[c].tab /\ call'[c].op = call[c].op
    /\ call'[c].cookie = call[c].cookie /\ call'[c].header = call[c].header
    /\ call[c].op = "mutate" => call'[c].session = call[c].session

LEMMA AnswerServes ==
  ASSUME Typed, NEW c \in Calls, call[c].at = "sent",
         NEW status \in {200, 401, 403}, NEW cookies \in {Keep} \cup Pairs,
         NEW token \in Given, Answer(c, status, cookies, token),
         UNCHANGED <<jar, script>>
  PROVE  /\ Served(c) /\ call' \in [Calls -> AnyCall]
         /\ call'[c].status = status /\ call'[c].cookies = cookies
         /\ call'[c].token = token
<1> DEFINE answer ==
      [at |-> "served", tab |-> call[c].tab, op |-> call[c].op, status |-> status,
       session |-> IF call[c].op = "mutate" THEN call[c].session ELSE NoToken,
       cookie |-> call[c].cookie, header |-> call[c].header,
       cookies |-> cookies, token |-> token]
<1>1. answer \in ServedCalls
  BY CallTypes DEF ServedCalls, Given
<1>2. /\ call' \in [Calls -> AnyCall] /\ call'[c] = answer
      /\ \A d \in Calls \ {c} : call'[d] = call[d]
  <2>1. answer \in AnyCall /\ Put(c, answer)
    BY <1>1 DEF AnyCall, Answer
  <2> HIDE DEF answer
  <2> QED BY <2>1, PutTypes
<1> QED BY <1>2 DEF Served, script

LEMMA ServerStep ==
  ASSUME SessionInv, Typed', Grows, NEW c \in Calls, call[c].at = "sent", Served(c),
         call'[c].token <= issued',
         call'[c].cookies # Keep => call'[c].cookies.csrf <= issued',
         Tells(c)'
  PROVE  SessionInv'
<1> USE DEF Served
<1>1. Typed /\ Own(c) /\ Wrote(c) /\ issued \in Nat /\ issued' \in Nat
  BY DEF SessionInv, Circulating, Typed
<1>2. Own(c)' /\ Wrote(c)'
  <2>1. call[c].cookie \in Given /\ call[c].cookie <= issued
    BY <1>1, CallTypes DEF Own
  <2>2. call'[c].cookie <= issued'
    BY <1>1, <2>1, SMT DEF Grows, Given, Tokens, NoToken
  <2>3. Wrote(c)'
    BY <1>1, <2>1 DEF Wrote, Grows, Given
  <2> QED BY <2>2, <2>3 DEF Own
<1>3. ASSUME NEW t \in Tabs PROVE Waits(t)' /\ Latest(t)'
  <2>1. Waits(t) /\ Latest(t) /\ jar.csrf <= issued
    BY DEF SessionInv, Circulating
  <2>2. \A d \in Calls : /\ SentBy(t, d)' <=> SentBy(t, d)
                         /\ SentBy(t, d) => call'[d].op = call[d].op
    BY DEF SentBy
  <2>3. Waits(t)'
    BY <2>1, <2>2 DEF Waits, Issuing
  <2>4. jar.csrf # NoToken => owner'[jar.csrf] = owner[jar.csrf]
    BY <1>1, <2>1 DEF Grows, Typed, Pairs, Given
  <2>5. \A d \in Calls : call'[d].at = "arrived" => call'[d] = call[d]
    OBVIOUS
  <2>6. Latest(t)'
    BY <2>1, <2>2, <2>4, <2>5 DEF Latest
  <2> QED BY <2>3, <2>6
<1>4. \A d \in Calls : call'[d] = call[d] \/ (Own(d)' /\ Wrote(d)' /\ Tells(d)')
  BY <1>2
<1> QED BY <1>3, <1>4, JarStays

\* A token that is issued belongs to the tab and the session it is issued to.
LEMMA IssueEffect ==
  ASSUME Typed, NEW c \in Calls, call[c].at # "free",
         NEW s \in Given, Issue(c, s)
  PROVE  /\ issued + 1 \in Tokens /\ issued' = issued + 1 /\ expired' = expired
         /\ owner' \in [Tokens -> Tabs \cup {NoToken}] /\ under' \in [Tokens -> Given]
         /\ owner'[issued + 1] = call[c].tab /\ under'[issued + 1] = s
         /\ Grows
<1>1. issued \in 0..MaxIssued /\ MaxIssued \in Nat /\ issued < MaxIssued
  BY SessionAssumption DEF Typed, Issue
<1>2. issued' = issued + 1 /\ issued + 1 \in Tokens /\ issued <= issued'
  BY <1>1, SMT DEF Issue, Tokens
<1>3. \A n \in Tokens : n <= issued => n # issued + 1
  BY <1>1 DEF Tokens
<1>4. call[c].tab \in Tabs
  BY CallTypes
<1>5. /\ owner' = [owner EXCEPT ![issued + 1] = call[c].tab]
      /\ under' = [under EXCEPT ![issued + 1] = s]
  BY <1>2 DEF Issue
<1> QED BY <1>2, <1>3, <1>4, <1>5 DEF Issue, Typed, Grows

LEMMA Refused ==
  ASSUME SessionInv, NEW c \in Calls, call[c].at = "sent",
         call[c].op \in {"login", "csrf"}, Answer(c, 401, Keep, NoToken),
         UNCHANGED <<jar, server, script>>
  PROVE  SessionInv'
<1>1. Typed /\ NoToken \in Given /\ issued \in Nat
  BY DEF SessionInv, Typed, Given
<1>2. /\ Served(c) /\ call' \in [Calls -> AnyCall]
      /\ call'[c].status = 401 /\ call'[c].cookies = Keep /\ call'[c].token = NoToken
  BY <1>1, AnswerServes
<1>3. Typed' /\ Grows
  BY <1>1, <1>2 DEF Typed, Grows, server, script
<1>4. Tells(c)'
  BY <1>2 DEF Tells
<1>5. call'[c].token <= issued'
  BY <1>1, <1>2 DEF server, NoToken
<1> QED BY <1>2, <1>3, <1>4, <1>5, ServerStep

LEMMA Granted ==
  ASSUME SessionInv, NEW c \in Calls, call[c].at = "sent",
         call[c].op \in {"login", "csrf"}, NEW s \in Tokens, Issue(c, s),
         Answer(c, 200, Pair(s, issued + 1), issued + 1), UNCHANGED <<jar, script>>
  PROVE  SessionInv'
<1>1. Typed /\ s \in Given /\ issued \in Nat
  BY DEF SessionInv, Typed, Given
<1>2. /\ issued + 1 \in Tokens /\ issued' = issued + 1 /\ expired' = expired
      /\ owner' \in [Tokens -> Tabs \cup {NoToken}] /\ under' \in [Tokens -> Given]
      /\ owner'[issued + 1] = call[c].tab /\ under'[issued + 1] = s
      /\ Grows
  BY <1>1, IssueEffect
<1>3. issued + 1 \in Given
  BY <1>2 DEF Given
<1>4. /\ Pair(s, issued + 1) # Keep /\ Pair(s, issued + 1) \in Pairs
      /\ Pair(s, issued + 1).session = s /\ Pair(s, issued + 1).csrf = issued + 1
  BY <1>1, <1>3, PairIsKept
<1>5. /\ Served(c) /\ call' \in [Calls -> AnyCall] /\ call'[c].status = 200
      /\ call'[c].cookies = Pair(s, issued + 1) /\ call'[c].token = issued + 1
  BY <1>1, <1>3, <1>4, AnswerServes
<1>6. Typed'
  <2>1. issued' \in 0..MaxIssued
    BY <1>1, <1>2, SessionAssumption, SMT DEF Tokens
  <2> QED BY <1>1, <1>2, <1>5, <2>1 DEF Typed, script
<1>7. Tells(c)'
  <2>1. issued + 1 # NoToken
    BY <1>1 DEF NoToken
  <2>2. call'[c].tab = call[c].tab /\ call'[c].op = call[c].op
    BY <1>5 DEF Served
  <2>3. Matched(call[c].cookies)'
    BY <1>2, <1>4, <1>5, <2>1 DEF Matched
  <2> QED BY <1>2, <1>4, <1>5, <2>1, <2>2, <2>3 DEF Tells
<1>8. issued + 1 <= issued'
  BY <1>1, <1>2
<1> QED BY <1>2, <1>4, <1>5, <1>6, <1>7, <1>8, ServerStep

LEMMA LoginSafe ==
  ASSUME SessionInv, NEW c \in Calls, NEW right \in BOOLEAN,
         ServeLogin(c, right)
  PROVE  SessionInv'
<1>1. CASE right
  <2>1. issued + 1 \in Tokens
    BY <1>1, SessionAssumption, SMT DEF ServeLogin, Issue, SessionInv, Typed, Tokens
  <2> QED BY <1>1, <2>1, Granted DEF ServeLogin
<1>2. CASE ~right
  BY <1>2, Refused DEF ServeLogin
<1> QED BY <1>1, <1>2

LEMMA CsrfSafe ==
  ASSUME SessionInv, NEW c \in Calls, ServeCsrf(c)
  PROVE  SessionInv'
<1>1. CASE Verifies(call[c].session)
  <2>1. call[c].session \in Tokens
    BY <1>1, CallTypes DEF ServeCsrf, SessionInv, Verifies, Given
  <2> QED BY <1>1, <2>1, Granted DEF ServeCsrf
<1>2. CASE ~Verifies(call[c].session)
  BY <1>2, Refused DEF ServeCsrf
<1> QED BY <1>1, <1>2

LEMMA ServeSafe ==
  ASSUME SessionInv, NEW c \in Calls, Serve(c)
  PROVE  SessionInv'
<1> DEFINE cookies == IF call[c].op = "logout" THEN Clear ELSE Keep
<1>1. Typed /\ Wrote(c) /\ issued \in Nat /\ call[c].at = "sent"
  BY DEF SessionInv, Typed, Serve
<1>2. Clear # Keep /\ Clear \in Pairs /\ Clear.session = NoToken /\ Clear.csrf = NoToken
  BY PairIsKept DEF Clear, Given
<1>3. Status(call[c]) \in {200, 401, 403}
  BY DEF Status
<1>4. cookies \in {Keep} \cup Pairs /\ NoToken \in Given
  BY <1>2 DEF Given
<1>5. /\ Served(c) /\ call' \in [Calls -> AnyCall]
      /\ call'[c].status = Status(call[c]) /\ call'[c].cookies = cookies
      /\ call'[c].token = NoToken
  <2>1. Answer(c, Status(call[c]), cookies, NoToken) /\ UNCHANGED <<jar, script>>
    BY DEF Serve
  <2> HIDE DEF cookies
  <2> QED BY <1>1, <1>3, <1>4, <2>1, AnswerServes
<1>6. Typed' /\ Grows
  BY <1>1, <1>5 DEF Typed, Grows, Serve, server, script
<1>7. Tells(c)'
  <2>1. /\ call'[c].tab = call[c].tab /\ call'[c].op = call[c].op
        /\ call'[c].cookie = call[c].cookie /\ call'[c].header = call[c].header
        /\ call[c].op = "mutate" => call'[c].session = call[c].session
    BY <1>5 DEF Served
  <2>2. call[c].op \notin {"login", "csrf"}
    BY DEF Serve
  <2>3. Status(call[c]) = 403 =>
          /\ call[c].op = "mutate" /\ call[c].session # NoToken
          /\ call[c].cookie # call[c].header
    BY <1>1 DEF Status, Refuses, Wrote
  <2>4. Status(call[c]) = 200 /\ call[c].op = "mutate" =>
          call[c].session # NoToken /\ call[c].cookie = call[c].header
    BY <1>1 DEF Status, Refuses, Wrote, Verifies
  <2>5. call'[c].cookies \in {Keep, Clear}
    BY <1>5
  <2>6. call'[c].cookies # Keep => Matched(call[c].cookies)' /\ call'[c].cookies.csrf = NoToken
    BY <1>2, <2>5 DEF Matched
  <2> QED BY <1>5, <2>1, <2>2, <2>3, <2>4, <2>6 DEF Tells
<1>8. /\ call'[c].token <= issued'
      /\ call'[c].cookies # Keep => call'[c].cookies.csrf <= issued'
  BY <1>1, <1>2, <1>5 DEF Serve, server, NoToken
<1> QED BY <1>1, <1>5, <1>6, <1>7, <1>8, ServerStep

-----------------------------------------------------------------------------
(* The tab *)

\* Nothing but c and its tab move.
TabMoves(t, c) ==
    /\ jar' = jar /\ UNCHANGED server
    /\ \A u \in Tabs \ {t} :
          page'[u] = page[u] /\ authed'[u] = authed[u] /\ store'[u] = store[u]
    /\ \A d \in Calls \ {c} : call'[d] = call[d] \/ (SentBy(t, d) /\ call'[d] = NoCall)
    /\ call'[c].at # "free" => call'[c].tab = t /\ call'[c].at = "sent"

LEMMA TabStep ==
  ASSUME SessionInv, Typed', NEW t \in Tabs, NEW c \in Calls, TabMoves(t, c),
         Own(c)', Wrote(c)', Waits(t)', Latest(t)'
  PROVE  SessionInv'
<1>1. Grows
  BY DEF TabMoves, server, Grows, SessionInv, Typed
<1>2. ASSUME NEW d \in Calls
      PROVE  call'[d] = call[d] \/ (Own(d)' /\ Wrote(d)' /\ Tells(d)')
  <2>1. CASE d = c
    BY <2>1 DEF TabMoves, Tells, Answered, SessionInv, Typed
  <2>2. CASE call'[d] = NoCall
    BY <2>2 DEF Own, Wrote, Tells, Answered, NoCall
  <2> QED BY <2>1, <2>2 DEF TabMoves
<1>3. ASSUME NEW u \in Tabs PROVE Waits(u)' /\ Latest(u)'
  <2>1. CASE u = t
    BY <2>1
  <2>2. CASE u # t
    <3>1. \A d \in Calls : SentBy(u, d)' => SentBy(u, d) /\ call'[d] = call[d]
      BY <2>2 DEF TabMoves, SentBy, NoCall
    <3> QED BY <1>1, <2>2, <3>1, TabStays DEF TabMoves
  <2> QED BY <2>1, <2>2
<1> QED BY <1>1, <1>2, <1>3, JarStays DEF TabMoves

\* What a tab sends: only a write carries tokens, of the jar and of the store.
LEMMA SentTells ==
  ASSUME SessionInv, NEW t \in Tabs, NEW c \in Calls, NEW o \in Ops,
         call'[c] = Sent(t, o), jar' = jar, UNCHANGED server,
         o = "mutate" => authed[t]
  PROVE  /\ call'[c].at = "sent" /\ call'[c].tab = t /\ call'[c].op = o
         /\ Own(c)' /\ Wrote(c)'
<1>1. /\ call'[c].at = "sent" /\ call'[c].tab = t /\ call'[c].op = o
      /\ call'[c].cookie = (IF o = "mutate" THEN jar.csrf ELSE NoToken)
      /\ o = "mutate" => call'[c].header = store[t] /\ call'[c].session = jar.session
  BY DEF Sent
<1>2. jar.csrf <= issued /\ issued \in Nat
  BY DEF SessionInv, Circulating, Typed
<1>3. Own(c)'
  BY <1>1, <1>2 DEF Own, Answered, server, NoToken
<1>4. Wrote(c)'
  <2>1. Waits(t) /\ Latest(t) /\ Matched(jar)
    BY DEF SessionInv
  <2> QED BY <1>1, <2>1 DEF Wrote, Waits, Latest, Matched, server
<1> QED BY <1>1, <1>3, <1>4

LEMMA SendSafe ==
  ASSUME SessionInv, NEW t \in Tabs, NEW c \in Calls, NEW o \in Ops, Send(t, c, o)
  PROVE  SessionInv'
<1>1. Typed /\ Waits(t) /\ Latest(t)
  BY DEF SessionInv
<1>2. /\ call' \in [Calls -> AnyCall] /\ call'[c] = Sent(t, o)
      /\ \A d \in Calls \ {c} : call'[d] = call[d]
  BY <1>1, SentTypes, PutTypes DEF Send, AnyCall
<1>3. Typed'
  BY <1>1, <1>2 DEF Send, Typed, server, script
<1>4. o = "mutate" => authed[t]
  BY DEF Send
<1>5. /\ call'[c].at = "sent" /\ call'[c].tab = t /\ call'[c].op = o
      /\ Own(c)' /\ Wrote(c)'
  BY <1>2, <1>4, SentTells DEF Send
<1>6. TabMoves(t, c)
  BY <1>2, <1>5 DEF Send, TabMoves, script
<1>7. Waits(t)'
  <2>1. page[t] = "ready" /\ page' = page /\ authed' = authed /\ store' = store
    BY DEF Send, script
  <2>2. \A d \in Calls \ {c} : SentBy(t, d)' <=> SentBy(t, d)
    BY <1>2 DEF SentBy
  <2>3. \A d \in Calls \ {c} : call'[d].op = call[d].op
    BY <1>2
  <2>4. CASE o = "login"
    <3>1. ~authed[t] /\ \A d \in Calls : SentBy(t, d) => ~Issuing(d)
      BY <1>1, <2>1, <2>4 DEF Send, Waits, Issuing
    <3> QED BY <1>1, <1>5, <2>1, <2>2, <2>3, <2>4, <3>1 DEF Waits, Issuing
  <2>5. CASE o # "login"
    <3>1. o \in {"logout", "query", "mutate"} /\ authed[t]
      BY <2>5 DEF Send
    <3> QED BY <1>1, <1>5, <2>1, <2>2, <2>3, <3>1 DEF Waits, Issuing
  <2> QED BY <2>4, <2>5
<1>8. Latest(t)'
  BY <1>1, <1>2, <1>5 DEF Send, Latest, SentBy, server, script
<1> QED BY <1>3, <1>5, <1>6, <1>7, <1>8, TabStep

LEMMA BootSafe ==
  ASSUME SessionInv, NEW t \in Tabs, NEW c \in Calls, Boot(t, c)
  PROVE  SessionInv'
<1>1. Typed /\ "me" \in Ops
  BY DEF SessionInv, Ops
<1>2. /\ call'[c] = Sent(t, "me")
      /\ \A d \in Calls \ {c} : call'[d] = IF SentBy(t, d) THEN NoCall ELSE call[d]
  BY DEF Boot
<1>3. call' \in [Calls -> AnyCall]
  BY <1>1, SentTypes DEF Boot, Typed, AnyCall
<1>4. Typed'
  BY <1>1, <1>3 DEF Boot, Typed, server, Given
<1>5. /\ call'[c].at = "sent" /\ call'[c].tab = t /\ call'[c].op = "me"
      /\ Own(c)' /\ Wrote(c)'
  BY <1>1, <1>2, SentTells DEF Boot
<1>6. TabMoves(t, c)
  BY <1>1, <1>2, <1>5 DEF Boot, TabMoves, Typed
<1>7. page'[t] = "boot" /\ ~authed'[t]
  BY <1>1 DEF Boot, Typed
<1>8. \A d \in Calls : SentBy(t, d)' => d = c
  BY <1>2 DEF SentBy, NoCall
<1>9. Waits(t)' /\ Latest(t)'
  BY <1>5, <1>7, <1>8 DEF Waits, Latest, Issuing
<1> QED BY <1>4, <1>5, <1>6, <1>9, TabStep

\* The end of a call c of a tab t.
Ends(t, c) ==
    /\ jar' = jar /\ UNCHANGED server
    /\ call'[c] = NoCall
    /\ \A d \in Calls \ {c} : call'[d] = call[d]
    /\ \A u \in Tabs \ {t} :
          page'[u] = page[u] /\ authed'[u] = authed[u] /\ store'[u] = store[u]
    /\ page'[t] = IF call[c].op \in {"me", "csrf"} THEN "ready" ELSE page[t]

LEMMA EndStep ==
  ASSUME SessionInv, Typed', NEW t \in Tabs, NEW c \in Calls, SentBy(t, c), Ends(t, c),
         \/ ~authed'[t]
         \/ authed'[t] = authed[t] /\ store'[t] = store[t]
         \/ /\ call[c].op \in {"login", "csrf"} /\ call[c].at = "arrived"
            /\ call[c].status = 200 /\ store'[t] = call[c].token
  PROVE  SessionInv'
<1>1. Typed /\ Waits(t) /\ Latest(t) /\ Tells(c)
  BY DEF SessionInv
<1>2. Own(c)' /\ Wrote(c)' /\ TabMoves(t, c)
  BY DEF Own, Wrote, Answered, TabMoves, Ends, NoCall
<1>3. \A d \in Calls :
        SentBy(t, d)' => SentBy(t, d) /\ d # c /\ call'[d] = call[d]
  BY DEF Ends, SentBy, NoCall
<1>4. call[c].op \in {"me", "csrf"} =>
        \A d \in Calls : SentBy(t, d) => d = c
  BY <1>1 DEF Waits, Issuing
<1>5. page'[t] = "ready" \/ (page'[t] = page[t] /\ call[c].op \notin {"me", "csrf"})
  BY DEF Ends
<1>6. \A d \in Calls :
        SentBy(t, d)' => (page'[t] # "ready" <=> call'[d].op \in {"me", "csrf"})
  BY <1>1, <1>3, <1>4 DEF Waits, Ends
<1>7. \A d, e \in Calls :
        SentBy(t, d)' /\ SentBy(t, e)' /\ Issuing(d)' /\ Issuing(e)' => d = e
  BY <1>1, <1>3 DEF Waits, Issuing
<1>8. CASE ~authed'[t]
  <2>1. Waits(t)'
    BY <1>6, <1>7, <1>8 DEF Waits
  <2>2. Latest(t)'
    BY <1>1, <1>3, <1>8 DEF Latest, Ends, server
  <2> QED BY <1>2, <2>1, <2>2, TabStep
<1>9. CASE authed'[t] = authed[t] /\ store'[t] = store[t]
  <2>1. Waits(t)'
    BY <1>1, <1>3, <1>5, <1>6, <1>7, <1>9 DEF Waits, Issuing
  <2>2. Latest(t)'
    BY <1>1, <1>3, <1>9 DEF Latest, Ends, server
  <2> QED BY <1>2, <2>1, <2>2, TabStep
<1>10. CASE /\ call[c].op \in {"login", "csrf"} /\ call[c].at = "arrived"
            /\ call[c].status = 200 /\ store'[t] = call[c].token
  <2>1. store'[t] # NoToken
    BY <1>1, <1>10 DEF Tells, Answered
  <2>2. page'[t] = "ready"
    BY <1>1, <1>10 DEF Waits, Ends
  <2>3. \A d \in Calls : SentBy(t, d)' => ~Issuing(d)'
    BY <1>1, <1>3, <1>10 DEF Waits, Issuing
  <2>4. Waits(t)'
    BY <1>6, <1>7, <2>1, <2>2, <2>3 DEF Waits
  <2>5. Latest(t)'
    BY <1>1, <1>3, <1>10 DEF Latest, Ends, server
  <2> QED BY <1>2, <2>4, <2>5, TabStep
<1> QED BY <1>8, <1>9, <1>10

\* SetAuth, or the tab left alone.
LEMMA SetAuthEffect ==
  ASSUME Typed, NEW t \in Tabs, NEW n \in Given, NEW flag \in BOOLEAN, SetAuth(t, n, flag)
  PROVE  /\ store' \in [Tabs -> Given] /\ authed' \in [Tabs -> BOOLEAN]
         /\ store'[t] = n /\ authed'[t] = flag
         /\ \A u \in Tabs \ {t} : authed'[u] = authed[u] /\ store'[u] = store[u]
  BY DEF Typed, SetAuth

LEMMA ResolveSafe ==
  ASSUME SessionInv, NEW c \in Calls, NEW t \in Tabs, call[c].tab = t, Resolve(c)
  PROVE  SessionInv'
<1>1. Typed /\ call[c].at = "arrived" /\ Answered(c) /\ NoToken \in Given
  BY DEF SessionInv, Resolve, Answered, Given
<1>2. call[c].op \in Ops /\ call[c].token \in Given /\ SentBy(t, c)
  BY <1>1, CallTypes DEF ServedCalls, SentBy
<1>3. Waits(t) /\ Latest(t)
  BY <1>2 DEF SessionInv
<1>4. /\ store' \in [Tabs -> Given] /\ authed' \in [Tabs -> BOOLEAN]
      /\ \A u \in Tabs \ {t} : authed'[u] = authed[u] /\ store'[u] = store[u]
      /\ \/ ~authed'[t]
         \/ authed' = authed /\ store' = store
         \/ /\ call[c].op \in {"login", "csrf"} /\ call[c].status = 200
            /\ store'[t] = call[c].token
  <2>1. CASE call[c].status = 401 \/ call[c].op = "logout"
    <3>1. ~(call[c].status = 200 /\ call[c].op \in {"login", "csrf"})
      BY <2>1
    <3>2. SetAuth(t, NoToken, FALSE)
      BY <2>1, <3>1 DEF Resolve
    <3>3. /\ store' \in [Tabs -> Given] /\ authed' \in [Tabs -> BOOLEAN] /\ ~authed'[t]
          /\ \A u \in Tabs \ {t} : authed'[u] = authed[u] /\ store'[u] = store[u]
      BY <1>1, <3>2, SetAuthEffect
    <3> QED BY <3>3
  <2>2. CASE /\ ~(call[c].status = 401 \/ call[c].op = "logout")
             /\ call[c].status = 200 /\ call[c].op \in {"login", "csrf"}
    <3>1. SetAuth(t, call[c].token, TRUE)
      BY <2>2 DEF Resolve
    <3>2. /\ store' \in [Tabs -> Given] /\ authed' \in [Tabs -> BOOLEAN]
          /\ store'[t] = call[c].token
          /\ \A u \in Tabs \ {t} : authed'[u] = authed[u] /\ store'[u] = store[u]
      BY <1>1, <1>2, <3>1, SetAuthEffect
    <3> QED BY <2>2, <3>2
  <2>3. CASE /\ ~(call[c].status = 401 \/ call[c].op = "logout")
             /\ ~(call[c].status = 200 /\ call[c].op \in {"login", "csrf"})
    <3>1. authed' = authed /\ store' = store
      BY <2>3 DEF Resolve
    <3> QED BY <1>1, <3>1 DEF Typed
  <2> QED BY <2>1, <2>2, <2>3
<1>5. jar' = jar /\ UNCHANGED server
  BY DEF Resolve
<1>6. CASE call[c].op = "me" /\ call[c].status = 200
  <2>1. Put(c, Sent(t, "csrf")) /\ page' = page /\ "csrf" \in Ops
    BY <1>6 DEF Resolve, Ops
  <2>2. authed' = authed /\ store' = store
    BY <1>6 DEF Resolve
  <2>3. /\ call' \in [Calls -> AnyCall] /\ call'[c] = Sent(t, "csrf")
        /\ \A d \in Calls \ {c} : call'[d] = call[d]
    BY <1>1, <2>1, SentTypes, PutTypes DEF AnyCall
  <2>4. /\ call'[c].at = "sent" /\ call'[c].tab = t /\ call'[c].op = "csrf"
        /\ Own(c)' /\ Wrote(c)'
    BY <1>5, <2>1, <2>3, SentTells
  <2>5. Typed'
    BY <1>1, <1>5, <2>1, <2>2, <2>3 DEF Typed, server
  <2>6. TabMoves(t, c)
    BY <1>5, <2>1, <2>2, <2>3, <2>4 DEF TabMoves
  <2>7. \A d \in Calls : /\ SentBy(t, d)' <=> SentBy(t, d)
                         /\ Issuing(d)' <=> Issuing(d)
                         /\ call'[d].op \in {"me", "csrf"} <=> call[d].op \in {"me", "csrf"}
    BY <1>2, <1>6, <2>3, <2>4 DEF SentBy, Issuing
  <2>8. Waits(t)'
    BY <1>3, <2>1, <2>2, <2>7 DEF Waits
  <2>9. Latest(t)'
    BY <1>3, <1>5, <2>2, <2>3, <2>4, <2>7 DEF Latest, server
  <2> QED BY <1>2, <2>4, <2>5, <2>6, <2>8, <2>9, TabStep
<1>7. CASE ~(call[c].op = "me" /\ call[c].status = 200)
  <2>1. Put(c, NoCall)
    BY <1>7 DEF Resolve
  <2>2. /\ call' \in [Calls -> AnyCall] /\ call'[c] = NoCall
        /\ \A d \in Calls \ {c} : call'[d] = call[d]
    BY <1>1, <2>1, PutTypes DEF AnyCall
  <2>3. page' = IF call[c].op \in {"me", "csrf"} THEN [page EXCEPT ![t] = "ready"] ELSE page
    BY <1>7 DEF Resolve
  <2>4. /\ page' \in [Tabs -> {"closed", "boot", "ready"}]
        /\ page'[t] = IF call[c].op \in {"me", "csrf"} THEN "ready" ELSE page[t]
        /\ \A u \in Tabs \ {t} : page'[u] = page[u]
    BY <1>1, <1>2, <2>3 DEF Typed
  <2>5. Typed'
    BY <1>1, <1>4, <1>5, <2>2, <2>4 DEF Typed, server
  <2>6. Ends(t, c)
    BY <1>4, <1>5, <2>2, <2>4 DEF Ends
  <2> QED BY <1>1, <1>2, <1>4, <2>5, <2>6, EndStep
<1> QED BY <1>6, <1>7

LEMMA LoseSafe ==
  ASSUME SessionInv, NEW c \in Calls, NEW t \in Tabs, call[c].tab = t, Lose(c)
  PROVE  SessionInv'
<1>1. Typed /\ call[c].at # "free" /\ NoToken \in Given
  BY DEF SessionInv, Lose, Given
<1>2. SentBy(t, c)
  BY <1>1 DEF SentBy
<1>3. /\ store' \in [Tabs -> Given] /\ authed' \in [Tabs -> BOOLEAN]
      /\ \A u \in Tabs \ {t} : authed'[u] = authed[u] /\ store'[u] = store[u]
      /\ ~authed'[t] \/ (authed' = authed /\ store' = store)
  <2>1. CASE call[c].op = "logout"
    <3>1. SetAuth(t, NoToken, FALSE)
      BY <2>1 DEF Lose
    <3> QED BY <1>1, <1>2, <3>1, SetAuthEffect
  <2>2. CASE call[c].op # "logout"
    BY <1>1, <2>2 DEF Lose, Typed
  <2> QED BY <2>1, <2>2
<1>4. /\ call' \in [Calls -> AnyCall] /\ call'[c] = NoCall
      /\ \A d \in Calls \ {c} : call'[d] = call[d]
  BY <1>1, PutTypes DEF Lose, AnyCall
<1>5. /\ page' \in [Tabs -> {"closed", "boot", "ready"}]
      /\ page'[t] = IF call[c].op \in {"me", "csrf"} THEN "ready" ELSE page[t]
      /\ \A u \in Tabs \ {t} : page'[u] = page[u]
  BY <1>1, <1>2 DEF Lose, Typed
<1>6. jar' = jar /\ UNCHANGED server
  BY DEF Lose
<1>7. Typed'
  BY <1>1, <1>3, <1>4, <1>5, <1>6 DEF Typed, server
<1>8. Ends(t, c)
  BY <1>3, <1>4, <1>5, <1>6 DEF Ends
<1> QED BY <1>2, <1>3, <1>7, <1>8, EndStep

-----------------------------------------------------------------------------
(* The browser *)

\* An answer plants the token of its own tab, which is not logged in, or none.
LEMMA ArriveSafe ==
  ASSUME SessionInv, NEW c \in Calls, Arrive(c)
  PROVE  SessionInv'
<1> DEFINE r == call[c]
           t == call[c].tab
<1>1. Typed /\ r.at = "served" /\ Answered(c) /\ Own(c) /\ Wrote(c) /\ Tells(c)
  BY DEF SessionInv, Circulating, Arrive, Answered
<1>2. r \in ServedCalls /\ t \in Tabs /\ SentBy(t, c)
  BY <1>1, CallTypes DEF SentBy, ServedCalls
<1>3. /\ [r EXCEPT !.at = "arrived"] \in ServedCalls
      /\ Put(c, [r EXCEPT !.at = "arrived"])
  BY <1>2 DEF ServedCalls, Arrive
<1>4. /\ call' \in [Calls -> AnyCall] /\ call'[c] = [r EXCEPT !.at = "arrived"]
      /\ \A d \in Calls \ {c} : call'[d] = call[d]
  <2> HIDE DEF r
  <2> QED BY <1>1, <1>3, PutTypes DEF AnyCall
<1>5. /\ call'[c].at = "arrived" /\ call'[c].tab = t /\ call'[c].op = r.op
      /\ call'[c].status = r.status /\ call'[c].session = r.session
      /\ call'[c].cookie = r.cookie /\ call'[c].header = r.header
      /\ call'[c].token = r.token
  BY <1>2, <1>4 DEF ServedCalls
<1>6. jar' = (IF r.cookies = Keep THEN jar ELSE r.cookies) /\ UNCHANGED <<server, script>>
  BY DEF Arrive
<1>7. Typed'
  BY <1>1, <1>2, <1>4, <1>6 DEF Typed, server, script, ServedCalls
<1>8. Grows
  BY <1>1, <1>6 DEF Grows, server, Typed
<1>9. Matched(jar)' /\ jar'.csrf <= issued'
  BY <1>1, <1>6 DEF SessionInv, Circulating, Matched, Tells, Own, server
<1>10. Own(c)' /\ Wrote(c)' /\ Tells(c)'
  BY <1>1, <1>5, <1>6 DEF Own, Wrote, Tells, Answered, server
<1>11. \A d \in Calls : Own(d)' /\ Wrote(d)' /\ Tells(d)'
  BY <1>1, <1>4, <1>7, <1>8, <1>10, CallStays DEF SessionInv, Circulating
<1>12. \A u \in Tabs, d \in Calls :
         (SentBy(u, d)' <=> SentBy(u, d)) /\ call'[d].op = call[d].op
  BY <1>1, <1>4, <1>5 DEF SentBy
<1>13. ASSUME NEW u \in Tabs PROVE Waits(u)'
  <2>1. Waits(u)
    BY DEF SessionInv
  <2> QED BY <1>6, <1>12, <2>1 DEF Waits, Issuing, script
<1>14. ASSUME NEW u \in Tabs PROVE Latest(u)'
  <2>1. Latest(u) /\ Waits(u)
    BY DEF SessionInv
  <2>2. CASE r.cookies = Keep \/ r.cookies.csrf = NoToken
    <3>1. jar'.csrf = NoToken \/ (jar' = jar /\ r.cookies = Keep)
      BY <1>6, <2>2
    <3>2. CASE jar'.csrf = NoToken
      BY <3>2 DEF Latest
    <3>3. CASE jar' = jar /\ r.cookies = Keep
      <4>1. ~(r.op \in {"login", "csrf"} /\ r.status = 200)
        BY <1>1, <3>3 DEF Tells
      <4>2. \A d \in Calls :
              /\ call'[d].at = "arrived" /\ call'[d].status = 200
              /\ call'[d].op \in {"login", "csrf"}
              => call'[d] = call[d]
        <5>1. ~(call'[c].op \in {"login", "csrf"} /\ call'[c].status = 200)
          BY <1>5, <4>1
        <5> QED BY <1>4, <5>1
      <4> QED BY <1>6, <1>12, <2>1, <3>3, <4>2 DEF Latest, server, script
    <3> QED BY <3>1, <3>2, <3>3
  <2>3. CASE r.cookies # Keep /\ r.cookies.csrf # NoToken
    <3>1. /\ r.op \in {"login", "csrf"} /\ r.status = 200 /\ jar'.csrf = r.token
          /\ owner'[jar'.csrf] = t
      BY <1>1, <1>6, <2>3 DEF Tells, server
    <3>2. CASE u # t
      BY <3>1, <3>2 DEF Latest
    <3>3. CASE u = t
      <4>1. ~authed'[u]
        BY <1>2, <1>6, <2>1, <3>1, <3>3 DEF Waits, Issuing, script
      <4>2. \A d \in Calls : SentBy(u, d) /\ Issuing(d) => d = c
        BY <1>2, <2>1, <3>1, <3>3 DEF Waits, Issuing
      <4> QED BY <1>5, <1>12, <3>1, <4>1, <4>2 DEF Latest, Issuing
    <3> QED BY <3>2, <3>3
  <2> QED BY <2>2, <2>3
<1> QED BY <1>7, <1>9, <1>11, <1>13, <1>14 DEF SessionInv, Circulating

LEMMA ExpirySafe ==
  ASSUME SessionInv, CookiesExpire \/ \E n \in Tokens : SessionExpires(n)
  PROVE  SessionInv'
<1>1. Typed /\ issued \in Nat
  BY DEF SessionInv, Typed
<1>2. /\ UNCHANGED <<issued, owner, under, page, authed, store, call>>
      /\ expired' \subseteq Tokens
      /\ jar' = jar \/ jar' = Clear
  BY <1>1 DEF CookiesExpire, SessionExpires, server, script, Typed
<1>3. Clear \in Pairs /\ Clear.session = NoToken /\ Clear.csrf = NoToken
  BY PairIsKept DEF Clear, Given
<1>4. Typed'
  BY <1>1, <1>2, <1>3 DEF Typed
<1>5. Matched(jar)' /\ jar'.csrf <= issued'
  BY <1>1, <1>2, <1>3 DEF SessionInv, Circulating, Matched, NoToken
<1>6. \A c \in Calls : Own(c)' /\ Wrote(c)' /\ Tells(c)'
  BY <1>2 DEF SessionInv, Circulating, Own, Wrote, Tells, Answered, Matched
<1>7. ASSUME NEW t \in Tabs PROVE Waits(t)' /\ Latest(t)'
  <2>1. Waits(t) /\ Latest(t)
    BY DEF SessionInv
  <2>2. Waits(t)'
    BY <1>2, <2>1 DEF Waits, SentBy, Issuing
  <2>3. Latest(t)'
    BY <1>2, <1>3, <2>1 DEF Latest, SentBy
  <2> QED BY <2>2, <2>3
<1> QED BY <1>4, <1>5, <1>6, <1>7 DEF SessionInv, Circulating

LEMMA IdleSafe == ASSUME SessionInv, UNCHANGED sessionVars PROVE SessionInv'
<1>1. Typed' /\ Matched(jar)' /\ Circulating'
  BY DEF SessionInv, sessionVars, Typed, Matched, Circulating, Own, Answered
<1>2. \A c \in Calls : Wrote(c)' /\ Tells(c)'
  BY DEF SessionInv, sessionVars, Wrote, Tells, Answered, Matched
<1>3. \A t \in Tabs : Waits(t)' /\ Latest(t)'
  BY DEF SessionInv, sessionVars, Waits, Latest, SentBy, Issuing
<1> QED BY <1>1, <1>2, <1>3 DEF SessionInv

LEMMA SessionStep ==
  ASSUME SessionInv, [SessionNext]_sessionVars
  PROVE  SessionInv'
<1>1. ASSUME NEW c \in Calls, Resolve(c) \/ Lose(c) PROVE SessionInv'
  <2>1. Typed /\ call[c].at # "free"
    BY <1>1 DEF SessionInv, Resolve, Lose
  <2>2. call[c].tab \in Tabs
    BY <2>1, CallTypes
  <2> QED BY <1>1, <2>2, ResolveSafe, LoseSafe
<1> QED BY <1>1, BootSafe, SendSafe, LoginSafe, CsrfSafe, ServeSafe, ArriveSafe,
           ExpirySafe, IdleSafe DEF SessionNext

-----------------------------------------------------------------------------
(* Theorems *)

\* The invariant holds, whatever the tabs and the network do.
THEOREM SessionInvariance == SessionSpec => []SessionInv
<1>1. SessionInit => SessionInv
  BY SessionInitInv
<1>2. SessionInv /\ [SessionNext]_sessionVars => SessionInv'
  BY SessionStep
<1> QED BY <1>1, <1>2, PTL DEF SessionSpec

\* The variables keep their types.
THEOREM SessionTypeCorrect == SessionSpec => []SessionTypeOK
<1>1. SessionInv => SessionTypeOK
  <2> SUFFICES ASSUME SessionInv PROVE SessionTypeOK
    OBVIOUS
  <2>1. Typed
    BY DEF SessionInv
  <2> QED BY <2>1, CallTypes DEF Typed, SessionTypeOK, Pairs, Given
<1> QED BY <1>1, SessionInvariance, PTL

\* CsrfMiddleware refuses a call of the application only because of another tab,
\* whatever answers are late, lost or out of order.
THEOREM OthersOnlyRefuse == SessionSpec => []RefusedOnlyByAnother
<1>1. SessionInv => RefusedOnlyByAnother
  <2> SUFFICES ASSUME SessionInv, NEW c \in Calls, Answered(c), call[c].status = 403
               PROVE  /\ call[c].header # NoToken
                      /\ owner[call[c].cookie] # call[c].tab
    BY DEF RefusedOnlyByAnother
  <2>1. Wrote(c) /\ Tells(c)
    BY DEF SessionInv
  <2> QED BY <2>1 DEF Wrote, Tells, Answered
<1> QED BY <1>1, SessionInvariance, PTL

\* A write that CsrfMiddleware lets through is one of the session its token was
\* issued under.
THEOREM WritesKeepTheirSession == SessionSpec => []WritesStayInSession
<1>1. SessionInv => WritesStayInSession
  <2> SUFFICES ASSUME SessionInv, NEW c \in Calls, Answered(c), call[c].op = "mutate",
                      call[c].status = 200
               PROVE  under[call[c].header] = call[c].session
    BY DEF WritesStayInSession
  <2>1. Wrote(c) /\ Tells(c)
    BY DEF SessionInv
  <2> QED BY <2>1 DEF Wrote, Tells, Answered
<1> QED BY <1>1, SessionInvariance, PTL
==============================================================================
