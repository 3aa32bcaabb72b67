---------------------------- MODULE MlScoringProofs ----------------------------
(***************************************************************************)
(* Proofs about MlScoring, for any keys, requests, versions, scores, TTL    *)
(* and probability scale.  The two facts its properties do not say: what a  *)
(* request is about to store was computed by the model that is loaded       *)
(* (Working), and an entry in the cache has time left and is a score of its *)
(* version (CacheOK).                                                       *)
(***************************************************************************)
EXTENDS MlScoring, TLAPS

Working ==
    \A r \in Requests :
        /\ pc[r] = "score" => model # None
        /\ pc[r] = "store" =>
            /\ model # None
            /\ version[r] = model
            /\ prob[r] # None
            /\ IsScore(version[r], key[r], prob[r])

CacheOK ==
    \A k \in Keys : entry[k] # NoEntry =>
        /\ left[k] >= 1
        /\ entry[k].version # None
        /\ entry[k].prob # None
        /\ IsScore(entry[k].version, k, entry[k].prob)

IInv == TypeOK /\ Working /\ CacheOK /\ StaleEntriesDie /\ ScoresKeepTheirVersion

-----------------------------------------------------------------------------
\* The service and the proxy have just been started and the cache is empty.
LEMMA InitIInv == Init => IInv
<1> SUFFICES ASSUME Init PROVE IInv
  OBVIOUS
<1>1. TTL \in Nat /\ TTL > 0
  BY ConstantsAssumption
<1>2. TypeOK
  BY <1>1 DEF Init, TypeOK, Entries, Clients
<1>3. Working /\ CacheOK /\ StaleEntriesDie /\ ScoresKeepTheirVersion
  BY DEF Init, Working, CacheOK, StaleEntriesDie, ScoresKeepTheirVersion
<1> QED BY <1>2, <1>3 DEF IInv

\* What a request does in the service.
LEMMA AnswerIInv ==
  ASSUME IInv, NEW r \in Requests, NEW p \in Probs \cup {None},
         NEW v \in Versions \cup {None}, Answer(r, p, v),
         p # None => v # None /\ IsScore(v, key[r], p),
         UNCHANGED <<service, cache, request, verdict, threshold>>
  PROVE  IInv'
<1>1. TypeOK'
  BY DEF IInv, TypeOK, Answer, service, cache, request
<1>2. Working'
  BY DEF IInv, TypeOK, Working, IsScore, Answer, service, request
<1>3. CacheOK' /\ StaleEntriesDie'
  BY DEF IInv, CacheOK, StaleEntriesDie, IsScore, service, cache
<1>4. ScoresKeepTheirVersion'
  BY DEF IInv, TypeOK, ScoresKeepTheirVersion, IsScore, Answer, request
<1> QED BY <1>1, <1>2, <1>3, <1>4 DEF IInv

\* An entry, when there is one, is a version and one of its scores.
LEMMA EntryFacts ==
  ASSUME IInv, NEW k \in Keys, entry[k] # NoEntry
  PROVE  /\ entry[k].version \in Versions /\ entry[k].prob \in Probs
         /\ entry[k].version # None /\ entry[k].prob # None
         /\ IsScore(entry[k].version, k, entry[k].prob)
  BY DEF IInv, TypeOK, Entries, CacheOK

\* Every step of a request keeps the invariant.
LEMMA HandleIInv ==
  ASSUME IInv, NEW r \in Requests, Handle(r)
  PROVE  IInv'
<1>1. ASSUME NEW c \in Clients, NEW k \in Keys, NEW e \in Rests, Arrive(r, c, k, e)
      PROVE  IInv'
  <2>1. TypeOK'
    BY <1>1 DEF IInv, TypeOK, Arrive, service, cache
  <2>2. Working' /\ ScoresKeepTheirVersion'
    BY <1>1 DEF IInv, TypeOK, Working, ScoresKeepTheirVersion, IsScore, Arrive, service
  <2>3. CacheOK' /\ StaleEntriesDie'
    BY <1>1 DEF IInv, CacheOK, StaleEntriesDie, IsScore, Arrive, service, cache
  <2> QED BY <2>1, <2>2, <2>3 DEF IInv
<1>2. CASE NoModel(r)
  BY <1>2, AnswerIInv DEF NoModel
<1>3. CASE Hit(r)
  <2>1. key[r] \in Keys /\ entry[key[r]] # NoEntry
    BY <1>3 DEF IInv, TypeOK, Hit
  <2> QED BY <1>3, <2>1, EntryFacts, AnswerIInv DEF Hit
<1>4. CASE Miss(r)
  <2>1. TypeOK'
    BY <1>4 DEF IInv, TypeOK, Miss, service, cache, request
  <2>2. Working' /\ ScoresKeepTheirVersion'
    BY <1>4 DEF IInv, TypeOK, Working, ScoresKeepTheirVersion, IsScore, Miss, service, request
  <2>3. CacheOK' /\ StaleEntriesDie'
    BY <1>4 DEF IInv, CacheOK, StaleEntriesDie, IsScore, Miss, service, cache
  <2> QED BY <2>1, <2>2, <2>3 DEF IInv
<1>5. CASE Predict(r)
  <2> DEFINE p == Score[model][key[r]][rest[r]]
  <2>1. /\ pc[r] = "score" /\ model \in Versions
        /\ key[r] \in Keys /\ rest[r] \in Rests
    BY <1>5 DEF IInv, TypeOK, Working, Predict
  <2>2. p \in Probs \cup {None}
    BY <2>1, ConstantsAssumption
  <2>3. CASE p = None
    BY <1>5, <2>1, <2>3, AnswerIInv DEF Predict
  <2>4. CASE p # None
    <3>1. /\ pc' = [pc EXCEPT ![r] = "store"]
          /\ prob' = [prob EXCEPT ![r] = p]
          /\ version' = [version EXCEPT ![r] = model]
          /\ UNCHANGED <<service, cache, request, verdict, threshold>>
      BY <1>5, <2>4 DEF Predict
    <3>2. IsScore(model, key[r], p)
      BY <2>1 DEF IsScore
    <3> HIDE DEF p
    <3>3. TypeOK'
      BY <2>1, <2>2, <3>1 DEF IInv, TypeOK, service, cache, request
    <3>4. model # None
      BY <2>1, ConstantsAssumption
    <3>5. Working'
      BY <2>4, <3>1, <3>2, <3>4 DEF IInv, TypeOK, Working, IsScore, service, request
    <3>6. CacheOK' /\ StaleEntriesDie'
      BY <3>1 DEF IInv, CacheOK, StaleEntriesDie, IsScore, service, cache
    <3>7. ScoresKeepTheirVersion'
      BY <3>1 DEF IInv, TypeOK, ScoresKeepTheirVersion, IsScore, request
    <3> QED BY <3>3, <3>5, <3>6, <3>7 DEF IInv
  <2> QED BY <2>3, <2>4
<1>6. CASE Store(r)
  <2> DEFINE new == [version |-> version[r], prob |-> prob[r]]
             k == key[r]
  <2>1. /\ k \in Keys /\ version[r] = model /\ version[r] \in Versions
        /\ prob[r] \in Probs /\ prob[r] # None /\ version[r] # None
        /\ IsScore(version[r], k, prob[r])
    BY <1>6 DEF IInv, TypeOK, Working, Store
  <2>2. TTL \in Nat /\ TTL >= 1
    BY ConstantsAssumption
  <2>3. /\ entry' = [entry EXCEPT ![k] = new]
        /\ left' = [left EXCEPT ![k] = TTL]
        /\ Answer(r, prob[r], version[r])
        /\ UNCHANGED <<service, request, verdict, threshold>>
    BY <1>6 DEF Store
  <2>4. new \in Entries /\ new.version = version[r] /\ new.prob = prob[r]
    BY <2>1 DEF Entries
  <2> HIDE DEF new, k
  <2>5. TypeOK'
    BY <2>1, <2>2, <2>3, <2>4 DEF IInv, TypeOK, Answer, service, request
  <2>6. Working'
    BY <2>3 DEF IInv, TypeOK, Working, IsScore, Answer, service, request
  <2>7. CacheOK'
    BY <2>1, <2>2, <2>3, <2>4 DEF IInv, TypeOK, CacheOK, IsScore
  <2>8. StaleEntriesDie'
    BY <2>1, <2>3, <2>4 DEF IInv, TypeOK, StaleEntriesDie, service
  <2>9. ScoresKeepTheirVersion'
    BY <2>1, <2>3 DEF IInv, TypeOK, ScoresKeepTheirVersion, IsScore, Answer, request, k
  <2> QED BY <2>5, <2>6, <2>7, <2>8, <2>9 DEF IInv
<1>7. CASE StoreFails(r)
  <2>1. /\ version[r] \in Versions /\ prob[r] \in Probs
        /\ version[r] # None /\ IsScore(version[r], key[r], prob[r])
    BY <1>7 DEF IInv, TypeOK, Working, StoreFails
  <2> QED BY <1>7, <2>1, AnswerIInv DEF StoreFails
<1>8. CASE Deliver(r)
  <2>1. TypeOK'
    BY <1>8 DEF IInv, TypeOK, Deliver, service, cache, request
  <2>2. Working' /\ ScoresKeepTheirVersion'
    BY <1>8 DEF IInv, TypeOK, Working, ScoresKeepTheirVersion, IsScore, Deliver, service, request
  <2>3. CacheOK' /\ StaleEntriesDie'
    BY <1>8 DEF IInv, CacheOK, StaleEntriesDie, IsScore, Deliver, service, cache
  <2> QED BY <2>1, <2>2, <2>3 DEF IInv
<1>9. CASE GiveUp(r)
  <2>1. TypeOK'
    BY <1>9 DEF IInv, TypeOK, GiveUp, service, cache, request
  <2>2. Working' /\ ScoresKeepTheirVersion' /\ CacheOK' /\ StaleEntriesDie'
    BY <1>9 DEF IInv, Working, ScoresKeepTheirVersion, CacheOK, StaleEntriesDie,
                IsScore, GiveUp, service, cache, request
  <2> QED BY <2>1, <2>2 DEF IInv
<1> QED BY <1>1, <1>2, <1>3, <1>4, <1>5, <1>6, <1>7, <1>8, <1>9 DEF Handle

\* A restart cuts off the requests at work, so that nothing an old model
\* computed is stored later; what it stored before has at most a TTL to live.
LEMMA RestartIInv ==
  ASSUME IInv, NEW v \in Versions \cup {None}, Restart(v)
  PROVE  IInv'
<1>1. TTL \in Nat
  BY ConstantsAssumption
<1>2. TypeOK'
  BY <1>1 DEF IInv, TypeOK, Restart, cache, request
<1>3. Working' /\ ScoresKeepTheirVersion'
  BY DEF IInv, TypeOK, Working, ScoresKeepTheirVersion, IsScore, Restart, request
<1>4. CacheOK'
  BY DEF IInv, CacheOK, IsScore, Restart, cache
<1>5. StaleEntriesDie'
  <2> SUFFICES ASSUME NEW k \in Keys PROVE left[k] + 0 <= TTL
    BY DEF Restart, StaleEntriesDie, cache
  <2>1. left[k] \in 0..TTL BY DEF IInv, TypeOK
  <2> QED BY <1>1, <2>1
<1> QED BY <1>2, <1>3, <1>4, <1>5 DEF IInv

\* The clock takes from an entry's time what it adds to the uptime.
LEMMA TickIInv ==
  ASSUME IInv, Tick
  PROVE  IInv'
<1>1. TTL \in Nat /\ uptime \in 0..TTL
  BY ConstantsAssumption DEF IInv, TypeOK
<1>2. \A k \in Keys : left[k] \in 0..TTL /\ entry[k] \in Entries /\ NoEntry \in Entries
  BY DEF IInv, TypeOK, Entries
<1>3. TypeOK'
  <2>1. uptime' \in 0..TTL
    BY <1>1 DEF Tick
  <2>2. left' \in [Keys -> 0..TTL]
    BY <1>1, <1>2 DEF Tick
  <2>3. entry' \in [Keys -> Entries]
    BY <1>2 DEF Tick
  <2> QED BY <2>1, <2>2, <2>3 DEF IInv, TypeOK, Tick, request
<1>4. Working' /\ ScoresKeepTheirVersion'
  BY DEF IInv, Working, ScoresKeepTheirVersion, IsScore, Tick, request
<1>5. ASSUME NEW k \in Keys, entry'[k] # NoEntry
      PROVE  /\ entry'[k] = entry[k] /\ left'[k] = left[k] - 1 /\ left[k] > 1
             /\ left[k] \in Nat
  BY <1>1, <1>2, <1>5 DEF Tick
<1>6. CacheOK'
  BY <1>5 DEF IInv, CacheOK, IsScore
<1>7. StaleEntriesDie'
  <2> SUFFICES ASSUME NEW k \in Keys, entry'[k] # NoEntry, entry'[k].version # model
               PROVE  left'[k] + uptime' <= TTL
    BY DEF StaleEntriesDie, Tick
  <2>1. left[k] + uptime <= TTL
    BY <1>5 DEF IInv, StaleEntriesDie
  <2>2. uptime' = IF uptime < TTL THEN uptime + 1 ELSE TTL
    BY DEF Tick
  <2> QED BY <1>1, <1>5, <2>1, <2>2
<1> QED BY <1>3, <1>4, <1>6, <1>7 DEF IInv

\* Every step keeps the invariant.
LEMMA StepIInv == IInv /\ [Next]_vars => IInv'
<1> SUFFICES ASSUME IInv, [Next]_vars PROVE IInv'
  OBVIOUS
<1>1. ASSUME NEW r \in Requests, Handle(r) PROVE IInv'
  BY <1>1, HandleIInv
<1>2. ASSUME NEW v \in Versions \cup {None}, Restart(v) PROVE IInv'
  BY <1>2, RestartIInv
<1>3. ASSUME NEW t \in Probs, ProxyUp(t) PROVE IInv'
  <2>1. TypeOK'
    BY <1>3 DEF IInv, TypeOK, ProxyUp, service, cache, request
  <2>2. Working' /\ ScoresKeepTheirVersion' /\ CacheOK' /\ StaleEntriesDie'
    BY <1>3 DEF IInv, Working, ScoresKeepTheirVersion, CacheOK, StaleEntriesDie,
                IsScore, ProxyUp, service, cache, request
  <2> QED BY <2>1, <2>2 DEF IInv
<1>4. CASE RedisRestart
  <2>1. TypeOK'
    BY <1>4, ConstantsAssumption DEF IInv, TypeOK, RedisRestart, service, request, Entries
  <2>2. Working' /\ ScoresKeepTheirVersion'
    BY <1>4 DEF IInv, Working, ScoresKeepTheirVersion, IsScore, RedisRestart, service, request
  <2>3. CacheOK' /\ StaleEntriesDie'
    BY <1>4 DEF CacheOK, StaleEntriesDie, RedisRestart
  <2> QED BY <2>1, <2>2, <2>3 DEF IInv
<1>5. CASE Tick
  BY <1>5, TickIInv
<1>6. CASE UNCHANGED vars
  BY <1>6 DEF vars, service, cache, request, IInv, TypeOK, Working, CacheOK,
              StaleEntriesDie, ScoresKeepTheirVersion, IsScore
<1> QED BY <1>1, <1>2, <1>3, <1>4, <1>5, <1>6 DEF Next

\* The invariant holds for ever.
LEMMA Invariance == Spec => []IInv
<1> QED BY InitIInv, StepIInv, PTL DEF Spec

-----------------------------------------------------------------------------
\* The service, its cache and its clients are always well typed.
THEOREM TypeCorrect == Spec => []TypeOK
<1>1. IInv => TypeOK BY DEF IInv
<1> QED BY <1>1, Invariance, PTL

\* What an earlier model cached is gone when the service has been up for a TTL.
THEOREM StaleEntriesExpire == Spec => []StaleEntriesDie
<1>1. IInv => StaleEntriesDie BY DEF IInv
<1> QED BY <1>1, Invariance, PTL

\* A probability is never attributed to a version that did not compute it.
THEOREM ScoresAreAttributed == Spec => []ScoresKeepTheirVersion
<1>1. IInv => ScoresKeepTheirVersion BY DEF IInv
<1> QED BY <1>1, Invariance, PTL

\* Scores come from the loaded model once the service has been up for a TTL.
THEOREM OldModelsFadeOut == Spec => OldModelFadesOut
<1> DEFINE Fades ==
      \A r \in Requests :
        pc[r] # "answered" /\ pc'[r] = "answered" /\ prob'[r] # None =>
            /\ model # None
            /\ version'[r] = model \/ uptime < TTL
<1>1. IInv /\ [Next]_vars => Fades
  <2> SUFFICES ASSUME IInv, [Next]_vars, NEW r \in Requests,
                      pc[r] # "answered", pc'[r] = "answered", prob'[r] # None
               PROVE  model # None /\ (version'[r] = model \/ uptime < TTL)
    OBVIOUS
  <2>1. PICK q \in Requests : Handle(q)
    BY DEF Next, vars, Restart, ProxyUp, RedisRestart, Tick, IInv, TypeOK
  <2>2. pc \in [Requests -> {"idle", "lookup", "score", "store", "answered"}]
    BY DEF IInv, TypeOK
  <2>3. q = r /\ (NoModel(q) \/ Hit(q) \/ Predict(q) \/ Store(q) \/ StoreFails(q))
    BY <2>1, <2>2 DEF Handle, Arrive, NoModel, Hit, Miss, Predict, Store, StoreFails,
                      Deliver, GiveUp, Answer
  <2>4. prob \in [Requests -> Probs \cup {None}] /\ version \in [Requests -> Versions \cup {None}]
    BY DEF IInv, TypeOK
  <2>5. CASE NoModel(r)
    BY <2>4, <2>5 DEF NoModel, Answer
  <2>6. CASE Hit(r)
    <3> DEFINE k == key[r]
    <3>1. /\ k \in Keys /\ model # None /\ entry[k] # NoEntry
          /\ version'[r] = entry[k].version
      BY <2>4, <2>6 DEF IInv, TypeOK, Hit, Answer
    <3>2. left[k] >= 1 /\ (entry[k].version # model => left[k] + uptime <= TTL)
      BY <3>1 DEF IInv, CacheOK, StaleEntriesDie
    <3>3. left[k] \in 0..TTL /\ uptime \in 0..TTL /\ TTL \in Nat
      BY <3>1, ConstantsAssumption DEF IInv, TypeOK
    <3> QED BY <3>1, <3>2, <3>3
  <2>7. CASE Predict(r)
    BY <2>2, <2>4, <2>7 DEF Predict, Answer
  <2>8. CASE Store(r) \/ StoreFails(r)
    <3>1. model # None /\ version[r] = model
      BY <2>8 DEF IInv, Working, Store, StoreFails
    <3>2. version'[r] = version[r]
      BY <2>4, <2>8 DEF Store, StoreFails, Answer
    <3> QED BY <3>1, <3>2
  <2> QED BY <2>3, <2>5, <2>6, <2>7, <2>8
<1> QED BY <1>1, Invariance, PTL DEF Spec, OldModelFadesOut

\* The gate blocks nothing at threshold 1.0, and nothing no model scored.
THEOREM BlocksAreEarned == Spec => BlockNeedsScore
<1> DEFINE Earned ==
      \A r \in Requests :
        verdict[r] # "block" /\ verdict'[r] = "block" =>
            /\ threshold < One
            /\ \E v \in Versions, p \in Probs :
                IsScore(v, key[r], p) /\ p >= threshold
<1>1. IInv /\ [Next]_vars => Earned
  <2> SUFFICES ASSUME IInv, [Next]_vars, NEW r \in Requests,
                      verdict[r] # "block", verdict'[r] = "block"
               PROVE  /\ threshold < One
                      /\ \E v \in Versions, p \in Probs :
                            IsScore(v, key[r], p) /\ p >= threshold
    OBVIOUS
  <2>1. verdict \in [Requests -> {"none", "pass", "block", "lost"}]
    BY DEF IInv, TypeOK
  <2>2. PICK q \in Requests : Handle(q)
    BY <2>1 DEF Next, vars, Restart, ProxyUp, RedisRestart, Tick
  <2>3. q = r /\ Deliver(q)
    BY <2>1, <2>2 DEF Handle, Arrive, NoModel, Hit, Miss, Predict, Store, StoreFails,
                      Deliver, GiveUp
  <2>4. pc[r] = "answered" /\ Blocks(r)
    BY <2>1, <2>3 DEF Deliver
  <2>5. /\ prob[r] \in Probs /\ version[r] \in Versions
        /\ IsScore(version[r], key[r], prob[r])
    BY <2>4 DEF IInv, TypeOK, ScoresKeepTheirVersion, Blocks
  <2> QED BY <2>4, <2>5 DEF Blocks
<1> QED BY <1>1, Invariance, PTL DEF Spec, BlockNeedsScore
=============================================================================
