------------------------------- MODULE MlScoring -------------------------------
(***************************************************************************)
(* Scoring a request: the ml-service process, which loads a model when it   *)
(* starts (model_loader.py) and answers /score from worker threads          *)
(* (main.py), its best-effort cache in Redis (cache.py), and the two        *)
(* clients that wait for an answer for a few milliseconds and do without    *)
(* it: the gate in the proxy (score.lua) and the panel (api/ml.py).         *)
(*                                                                         *)
(* A request is the part the cache key is made of and the rest: its body,   *)
(* user agent and referer, which the model sees and the key does not.       *)
(* Probabilities are cut into steps 0..One; time is counted in steps of the *)
(* cache's clock.                                                           *)
(***************************************************************************)
EXTENDS Naturals

CONSTANTS
    Keys,      \* method, path and query of a request
    Rests,     \* everything else the features are computed from
    Versions,  \* model versions that can be promoted
    Requests,  \* requests in flight
    One,       \* stands for 1.0
    TTL,       \* ML_REDIS_TTL_SEC
    Score,     \* what each version gives to each request, None if it raises
    None

Probs == 0..One

ASSUME ConstantsAssumption ==
    /\ One \in Nat \ {0}
    /\ TTL \in Nat \ {0}
    /\ Score \in [Versions -> [Keys -> [Rests -> Probs \cup {None}]]]
    /\ None \notin Versions
    /\ None \notin Nat

Clients == {"gate", "panel"}

VARIABLES
    model,     \* version the service has loaded
    uptime,    \* time since it started, up to TTL
    caching,   \* Redis answered the ping at start
    entry,     \* cached version and probability by key
    left,      \* time before an entry expires
    pc,        \* where each request stands in the service
    client,    \* who sent it
    key, rest, \* the request
    prob, version, \* the answer, or what has been computed of it
    verdict,   \* what the client did with the request
    threshold  \* ML_BLOCK_THRESHOLD the proxy was started with

vars == <<model, uptime, caching, entry, left, pc, client, key, rest, prob,
          version, verdict, threshold>>
service == <<model, uptime, caching>>
cache == <<entry, left>>
request == <<client, key, rest>>

NoEntry == [version |-> None, prob |-> None]

Answer(r, p, v) ==
    /\ pc' = [pc EXCEPT ![r] = "answered"]
    /\ prob' = [prob EXCEPT ![r] = p]
    /\ version' = [version EXCEPT ![r] = v]

Init ==
    /\ model \in Versions \cup {None}
    /\ uptime = 0
    /\ caching \in BOOLEAN
    /\ entry = [k \in Keys |-> NoEntry]
    /\ left = [k \in Keys |-> 0]
    /\ pc = [r \in Requests |-> "idle"]
    /\ client \in [Requests -> {"gate"}]
    /\ key \in [Requests -> Keys]
    /\ rest \in [Requests -> Rests]
    /\ prob = [r \in Requests |-> None]
    /\ version = [r \in Requests |-> None]
    /\ verdict = [r \in Requests |-> "none"]
    /\ threshold \in Probs

-----------------------------------------------------------------------------
(* POST /score *)

\* The gate's subrequest, or the panel's POST of /ml/inspect.
Arrive(r, c, k, e) ==
    /\ pc[r] = "idle"
    /\ pc' = [pc EXCEPT ![r] = "lookup"]
    /\ client' = [client EXCEPT ![r] = c]
    /\ key' = [key EXCEPT ![r] = k]
    /\ rest' = [rest EXCEPT ![r] = e]
    /\ prob' = [prob EXCEPT ![r] = None]
    /\ version' = [version EXCEPT ![r] = None]
    /\ verdict' = [verdict EXCEPT ![r] = "none"]
    /\ UNCHANGED <<service, cache, threshold>>

NoModel(r) ==
    /\ pc[r] = "lookup"
    /\ model = None
    /\ Answer(r, None, None)
    /\ UNCHANGED <<service, cache, request, verdict, threshold>>

\* Mutated forms of the step below: the cache is read before the model is
\* looked at, the answer is labelled with the model that is loaded, and a GETEX
\* that puts the expiry off.
HitWithoutModel(r) ==
    /\ pc[r] = "lookup"
    /\ caching
    /\ entry[key[r]] # NoEntry
    /\ Answer(r, entry[key[r]].prob, entry[key[r]].version)
    /\ UNCHANGED <<service, cache, request, verdict, threshold>>
HitWithOwnVersion(r) ==
    /\ pc[r] = "lookup"
    /\ model # None
    /\ caching
    /\ entry[key[r]] # NoEntry
    /\ Answer(r, entry[key[r]].prob, model)
    /\ UNCHANGED <<service, cache, request, verdict, threshold>>

HitRefreshes(r) ==
    /\ pc[r] = "lookup"
    /\ model # None
    /\ caching
    /\ entry[key[r]] # NoEntry
    /\ left' = [left EXCEPT ![key[r]] = TTL]
    /\ Answer(r, entry[key[r]].prob, entry[key[r]].version)
    /\ UNCHANGED <<service, entry, request, verdict, threshold>>

Hit(r) ==
    /\ pc[r] = "lookup"
    /\ model # None
    /\ caching
    /\ entry[key[r]] # NoEntry
    /\ Answer(r, entry[key[r]].prob, entry[key[r]].version)
    /\ UNCHANGED <<service, cache, request, verdict, threshold>>

\* No client, no entry, or a GET that fails: any of them is a miss.
Miss(r) ==
    /\ pc[r] = "lookup"
    /\ model # None
    /\ pc' = [pc EXCEPT ![r] = "score"]
    /\ UNCHANGED <<service, cache, request, prob, version, verdict, threshold>>

\* featurize and predict; an exception is answered as a fallback.
Predict(r) ==
    /\ pc[r] = "score"
    /\ LET p == Score[model][key[r]][rest[r]] IN
        IF p = None
        THEN Answer(r, None, model)
        ELSE /\ pc' = [pc EXCEPT ![r] = "store"]
             /\ prob' = [prob EXCEPT ![r] = p]
             /\ version' = [version EXCEPT ![r] = model]
    /\ UNCHANGED <<service, cache, request, verdict, threshold>>

\* SETEX and the answer.
Store(r) ==
    /\ pc[r] = "store"
    /\ caching
    /\ entry' = [entry EXCEPT ![key[r]] =
                    [version |-> version[r], prob |-> prob[r]]]
    /\ left' = [left EXCEPT ![key[r]] = TTL]
    /\ Answer(r, prob[r], version[r])
    /\ UNCHANGED <<service, request, verdict, threshold>>

\* The cache is off, or SETEX fails.
StoreFails(r) ==
    /\ pc[r] = "store"
    /\ Answer(r, prob[r], version[r])
    /\ UNCHANGED <<service, cache, request, verdict, threshold>>

-----------------------------------------------------------------------------
(* The clients *)

\* Mutated form of the test below: no kill switch.
BlocksAtOne(r) ==
    client[r] = "gate" /\ prob[r] # None /\ prob[r] >= threshold

\* score.lua; the panel only shows what it gets.
Blocks(r) ==
    /\ client[r] = "gate"
    /\ prob[r] # None
    /\ threshold < One
    /\ prob[r] >= threshold

\* The answer reaches the client, if it still waits for it.
Deliver(r) ==
    /\ pc[r] = "answered"
    /\ pc' = [pc EXCEPT ![r] = "idle"]
    /\ verdict' = [verdict EXCEPT ![r] =
                    IF @ # "none" THEN @ ELSE IF Blocks(r) THEN "block" ELSE "pass"]
    /\ UNCHANGED <<service, cache, request, prob, version, threshold>>

\* The client's budget is spent, or the answer gets lost on its way: it goes on
\* without a score, and the service with its work.
GiveUp(r) ==
    /\ pc[r] # "idle"
    /\ verdict[r] = "none"
    /\ verdict' = [verdict EXCEPT ![r] = "pass"]
    /\ UNCHANGED <<service, cache, pc, request, prob, version, threshold>>

-----------------------------------------------------------------------------
(* The operator and the clock *)

\* `docker compose restart ml-service`, after a promotion or a rollback, or with
\* no model to be found.  Requests it was working on are cut off.
Restart(v) ==
    /\ model' = v
    /\ uptime' = 0
    /\ caching' \in BOOLEAN
    /\ pc' = [r \in Requests |-> IF pc[r] = "answered" THEN "answered" ELSE "idle"]
    /\ verdict' = [r \in Requests |->
                    IF pc[r] \in {"idle", "answered"} \/ verdict[r] # "none"
                    THEN verdict[r] ELSE "pass"]
    /\ UNCHANGED <<cache, request, prob, version, threshold>>

\* The proxy is started with another threshold; requests in it are lost.
ProxyUp(t) ==
    /\ threshold' = t
    /\ verdict' = [r \in Requests |->
                    IF client[r] = "gate" /\ pc[r] # "idle" /\ verdict[r] = "none"
                    THEN "lost" ELSE verdict[r]]
    /\ UNCHANGED <<service, cache, pc, request, prob, version>>

\* Redis loses what it had.
RedisRestart ==
    /\ entry' = [k \in Keys |-> NoEntry]
    /\ left' = [k \in Keys |-> 0]
    /\ UNCHANGED <<service, pc, request, prob, version, verdict, threshold>>

Tick ==
    /\ uptime' = IF uptime < TTL THEN uptime + 1 ELSE TTL
    /\ left' = [k \in Keys |-> IF left[k] > 0 THEN left[k] - 1 ELSE 0]
    /\ entry' = [k \in Keys |-> IF left[k] > 1 THEN entry[k] ELSE NoEntry]
    /\ UNCHANGED <<model, caching, pc, request, prob, version, verdict, threshold>>

-----------------------------------------------------------------------------
Handle(r) ==
    \/ \E c \in Clients, k \in Keys, e \in Rests : Arrive(r, c, k, e)
    \/ NoModel(r)
    \/ Hit(r)
    \/ Miss(r)
    \/ Predict(r)
    \/ Store(r)
    \/ StoreFails(r)
    \/ Deliver(r)
    \/ GiveUp(r)

Next ==
    \/ \E r \in Requests : Handle(r)
    \/ \E v \in Versions \cup {None} : Restart(v)
    \/ \E t \in Probs : ProxyUp(t)
    \/ RedisRestart
    \/ Tick

Spec == Init /\ [][Next]_vars

-----------------------------------------------------------------------------
(* Properties *)

Entries == [version : Versions, prob : Probs] \cup {NoEntry}

TypeOK ==
    /\ model \in Versions \cup {None}
    /\ uptime \in 0..TTL
    /\ caching \in BOOLEAN
    /\ entry \in [Keys -> Entries]
    /\ left \in [Keys -> 0..TTL]
    /\ pc \in [Requests -> {"idle", "lookup", "score", "store", "answered"}]
    /\ client \in [Requests -> Clients]
    /\ key \in [Requests -> Keys]
    /\ rest \in [Requests -> Rests]
    /\ prob \in [Requests -> Probs \cup {None}]
    /\ version \in [Requests -> Versions \cup {None}]
    /\ verdict \in [Requests -> {"none", "pass", "block", "lost"}]
    /\ threshold \in Probs

\* "numeric scores within 30 s (cache TTL)" (runbook): what an earlier model left
\* in the cache is gone once the service has been up for a TTL, however late a
\* slow request stored it.
StaleEntriesDie ==
    \A k \in Keys :
        entry[k] # NoEntry /\ entry[k].version # model => left[k] + uptime <= TTL

IsScore(v, k, p) == \E e \in Rests : Score[v][k][e] = p

\* A probability and the version it is attributed to belong together, whichever
\* process computed it and wherever it has been kept in the meantime.
ScoresKeepTheirVersion ==
    \A r \in Requests :
        pc[r] = "answered" /\ prob[r] # None =>
            version[r] # None /\ IsScore(version[r], key[r], prob[r])

\* An answer with a score is given only while a model is loaded, and by that
\* model unless the service has just been restarted.
OldModelFadesOut ==
    [][\A r \in Requests :
        pc[r] # "answered" /\ pc'[r] = "answered" /\ prob'[r] # None =>
            /\ model # None
            /\ version'[r] = model \/ uptime < TTL]_vars

\* The gate blocks only while its threshold is below 1.0, and only a request
\* some model gave a probability that reaches the threshold.
BlockNeedsScore ==
    [][\A r \in Requests :
        verdict[r] # "block" /\ verdict'[r] = "block" =>
            /\ threshold < One
            /\ \E v \in Versions, p \in Probs :
                IsScore(v, key[r], p) /\ p >= threshold]_vars
=============================================================================
