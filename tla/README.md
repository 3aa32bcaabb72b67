# WAF panel: a verification development

TLA+ models of the control plane of the WAF panel, the TLC runs that check them
and the TLAPS proofs about them. Paths below are relative to the repository
root; `panel/` stands for `src/backend/src/waf_panel/`.

Run a check with `tlc -config <run>.cfg <MC module>`, a proof with
`tlapm <module>.tla`. `PROJECT.json` lists the components, the runs, the source
lines behind every definition, the hazards each property is aimed at, and a
mutated form of the code that each property catches.

## 1. The system

nginx/OpenResty with ModSecurity stands in front of the protected application.
For each request a Lua gate asks a scoring service for the probability of an
attack. Vector ships the traffic log to ClickHouse. The panel (FastAPI on
PostgreSQL) holds users, rules, the ML threshold and the audit log, and serves a
React single-page application. A drift worker and a model registry look after
the model.

| Component | State it keeps | Operations | Talks to |
|---|---|---|---|
| Refresh tokens (`panel/api/auth.py`, `security_refresh.py`, `services/auth_service.py`) | `refresh_token_families`: id, generation, revoked | login, refresh, logout | users, audit, browser cookies |
| Rules (`panel/api/rules.py`, `services/rules_service.py`) | `rules`, audit rows | create, bulk import, update, delete | audit |
| ML threshold (`panel/api/ml.py`) | one `ml_config` row, audit rows | GET, PUT | nothing: the proxy reads its environment |
| Login rate limit (`panel/security_rate_limit.py`) | a deque of times per address and e-mail, in memory | check | login |
| Drift worker (`panel/workers/drift_worker.py`) | baseline file, temporary file, backups, audit rows | drift check, `--rebaseline` | ClickHouse, file system, audit |
| Model registry (`src/ml/src/waf_ml/registry.py`) | `ml_models` | register, get_active | trainer, scoring service |
| Scoring service (`src/ml-service/`) | loaded model, Redis cache | score, start | registry, Redis |
| Proxy gate (`src/infra/nginx/lua/score.lua`) and panel gateway (`panel/api/ml.py`) | threshold rendered at start; none | per-request score with a budget | scoring service |
| User administration (`panel/api/users.py`, `security.py`) | `users` | create, update, disable, list | refresh families, access tokens |
| Cookies and CSRF (`panel/security_csrf.py`, `src/frontend/src/lib/`) | browser cookie jar, a token and a login mirror per tab | boot, login, logout, double submit | every mutating call |
| Live dashboard (`panel/api/ws_dashboard.py`, `useLiveDashboard.ts`) | a socket, a backoff, a poll timer | connect, push, fall back | ClickHouse |
| Notifier, AWS WAF adapter (`panel/integrations/`) | cooldowns; a lock token | notify; push with retry | nothing in the panel calls them |
| Calibration and evaluation (`src/ml/src/waf_ml/threshold.py`, `eval.py`), features, training | none | pure computations | trainer, proxy |
| Explanations (`src/ml-service/.../shap_explainer.py`, `main.py`, `panel/api/ml.py`) | one TreeSHAP explainer, a flag of a failed import | explain | panel |
| Start-up guards, CLI (`panel/main.py`, `config.py`, `cli.py`, the migrations) | settings, admin row | refuse unsafe start, seed, rotate password | users |
| In-memory repositories (`panel/repositories/memory.py`) | dictionaries and lists of one process | the calls of the PostgreSQL ones | the test suite |
| Benchmark (`src/bench/run.py`) | results of a run | send probes, compute rates, exit code | proxy |

### What is hard here

* **Interleaved awaits.** Every handler is one asyncio coroutine inside one
  READ COMMITTED transaction; what it read before an await may be stale when it
  writes. The code relies on a compare-and-swap (refresh), unique indexes
  (rules, registry) and row locks.
* **Where the transaction ends.** `get_session` commits when the handler
  returned and rolls back when it raised. Handlers that write and then raise
  lose what they wrote, endpoints that drive the generator themselves never
  reach its commit, and from fastapi 0.118 on the commit comes after the
  response.
* **Crashes.** Worker runs die between the backup, the write and the rename; the
  panel, the scoring service, Redis and the proxy restart on their own.
* **Locks and indexes.** Imports and registrations that wait for one another.
* **Caches.** Scores survive the model that computed them.
* **Time.** A window at its edges, a budget that runs out while the service goes
  on working, a cooldown read before a POST and set after it.
* **Authority that travels.** The access token carries the role, so what an
  administrator takes away stays usable for the life of the token, and requests
  authorised by it race one another.
* **Browsers.** Tabs share cookies and nothing else; answers arrive late, out of
  order or not at all; sockets outlive their page and their session.
* **Numbers at a boundary.** A threshold on a grid, a comparison that is strict in
  one program and not in another, rates of an empty sample.

## 2. Modules

| Module | Models |
|---|---|
| `SingleUseTokens` | what the refresh tokens promise: each is redeemed once, a closed family never |
| `RefreshRotation` | login, refresh and logout cut at the awaits that touch the database; implements `SingleUseTokens` |
| `RefreshRotationProofs` | theorems about it |
| `UserAccounts` | user administration, logins and refreshes against the role in access tokens; the seeded administrator, the start-up guard, `rotate-admin` |
| `UserAccountsProofs` | theorems about it |
| `RulesStore`, `RulesStoreProofs` | create, bulk import, update and delete, one transaction each; theorems about it |
| `MlThreshold` | GET and PUT `/ml/threshold` with the session they abandon |
| `MlScoring`, `MlScoringProofs` | `/score`, its cache, its restarts, and the clients that wait for it; theorems about it |
| `ModelRegistry` | concurrent calls of `register` with their lock waits |
| `DriftBaseline`, `DriftBaselineProofs` | drift checks and rebaseline runs over files and the log; theorems about it |
| `LoginRateLimit` | the sliding window |
| `BrowserSession` | tabs of the application over one cookie jar: boot, login, logout, writes, late and lost answers |
| `LoginSessionProofs` | theorems about `LoginRateLimit` and `BrowserSession` |
| `LiveDashboard` | the hook with its socket, back-off and polling, and the loops of the server |
| `ThresholdCalibration` | reading labelled scores, the choice on the grid, the cut of the evaluation, the comparison in the proxy |
| `Notifier` | `notify` with its cooldown across the await |
| `GateBenchmark` | the benchmark from its corpora to its exit code |
| `RepositoryContract` | what the repositories promise their callers: tables and the answer of the last call |
| `MemoryRepositories` | the in-memory repositories; implements `RepositoryContract` |
| `Explanations` | `/explain` in the worker threads of the service and in the panel; an explainer takes time to build, under the lock |
| `MCComponents` | eight components side by side, for one run (see 3) |
| `ComponentsProofs` | theorems about the six components that `MCComponents` instantiates, and about the run |
| `MCFairComponents` | the registry and the live dashboard side by side, under fairness |
| `FairComponentsProofs` | theorems about both |
| other `MC*` | small instances and symmetry sets for TLC |

How code becomes actions, in every module:

* An action is what happens between two points at which another actor can get in:
  a statement sent to PostgreSQL, a system call, an await. `pc[r]` says where
  request, run or call `r` stands.
* A request's transaction is a pending write (`write`, `row`, `made`, `lit`, ...)
  that Commit installs and Rollback, Abort and Restart drop. A SELECT reads the
  committed variables and the pending ones of its own transaction. An UPDATE
  waits while another open transaction has written the row (`Locked`,
  `RowLocked`, `WaitsFor`) and evaluates its WHERE when it gets it. An INSERT
  waits for an open transaction with the same key and fails when the key is
  committed. PostgreSQL fails one of the transactions on a waiting cycle.
* Requests that change no state (refused before a write, reads) are stuttering.
* `history` variables remember what has happened and no action reads them.
* Mutated forms of a definition (plausible bugs) stand just before it, under a
  comment that says so. No specification uses them.

Abstractions that matter: ids are model values drawn from a finite set; audit
rows are sets (or, in `DriftBaseline`, a sequence in commit order) of an action
and its target; a rule is its key; a sample of traffic is the run that wrote each
block of the file; a probability is one of a few steps; the features and the
model are an arbitrary function from a version and a request to a probability.
A time is a tick of a clock that one action moves, with an assumption
about how far it moves while a handler runs where the code needs one (`Span` of
`UserAccounts`: a login hashes a password, and its token is signed after that).
In `ThresholdCalibration` scores lie on the grid and half-way between its points
and rates are compared by cross-multiplication. In `BrowserSession` a token is
the number of the answer that issued it. `touch_login` updates the row of a user in
the same transaction as a login; the lock on that row is left out, since it orders
logins of one user and nothing else.

## 3. Checks

All passing runs together fire every action. State counts are of distinct states.

| Run | Instance | States | What it shows |
|---|---|---|---|
| `rotation` | 2 families, 1 user, 2 requests, generations to 2, COMMIT first | 173,096 | no token is redeemed twice; no client is ahead of the database; an answered logout has revoked its family; revocation is final; the table implements `SingleUseTokens` |
| `rotation_late` | 1 family, 2 requests, COMMIT after the response, fair | 231,066 | every request ends, whichever path it takes out of its handler; a client is ahead, or an answered logout undone, in three named ways only (below) |
| `accounts` | 2 users, 2 requests, tokens of 2 ticks, logins that see one tick | 890,049 | authority dies with the token; no one locks everybody out alone; a rotated password stays rotated; an exposed seeded password is one the guard cannot see |
| `rules` | 2 keys, 4 ids, 2 requests, imports in both orders and with duplicates, fair | 239,232 | keys stay unique, the trail replays to the table, every request ends |
| `drift` | 1 check, 2 rebaselines at a time, 3 in all, 4 inodes, 2 writes per file, 2 log rows of which the gate reads 1 | 2,035,164 | until two runs meet, the baseline is one whole sample and none is ever lost; a baseline is replaced under an alert only if that came late or lay behind other rows |
| `scoring` | 1 key, 2 kinds of request, 2 versions (one fails on one kind), 2 requests, TTL 2 | 1,209,870 | old scores die within a TTL, scores keep their version, blocks are earned |
| `registry_live` | registry: 3 versions, 2 callers; dashboard: 4 sockets, 3 faults, a tab hidden and shown; fair | 35,752 | one active version, never a gap, no index violation alone, every call ends; one socket at a time, which ends with the session unless a hidden page stays, and otherwise comes back |
| `components` | the eight components below | 1,340,152 | see below |
| `replay_revokes` | 1 family, 2 requests | violated | see findings |
| `drift_limit` | limit 2 in a log of 3 | violated | see findings |
| `threshold_audited` | the threshold instance of `components` | violated | see findings |
| `explain_fails` | 2 requests | violated | see findings |

`components` and `registry_live` hold components that share no state. The initial
state chooses the one that runs (`running`), the others stay in one initial state
of theirs, and a step is a step of the chosen one. Their behaviours are thus those
of each component by itself, and an invariant that mentions one component's
variables is checked on all of them. (`ImplementsContract` is the exception that
needs saying: it asks for contract steps only where the repositories run, since
elsewhere their variables do not move.) What `components` shows:

| Component | Instance | Properties |
|---|---|---|
| `LoginRateLimit` | 2 accounts, limit 2, window 2, clock to 6 | `LimitHolds` over any window, `RefusalIsEarned` |
| `MlThreshold` | 3 thresholds, 2 requests, hand edits | `AnswersAreStored`: an answered PUT has committed |
| `ThresholdCalibration` | a grid of 3 points, scores between them too, files of 3 rows with cells that do not parse | `GateKeepsBudget`: with the calibrated threshold the proxy blocks no more of the sample's benign requests than the budget allows; `BudgetBuysRecall`: it catches the recall the evaluation's cut was made for, if that cut is on the grid, below 1.0 and within a budget above 0 |
| `BrowserSession` | 2 tabs, 2 calls in flight, 3 issued tokens | `RefusedOnlyByAnother`: a call meets 403 only because another tab has logged in or booted since its tab got its token; `WritesStayInSession`: a write goes through only under the session its token was issued under |
| `Notifier` | 2 calls, cooldown 2, clock to 6 | `CooldownHolds`: no cooldown holds more messages than calls can be in flight, and none is skipped without a recent one, the first minute of the host aside |
| `GateBenchmark` | corpora of up to 4 probes, 1 for warm-up | `PassIsProtection`: exit 0 means that 403 answered at least 70 % of the attacks it measured, also when the gateway went down on the way |
| `MemoryRepositories` | 2 ids, 2 e-mails in two spellings, 2 rules, 3 audit rows, 2 generations | `ImplementsContract`: every call answers as PostgreSQL would, but for two named differences |
| `Explanations` | 2 requests | `OneExplainer`: a process builds one explainer, whatever its threads do, and an answer that claims SHAP came from it |

### Properties with exceptions

Some texts of the repository promise more than the code keeps. The properties
about them say what it does keep and name what it does not, so that anything
further is a violation.

* `NeverAhead` and `LogoutIsDurable` are checked for both orders of COMMIT and
  response, as `pyproject.toml` asks for fastapi 0.111 or later and the order
  turned round in 0.118. With the COMMIT first they have no exception. With the
  response first there are three: the transaction behind an answer is still to
  commit; it was lost after the answer had left (`lost`); a logout came before the
  COMMIT of the login that opened its family, found no row and left it live
  (`overtaken`). In all of them the client holds, or has been told, what the
  database does not have, against the docstring of `logout`
  (`panel/api/auth.py:121`) and `security_refresh.py:118`.
* `NeverTorn` and `PreviousIsKept` end where two rebaseline runs have been past
  their gates at a time (`overlapped`), which nothing in the worker or the Makefile
  prevents: they share one temporary file, and one can rename what the other is
  writing. One run at a time, over any number of runs and crashes, keeps both.
* `LateOrBuried` is what is left of the quiet gate: an alert that is in the window
  when a baseline is replaced was committed after the gate had looked, or had
  `LogLimit` rows after it by then. `GateSeesEveryAlert` has no exception and is
  violated (finding 2).
* `FeedEndsWithSession` excepts a page that stays mounted in a tab that goes on being hidden
  or offline. TanStack Query pauses `refetchInterval` there (`Dashboard.tsx:28` does
  not ask otherwise) and the loop of the server never looks at the token again, so
  the feed of such a tab can outlive its session for good.
* `BudgetBuysRecall` speaks of budgets above 0. `threshold.py:66` says that a
  target of 0 or less blocks nothing; `calibrate` blocks what scores above every
  benign request then, so the case is left out and listed below.
* `ImplementsContract` names `OldestFirst` and `OtherSpelling`: `list_all` of the
  in-memory users answers in the order of insertion (its comment says "sorted by
  id"), which is PostgreSQL's newest first backwards; and its `by_email` finds an
  address in any spelling, as for the CITEXT column of `init.sql`, where
  `models.py:36` and Alembic 0001:49 make a VARCHAR that compares with case. So
  it also refuses a second spelling that this column accepts (and that of
  `init.sql`, which compose mounts, does not); the refinement allows that, as it makes
  no step.

### Why the bounds are enough

* `RefreshRotation`: two requests in flight are a race, and slots are reused, so
  that any number of requests follow one another. Generations to 2 give a live
  token, a replayed one and a rotated successor. Tokens of generation `MaxGen`
  are not presented to refresh. The ids of families that were rolled back are
  used up, which bounds logins.
* `RulesStore`: four ids let two imports of two keys each be open at once, which
  is what it takes to deadlock. A request starts only if an id is left for each
  of its pending INSERTs. Ids are interchangeable and the first free one is taken.
* `DriftBaseline`: `MaxRuns` runs give a first baseline, a replaced one and a
  backup that could be overwritten; two at a time race for the temporary file.
  `LogLimit` stands for 200 and `MaxLog` for the rows in the quiet window. Both
  runs have one row more than the gate reads. Two writes per file are one in the
  middle of it.
* `ModelRegistry`: three versions let two callers activate two new versions over
  a third that is active.
* `MlScoring`: TTL 2 has an entry age before it dies. One cache key is enough as
  entries do not interact; two kinds of request with that key are the part the
  key leaves out. `uptime` stops counting at the TTL, beyond which nothing
  depends on it.
* `LoginRateLimit`: the clock stops at `MaxTime`, three windows; so do those of
  `Notifier`.
* `UserAccounts`: the e-mail addresses are the users. Two let each disable the
  other, or an outsider be created, demoted and let in again; two requests race,
  and slots are reused. `Ttl` 2 has a token age before it dies and `Span` 1 a
  token signed after the row it was read from changed.
* `BrowserSession`: three issued tokens are a login, a CSRF token and another
  login or refreshed token; two tabs and two calls let answers overtake.
* `LiveDashboard`: four sockets let a new one open while old ones are still
  closing on both ends. Links drop and servers die `MaxFaults` times; `Reconnects`
  speaks of what happens after the last one.
* `ThresholdCalibration`: grid points, points between them and ties all occur with
  a grid of three; three rows give both labels and a cell that breaks a row.
* `MemoryRepositories`: each repository runs by itself (`used`), as no two share
  state. Two spellings of an address tell CITEXT from VARCHAR, two generations are a
  compare-and-swap that wins and one that loses. Timestamps of audit rows are
  their positions.

### Fairness

Safety needs none. `EveryRequestEnds` and `EveryCallEnds` assume that the event
loop resumes a coroutine whose await is ready (weak fairness of a request's own
steps), that PostgreSQL grants a lock in the order it was asked for (strong
fairness of the steps that wait) and that its deadlock detector runs. Clients,
administrators, crashes, aborts and lost responses are under no obligation, and
no check relies on them. `FeedEndsWithSession` and `Reconnects` assume that
the server resumes its loops and, only while the tab is in the foreground and
online (`shown`), that the browser dispatches the events and timers it has due and
the page goes on polling (`refetchInterval`): the poll is what notices that the
session is over. Users, expiries, faults and restarts are under no obligation.
The mutated forms of `Rollback` that forget a path (an exception, an
IntegrityError, a unique violation) make the properties about requests fail.

### Findings

Four runs show the code doing other than a text of the repository says. Each
checks that text as one property and TLC finds the shortest counterexample.

1. **A replay does not revoke** (`replay_revokes`). On a replayed token `refresh`
   writes the revocation and its audit row and raises 401, and `get_session`
   rolls both back. The docstring (`panel/api/auth.py:176`) and ADR-0015:108 say
   the family is revoked. The unit tests run on repositories without
   transactions.
2. **The quiet gate can miss an alert** (`drift_limit`). It looks at the newest
   200 rows of any action; the docstring counts drift rows only
   (`panel/workers/drift_worker.py:248`).
3. **Threshold changes are not audited** (`threshold_audited`). The audit row
   sits in a session whose generator is abandoned before its commit. ADR-0011:16
   promises evidence of every change.
4. **An explanation by SHAP is a server error** (`explain_fails`). With
   `ML_USE_SHAP`, shap installed and a tree model, the service answers method
   `shap`, which `ExplainResponse` of the panel does not know
   (`panel/api/ml.py:126`); the response is built outside the try block and the
   panel answers 500. Its docstring (`panel/api/ml.py:11`) says ML never raises a
   5xx out of the panel.

Divergences seen while modelling, without a run of their own.

Database and workers:

* A failed login's audit row is rolled back with the 401
  (`panel/services/auth_service.py:51`; `security_rate_limit.py:91` says every
  attempt is recorded). The mechanism is that of finding 1: `LoginFail` leads to
  `Rollback`.
* With fastapi 0.118 or later a response leaves before its COMMIT, which may then
  fail: see `NeverAhead` and `LogoutIsDurable` above.
* Two concurrent activations in the registry trip the partial unique index: the
  call that waited deactivates what its snapshot saw. `register`'s docstring
  (`registry.py:72`) says it never trips. It fails safely: `OneActive` and
  `AlwaysServed` hold, and `AloneNeverTrips` says what is left of the promise.
* An import that loses the race for a key after its second look-up dies of an
  IntegrityError with a 500 and is rolled back whole
  (`panel/api/rules.py:170`; its comment promises the conflict report). In
  `RulesStore` that is `InsertFails` of a bulk request.
* An update of a rule that was deleted since it was read ends in a 500.
* Two rebaseline runs at once share one temporary file and can install half a
  sample (`NeverTorn` without `overlapped` fails); an alert committed after the count
  does not stop a refresh; a crash between the backup and the rename leaves no
  baseline, and every later check is skipped.
* An empty user patch is audited as a change. `rotate-admin` is not audited,
  though `init.sql:81` says every mutating operation on users is. The seeded
  account is checked at start only, so a migration run against a running stack
  (`Makefile:53`) can expose it; `docs/threat-model.md:61` says production does
  not check it at all, which is no longer so.
* Alembic 0001 makes the e-mail a VARCHAR though it "mirrors init.sql exactly"
  (CITEXT there); `models.py:34` and `memory.py:28` speak of CITEXT too.
  `RepositoryContract` follows the column that SQLAlchemy and Alembic make.
* The memory repositories differ from the PostgreSQL ones in the two ways that
  `ImplementsContract` names, and where their callers do not go: an explicit null
  in a rule patch (`exclude_unset` against `exclude_none`), `touch_login`, which
  does nothing there, and there is no rollback.

Sessions:

* The access token lives `jwt_ttl_minutes` = 60 minutes (`panel/security.py:49`);
  ADR-0015:38 and `panel/api/auth.py:76` say 15, which is the cookie's life, and
  `/auth/csrf` plants that cookie anew. `AuthorityFades` is about the token.
* The application never calls `/auth/refresh`, though ADR-0015 says it does, and
  ADR-0014 has the order of cookie and Bearer header the other way round.
* An answer to `/auth/csrf` that arrives after another tab's logout plants the
  session cookie again. Another tab's boot or login makes this tab's writes end
  in 403 until it is reloaded, and a late 401 clears a newer login.
* `Dashboard.tsx:39` shows the zeros of a `fallback` frame though
  `ws_dashboard.py:23` says the application falls back to REST.

ML and tools:

* The stored threshold never reaches the proxy (`openresty.conf.template:27`;
  ADR-0011:55 says it does on a reload).
* The cache key leaves out body, user agent and referer, which the score depends
  on. `ScoresKeepTheirVersion` says what a cached score still guarantees: its
  version gives it to some request with that key.
* `/explain` of the service checks the size of the contributions (`main.py:252`)
  after the product that would already have raised on it (`main.py:250`).
* `threshold.py:66` says a target of 0 or less collapses to "never block": a
  target of 0 blocks what scores above every benign request. `_load_scores_csv`
  appends the label before it parses the score, so one bad score makes the
  calibration raise. `_fpr_at_recall` says "lowest threshold" and takes the
  highest, and under-reports the rate when scores tie.
* The PSI of a skewed two-valued baseline is 0 (one bin is left), and for a
  constant baseline only the first current value is looked at.
* The first warm-up probes of the benchmark are dropped, not sent
  (`src/bench/run.py:217`: "We still send them"), and a corpus without malicious
  probes passes.
* The notifier's cooldown starts from 0.0 on the monotonic clock, so nothing is
  sent in the first minute of the host. Its docstring names callers that do not
  exist. ADR-0012 promises a TTL key and a status endpoint for the AWS sync; an
  emptied blocklist is never pushed.

## 4. Proofs

TLAPS checks these for every value of the constants; the runs show them on the
instances above.

**`RefreshRotationProofs`** (from `ConstantsAssumption`: `MaxGen` is a natural
number, `CommitFirst` a Boolean, the two null values differ from tokens and rows).
`TypeCorrect`, `TokensAreSingleUse`, `RevocationIsFinal`,
`RotationImplementsSingleUse`, `RevocationsAreAudited`, `TokensAreNeverAhead` and
`LogoutsAreDurable`, all for either order of COMMIT and response. `SingleUse` is not
inductive: that a rotation commits onto the row its compare-and-swap matched follows
from the row lock, and that an INSERT commits onto an absent row from the freshness
of ids. `IInv` says so in parts: `Staged` (what each step knows of its claims and
its pending write), `Exclusive` (one open writer per family), `UpdateIsCurrent` (the
row a pending UPDATE matched is still the committed one), `OpeningIsFresh`,
`Recorded`, `SpentIsPast`. `CommitEffect` reduces a commit to four cases; every
other action leaves the committed state alone, so most of the proof is about who may
hold a pending write. The refinement maps a commit of a login, rotation or
revocation to Open, Redeem or Close and everything else to stuttering. What goes
with a write comes in two layers on top of `IInv`: `Accounted` (a revocation that
will be committed is a logout's and carries its row; the others raise and are rolled
back), and `Promises` (what the next answer of a request will say is already true of
the tables: `CommitPromises` makes it so, `FamiliesGrow` keeps it so,
`ReplyPromises` hands it out). With the response first an answer is no promise of
the tables yet: what it says is in `Unkept` until its own COMMIT makes it true
(`LateCommitPromises`) or the loss of its transaction moves it to `lost`
(`UnsettledLasts`).

**`UserAccountsProofs`** (from `ConstantsAssumption`: `Seeded` is a user, `Ttl`
and `Span` are natural numbers). `TypeCorrect`, `AuthorityDies`,
`NobodyLocksOutAlone`, `RotationsAreFinal` and `ExposuresAreExplained`. `IInv` is
a conjunction of facts about one request (`InFlight`) and about one user
(`Standing`). A token's authority was earned by a row that said admin, or the
user has fallen since and the clock has been counting: a tick moves what it takes
from `life` into `gone`, so their sum stays within `Ttl + Span`. `Exclusive` (the
row lock) keeps the row a pending UPDATE was computed from the committed one, so
that a change of one column cannot undo another request's. That a user who locks
the last other administrator out is not alone follows from what each audit row
in flight says of its actor (`OfAnother`) and of the table.

**`LoginSessionProofs`, the rate limit** (limit and window positive). `LimitTypeCorrect`,
`LimitIsKept`, `RefusalsAreEarned`. The deque is a tail of the history of
permitted attempts (`Linked`), what is missing in front is older than the window
(`Past`), times do not decrease (`Sorted`). So the loop, which stops at the first
recent entry, pops everything older than the window (`LoopPopsThePast`), and an
append to a deque that is not full leaves the attempt `MaxHits` before it among
the popped ones: more than a window ago. `StaysFull` carries a refusal to the
next tick of the clock.

**`MlScoringProofs`** (One and TTL positive; `Score` a function into
probabilities or `None`). `TypeCorrect`, `StaleEntriesExpire`,
`ScoresAreAttributed`, `OldModelsFadeOut`, `BlocksAreEarned`. The invariant adds
`Working` (what a request is about to store was computed by the loaded model,
because a restart cuts requests off) and `CacheOK` (an entry has time left and is
a score of its version). A tick takes from an entry's time what it adds to the
uptime, so the sum in `StaleEntriesDie` never grows.

**`RulesStoreProofs`** (from `ConstantsAssumption` and `PayloadsAssumption`: a
payload without its duplicates is a sequence of keys, an induction over its length
that the prover cannot do and TLC evaluates on the payloads of the run).
`TypeCorrect`, `KeysAreUnique`, `TrailReplays`, `RulesDieForGood`. `UniqueKeys` is not
inductive: a commit could bring a key twice. The invariant adds `Staged` (what each
step knows of its request: an update or delete has a rule whose creation is
logged), `Pending` (a row that waits for its commit has an id and a key new to the
committed tables) and `Distinct` (no two such rows, of one request or of two, share
either: the unique index refuses or holds up the later INSERT).

**`FairComponentsProofs`, the registry** (from `ConstantsAssumption`). `TypeCorrect`,
`ActiveIsUnique`, `AloneSucceeds`, `NoGap`. `Own` says what a call knows of the rows it
has written, which its row locks keep true; `Apart`, that no two calls hold one row or
an entry in the index each; `Leads`, that whoever holds the entry has dealt with the
version it replaces; `Unmet`, that a call which met no other sees the table as it is.

**`DriftBaselineProofs`** (from `ConstantsAssumption`, for any number of checks, runs
and rows and any limit). `TypeCorrect`, `BaselinesAreKept`, `BaselineIsWhole` and
`MissedAlertsAreLateOrBuried`. About the files: as long as no two runs have met, at
most one is past its gate (`Apart`), the temporary file never was the baseline
(`Sealed`), it holds the blocks its writer has written and there is no baseline
meanwhile (`Prepared`), and no backup is dated later than the clock (`Dated`), so
that none is overwritten. About the gate: what it saw of the log stays in front of
what is appended, and both move up together when the oldest row leaves the window.

**`LoginSessionProofs`, the tabs** (from `SessionAssumption`: `MaxIssued` is a
natural number). `SessionTypeCorrect`, `OthersOnlyRefuse`, `WritesKeepTheirSession`.
The two cookies are planted together (`Matched`); a tab waits for one token at a
time and is not logged in meanwhile (`Waits`); so of the tokens issued to a tab the
jar holds none but the last (`Latest`), the one its header will carry. `Wrote` and
`Tells` say what is left of that in a call under way and in its answer,
`Circulating` that only issued tokens are about, so that a new one is nobody's yet.

**`FairComponentsProofs`, the dashboard** (from `ConstantsAssumption` of `LiveDashboard`).
`SocketIsOne`, with one fact more than it says: a reconnect is scheduled only for a
page that is shown (`TimerIsOfPage`), so that the timer cannot open a socket beside
the one of the next page. `RunIsOfBoth` and `RunKeepsPromises` carry the
theorems of both to the specification that TLC checks.

**`ComponentsProofs`** (from `InstanceAssumption`, the conjunction of what each
component assumes of its own constants: bounds are natural numbers, the cooldown, the
grid and the parts that rates are counted in positive, budgets of the benchmark at
most all of it, and the values that stand for garbage or for nothing differ from
thresholds, scores, rows, models and calls).

* `MlThreshold`: `AnsweredPutsAreStored`. A PUT that is about to be answered has its
  value among the committed ones (`SetIsCommitted`), because `set` ends in a
  COMMIT of its own; what becomes of the session afterwards does not matter.
* `ThresholdCalibration`: `GateIsWithinBudget` and `RecallWithinBudget`. The choice is
  made on two lists, the property speaks of the file. A row whose score is broken
  leaves its label behind and makes one list longer for good, which the code
  refuses; until then each count over the lists is that of the whole rows of
  the file (`ListsAreTheFile`, by adding one index to either side). The rest is
  arithmetic over cardinalities: the proxy compares as the grid was built, and blocks
  nothing at 1.0; a cut within the budget is never below the chosen threshold.
* `Notifier`: `CooldownIsKept`. A call that awaits its POST has looked at the stamp
  after its own last message (`PosterHasWaited`), so the messages of one call keep
  the cooldown (`CallKeepsCooldown`); a window of a cooldown thus maps injectively to
  calls (`OneMessagePerCall`). That several calls may pass the check together is
  why the bound is their number and not one.
* `GateBenchmark`: `PassIsEarned`. `DeniedAreMeasured` ties the answers of 403 that the
  gateway gave to the results that are counted (`AmountGrows`: a result adds to one
  amount and to no other); `RestOfTheRate` turns the false-negative budget into
  the share that was blocked.
* `MemoryRepositories`: `MemoryKeepsContract`, the refinement of `RepositoryContract`, one
  lemma per call. The mapping takes a list of rules to the table its scan
  computes; it needs that ids and keys are unique in the list (`Unique`) and that the
  index by address holds each user under its address in lower case and nothing else
  (`IndexIsOfUsers`). `RemovedFromTable`: deleting a position of the list removes
  one row of the table. `RecentImplements`: the reversed slice is the latest rows.
  `JoinedIsBorn`: the order of insertion is that of creation, so that `list_all` is
  the contract's answer backwards (`InsertionIsBackwards`).
* `Explanations`: `ExplainerIsOne`. Who is behind the lock holds it (`LockExcludes`), and
  the cache stays empty while somebody builds (`BuilderMissed`), because the cache is
  looked at under the same lock; so there is nothing to build twice.
* `RunIsOfEach` takes a behaviour of `MCComponents` to one of each component, so that
  `RunKeepsPromises` and `DoublesKeepContract` state what its run checks.

`RevocationsAreAudited` and `RulesDieForGood` are only proved: they speak of what
one commit writes together, and no run checks them besides. Every safety invariant,
action property and refinement that a passing run checks is thus a theorem. Only
model-checked are the liveness properties, as the prover has no ENABLED:
`EveryRequestEnds` of `RefreshRotation` and of `RulesStore`, `EveryCallEnds`,
`FeedEndsWithSession` and `Reconnects`; and the four disagreements of section 3,
which are counterexamples.

## 5. Not modelled, and why

* The AWS WAF adapter: nothing in the panel calls it, so the order in which its
  callers would push, delete and retry is not in the code.
* Queries, logging, metrics, headers and pages change no state. Feature
  extraction and training are numeric and run in one process; the drift
  statistics are any level. Vector, ModSecurity, Redis, PostgreSQL and nginx are
  third-party programs, modelled only as far as the code relies on them and
  marked external.
* Within modelled parts: the fail-open branch of the rate limit on an internal
  error and the growth of its table; the fields of a rule other than its key;
  dry-run imports; routes that only read; the guard on `JWT_SECRET`, which reads
  settings only; the numbers of an explanation and of an evaluation report; the
  smoke scripts, which drive the system once from outside; `downgrade()` of the
  migrations, which nothing in the repository runs (0003 drops the seeded account,
  and a later upgrade would seed its password again); the second mount of React's
  StrictMode (`main.tsx:32`), which only development builds have and which would
  leave `useLiveDashboard` with two sockets.
* Hazards without a property are listed with the reason in `PROJECT.json`: most are
  behaviours the code has and no text forbids, so that a passing property about them
  would have to leave them out; the others concern what no variable keeps (a status
  code, an answer that came too late) or growth without bound.

## 6. Plan

The modules were written with the behaviour that matters most first:
`RefreshRotation` with its abstract specification and proofs, `RulesStore`,
`DriftBaseline`, `MlThreshold`, `ModelRegistry`, `MlScoring`, `LoginRateLimit`;
then `UserAccounts` with its proofs, `BrowserSession`, `LiveDashboard`,
`ThresholdCalibration`, `Notifier`, `GateBenchmark`, `MemoryRepositories` over
`RepositoryContract`, and `Explanations`; then the proofs about `RulesStore`,
`ModelRegistry`, `DriftBaseline` and `BrowserSession`, and those about the
components that `MCComponents` and `MCFairComponents` instantiate. What is left:

1. Composition: the role in the tokens of `UserAccounts` with the families of
   `RefreshRotation`; the tabs of `BrowserSession` with the socket of
   `LiveDashboard`, which share the cookie.
2. Abstract specifications of the calibration and of the registry, with their
   refinements proved.
3. Training and the drift statistics, as operators against a reference definition
   over small samples.
