# Verification of mirror_ai_agent

TLA+ specifications of this repository's service and of its chart engines,
configurations that model-check them with TLC, and proofs that TLAPS checks.
Paths are relative to the repository's root, `web_server.py` and `agent/...`
to its `src/` directory; `PROJECT.json` says for every definition which lines
it stands for.

    tlc -config LedgerRaces.cfg MCBillingLedger.tla   # one run; see "Runs"
    tlapm MoneyProofs.tla                             # one module of proofs

## 1. The system

mirror_ai_agent answers questions about a person's fate. A Flask application
(`web_server.py`) authenticates a request, reserves credits for it, runs a
*turn* (a graph of language model calls around a chart computed in Python) or a
*consultation* (a chart and one or two calls), settles or refunds the
reservation, and streams the progress to the client. State lives in one SQLite
database (money, keys, sessions, rate limits) and in one directory per user
(profile and conversations). Credits are bought from Stripe.

Threads: each request has one; a streaming request adds a daemon *worker*, each
turn a thread pool of its own. Several processes may serve one database. A
transaction is `BEGIN IMMEDIATE`, so it is one step; what surrounds it is not.

| Part | State | Operations | Hard | Modules |
| --- | --- | --- | --- | --- |
| Credit ledger (`agent/billing/service.py`, `store.py`) | `users`, `ledger`, `inflight` | charge, settle, refund, topup, create, set status, reconcile | ids chosen by clients collide with derived ones; the clock is read before the lock; four places refund | `BillingLedger`, `CreditAccounts` |
| Billed requests (`web_server.py`, `middleware.py`, `locking.py`) | two threads' positions, receipt, lease | lease, charge, turn, settle or refund, teardown | charge and lease change hands between threads; every step may raise | `BilledRequest` over `BillingLedger` |
| Stripe payments (`stripe_gateway.py`, `web_server.py`) | sessions, events, deliveries | checkout, webhook, correction | events repeated, reordered, concurrent, answers lost | `StripePayments` over `BillingLedger` |
| API keys (`store.py`, `key_cipher.py`) | `api_keys`, master keys | register, rotate, issue, revoke, migrate | stale reads before transactions; master keys that change | `ApiKeys` |
| Accounts (`web_server.py`, `service.py`) | `users` by id and e-mail | three ways to register | three transactions; racing look-ups | `Accounts` |
| Sessions (`auth/sessions.py`, `store.py`) | cookies, password hashes, revocation list | login, logout, change, prune | cookies outlive what they were signed for | `Sessions` |
| Rate limit (`service.py`) | `rate_events` | check | time stamps older than the lock | `RateLimit` |
| Turn (`orchestrator.py`, `execution.py`, `deps.py`) | node cache, futures | schedule, look up, call, save | cache read without a lock; it outlives charts and failures | `NodeGraph`, `TurnExecution`, `SingleFlight` |
| Model client (`tools/llm_tool.py`) | attempts, deltas | request, retry, validate | a stream that breaks; two nested loops | `ModelCall` |
| Event streaming (`streaming.py`) | bounded buffer | put, get, close | slow clients, nobody waits | `EventBuffer`, `EventStream` |
| Consultations (`orchestrator_*.py`) | one request's texts | hepan, cezi, najia, zwds | mistakes found after the charge; second call fails | `Consultation` |
| Profile store (`profile_store.py`, `locking.py`) | profile file, lease | load, edit, save | kill and power loss between any steps; lease handed over | `ProfileStore` |
| Conversations (`conversation_store.py`) | JSONL log | append, read history, prune | torn lines; readers without a lease | `Conversations` |
| Na Jia (`najia/`, `najia_tool.py`) | hexagrams; `sys.stdout` | throw, chart | process-wide stdout and class attributes | `Hexagrams`, `StdoutCapture` |
| Zi Wei Dou Shu (`zwds/basic.py`) | palaces, stars, flights | chart, year, relation | hundreds of table entries; a period computed twice | `ZwdsChart` |
| BaZi stars (`bazi/analysis/shensha`) | stars of a chart | analyse, ask, compare | 34 stars, two tables each | `Shensha` |

Parts without a model are listed under "Not modelled".

Who calls whom: a handler of `web_server.py` authenticates (`ApiKeys` or
`Sessions`), checks the `RateLimit`, takes the lease of the profile
(`ProfileStore`), charges (`BilledRequest`), appends to the log
(`Conversations`), runs a turn (`TurnExecution`) or a `Consultation`, whose
nodes call the model (`ModelCall`) and whose events go through the
`EventBuffer`; then it settles or refunds. `StripePayments` and `Accounts` add
credits to the ledger.

## 2. Modules

Composition is of three kinds.
- *A module on top of another*: `BilledRequest` and `StripePayments` EXTEND
  `BillingLedger` and perform its operations inside their own steps;
  `TurnExecution` EXTENDS `NodeGraph`.
- *Refinement*: `BillingLedger` implements `CreditAccounts` (an account is a
  balance and holds that are kept or given back) and `EventBuffer` implements
  `EventStream` (a client reads a prefix of what was sent, and is told when it
  ended or was cut), by INSTANCE with a mapping.
- *Sums*: `MCMoney`, `MCPortal`, `MCDelivery`, `MCWorkEnds`, `MCShared` and
  `MCCharts` check several parts in one run. A variable `part` says in the
  initial state which of them a behaviour exercises; the others stay in one of
  their initial states. Each part of a sum therefore has exactly the behaviours
  it has alone. A sum says nothing about interactions, and none is claimed:
  apart from `MCMoney` its parts share no state in the code either, or (lease
  of a profile, `MCShared`) none reads it for another. In `MCMoney` both parts
  change the tables of the ledger, one at a time; their interleavings are covered by
  `LedgerRaces`, which has charges, refunds, `stripe:` ids and topups of several
  threads at once, and by the theorem `PaymentsAreLedgerSteps`. Constants may
  carry the values of another part (`Users` for `Scopes`): only the number of
  values matters.

Operators marked `faulty` stand above the definition they imitate and carry one
plausible mistake. No action uses them; they show that each property notices
such a mistake (`mutants` in `PROJECT.json`).

### Money
**BillingLedger** has one action per transaction. `charge` is two steps:
`StartCharge` fixes the arguments and the row's date, then the call waits in
`calls` until `Charge` commits or `AbandonCharge` stands for every guard that
raises, a lock timeout, or a dead process. A request id is a pair of a base name
and a suffix, so that `<id>::refund` and `<id>::refund:<uuid>` can collide with
ids that clients and administrators choose, exactly when the strings could.

**BilledRequest**: `handler[q]` and `worker[q]` say where the two threads of
request `q` are, `req[q]` holds what the closures share, `lease[u]` who holds the
profile's lock. Steps that touch the disk, the database or the model have a failing
form, `Fault`, up to `MaxFaults` times. `Crash` clears threads, locks and open
transactions and leaves the tables; `Reconcile` is `reconcile_billing.py`, which
requires a stopped service. `v1_ask` and `v1_ask_stream` are followed line by line.

**StripePayments**: Stripe is external; it reports what happens to a session as
events, delivers each until it is acknowledged, in any order, to any worker.
`Handle` is the webhook up to the committed topup, `Reply` the answer, `Lose` an
answer that never arrives.

### Portal
**ApiKeys**: a row holds a hash, and the key itself as text (older releases),
under a master key, or not at all. A request is authenticated first and waits in
`pending` for its transaction, so that what it has read may be stale. `Migrate` is
the start-up migration, `OfflineTool` the rotation script, `AddMaster` and
`RetireMasters` what its documentation tells the operator to do.
**Accounts**: three kinds of handlers with their look-ups, draws and three
transactions, each of which may fail. **Sessions**: a cookie is the record it is
signed over; a password change draws a new salt even for the same password.
**RateLimit**: a check reads the clock, then waits for the lock at most `MaxWait`.

### Turns
**TurnExecution**: a model call answers with a number never used for that node
before, so that an outdated answer is visible. A prompt is the record of what it
quotes; the cache key is the record of chart, time context and prompt, as
`_cache_key_inputs` hashes them (SHA-256 collisions are excluded). A job is
`queued`, `prompted` (rendered, without the lock), `calling`, `finished`; the loop
collects any finished future. `Abort` loses a turn in any phase. The graph is the
real one, with the aspects restricted by `Aspects`. **SingleFlight** is
`ensure_node` for several threads and one node: look-up, claim and store are three
critical sections. **ModelCall**: a piece of text is the request that brought it
and its position. **EventBuffer**: `put`, `get` and `close` are atomic under the
condition variable; sizes are kept because the overflow test is about bytes.
**Consultation**: a text is named after where it comes from; what can be wrong with
a request is grouped by who finds it out.

### Files
**ProfileStore**: a request is one operation of some kind, in steps: lease, load,
edit, write a temporary file, fsync, replace, release. `durable` is the set of
contents a power loss may leave. Only the last rename is not synced (the code
never syncs the directory), so that a power loss may take back an answered edit,
but never leaves half a profile. `clean_demo_profile.py` reads, truncates and writes the
file under its name, in three steps without the lease; when a save replaces the file
in between, the script goes on with one that has no name (`orphaned`).
**Conversations**: a torn append leaves a line
without its newline, and the next append makes it unreadable. **StdoutCapture**:
`redirect_stdout` and the class attribute of `Gua`, shared by all threads.

### Charts
`Hexagrams`, `ZwdsChart` and `Shensha` are mostly operators: tables and the rules
they tabulate, stated independently. Their actions compute a chart step by step in
the order of the code. `Shensha` was in addition compared with the Python classes
on 250 random charts. Of a chart, only numbers of stems and branches are kept;
calendars (`lunar_python`) are external. What is charted is a constant (`Inputs`,
`Births` and `Ages`, `Charts` with `Mates` and `Queried`): TLC gets a choice that uses
every entry of the tables, the theorems hold for whatever there is to chart.

## 3. Runs

Times are for two workers.

| Run | Bounds | Why they are enough | States, time |
| --- | --- | --- | --- |
| `LedgerRaces` | 1 user, 2 threads, 2 charge ids with their refund ids, three topup ids of which two collide, credits 2 and 3, limits 0 and 3, 2 days, one slot | two calls compete for one slot, for one id, and for credit that suffices once, before and after midnight; free requests and more slots are covered by the proof | 402,513; 2 min |
| `Money` | 2 users, 2 requests, plain or streaming, funds 3, price 2, 2 faults, a crash; or 1 session, 2 webhook workers, 2 lost answers | both requests cannot be paid by one account; two faults reach the failure of a failure handler; two deliveries of one event at once, and two event types | 312,541; 20 s |
| `MoneyEnds` | 1 user, 2 requests, 1 fault; or as above | the second request meets the lease of the first | 84,066; 2 min |
| `TurnCache` | 2 turns, 2 charts, 2 time contexts, 1 aspect, 2 workers, 2 failures, lost turns, bypass, a cache with old failures | the second turn meets every cache the first can leave | 1,279,400; 1 min |
| `WorkEnds` | 3 threads on 2 keys of a node, 2 failures; or 1 turn with 1 worker and 2 failures; or 2 requests of 5 kinds with a stop | a waiter can lose its entry to a third thread; one worker is the tightest pool | 107,633; 1 min |
| `Delivery` | buffer of 3 events and 4 bytes, 6 events of 1 and 2 bytes; 2 attempts, 2 repetitions, 4 pieces; every request of 4 methods | either limit can be hit first, also by the end marker; retries of both loops meet | 7,977; 3 s |
| `Portal` | limit 1, window 1, wait 1 in 4 moments (`MaxClock` 2 for cookies), 2 clients; 2 users, 3 keys, 2 master keys; 2 cookies, 2 changes; 3 registrations, 2 ids, 2 e-mails, 2 faults | rows out of order around a pruned window; two rotations and a registration; a loser of each race | 704,458; 2 min |
| `Shared` | 3 requests of 3 kinds, 2 charts, 1 kill or power loss; the same requests on one log with 2 torn writes and a pruning; on one `sys.stdout` | streams, the command line and scripts, in every mixture of three, on one profile (readers change nothing: what they find is said of the file); a torn line before and after an answer; nested and crossed captures | 1,540,436; 2.5 min |
| `Charts` | every year with every day for pillars; births over every table entry; every throw on every day | each entry of each table is used; other inputs are covered by the proof | 89,535; 1.5 min |
| `LedgerDailyCap` | *violation*, finding 1 | | |
| `TurnSkips` | *violation*, finding 2 | | |
| `CapturedByAnother` | *violation*, finding 3 | | |

`CHECK_DEADLOCK FALSE` stands where the system stops: requests done, turns used up,
stream ended, chart made. The ledger runs check for deadlock. Symmetry is used for
users, threads, keys, charts and requests that no constant tells apart, in runs of
invariants and action properties only, never with a liveness property.

### What each property says
- *Money.* `Conservation`: balances are topups minus charges plus refunds.
  `IInv`: the inductive invariant, with types, audit trail, slots and row numbers.
  `RefundedOnce`, `AppendOnly`, `ImplementsAccounts`. `TodayWithinLimit`: what the daily
  limit does guarantee. `PaidIsAnswered`: only answered turns are paid for.
  `LeakNeedsTwoFaults`: a charge that is left pending has seen two failures or the
  death of the process. `LeaseIsOwned`, `ReportedIsFinal`, `EveryRequestEnds`.
  `CreditsArePaidFor`: credits come from payments, once, and the webhook acknowledges
  only what is in the ledger. `PaidGetsCredited`.
- *Portal.* `LimitIsExact`: no window admits more than the limit, and nobody is refused
  for nothing. `OnePortalKey`. `KeysStaySafe`: a serving process holds no key as text, none
  of a revoked one, and every live one readable. `RegistrationsAreWhole`.
  `ChangeEndsSessions`. `SessionsLiveOnce`: a refused cookie is never revived, an accepted
  one ends only by age, logout, new password or disabled account.
- *Turns.* `TurnsAreWhole`: an answer quotes one coherent reading, no node is lost.
  `QuotesThisTurn`. `RepeatIsFree`: what the saved profile holds is not asked again.
  `OneComputationPerKey`, `AnswersAreOwnOrExcused`, `EveryCallReturns`, `WorkEnds`.
- *Delivery.* `MemoryBounded`, `ImplementsStream`, `AnswerIsOneReply`: no answer is
  stitched from two replies. `PaidForAnalysis`, `ConsultationIsCoherent`, `DeliveryEnds`.
- *Files.* `ProfileStaysWhole`, `NoLostEdit`, `RoundsPairUp`: a question is paired with its
  own answer. `TearsAreContained`, `ThrowsKeepApart`.
- *Charts.* `HexagramsFollowThePalaces`, `StarsStandByTheRules`, `StarsFollowTheCycle`:
  tables agree with the rules they are made from.

### Fairness
- `BilledRequest`, `TurnExecution`, `SingleFlight`, `ProfileStore`: weak fairness of the steps
  of each thread. Threads are scheduled; each step ends because the model client
  gives up (`LLM_TIMEOUT_SECONDS`, bounded attempts) and SQLite waits no longer than its busy
  timeout. A lease is tried, never waited for. Nothing is assumed of clients,
  crashes and operators; a turn need not start.
- `StripePayments`: weak fairness of a worker that has a delivery; strong fairness of
  Stripe's repetition of an event that was not acknowledged. Strong, because the workers
  may be busy now and then; it is what Stripe promises and what the webhook relies on.
  Answers are lost at most `MaxLost` times.
- `EventBuffer`: weak fairness of the worker's end (which `EveryRequestEnds` shows) and of the
  generator, which the condition variable wakes and the server drives while the
  connection stands. Nothing is assumed of the events a worker puts.
- `ModelCall`: weak fairness of the one thread that runs the call.
- In a sum a part's fairness is conjoined with `part = ...` inside the WF, or the part
  that rests has no enabled step (`MCMoney`), so that resting parts are not obliged
  to anything, and running parts have exactly their own fairness.

### Findings
1. *Daily cap and midnight* (`LedgerDailyCap`). `README_DEMO.md:173` promises a daily cap that
   resets at UTC midnight. A charge that is stamped before midnight and commits after it
   is checked against the new day and dated with the old one: by the ledger's dates a
   day can exceed the cap.
2. *A failed chart does not skip its dependents* (`TurnSkips`).
   `tests/test_error_propagation.py:33` says that downstream nodes are skipped when a
   prerequisite fails. `PAIPAN`, which all depend on, is passed as a skip node and
   counted as done whatever its precomputed output says: the graph is sent
   to the model without a chart before the turn ends in an error.
3. *Captured output* (`CapturedByAnother`). The coin oracle captures what the legacy
   generator prints with `redirect_stdout`, which swaps the `sys.stdout` of all eight
   threads: overlapping requests capture each other's line or leave `sys.stdout` on a dead
   buffer. The hexagram itself is always the request's own (`ThrowsKeepApart`).

The modules state five more disagreements between code and documentation as
formulas at their ends; TLC refutes each when it is given as an invariant, and no run
repeats them:
- `Accounts!DuplicateIsConflict`: `store.py:283-285` wants duplicates told apart; a user id
  inserted between look-up and INSERT surfaces as an internal error.
- `ModelCall!NoRetryAfterDeltas`: a comment in `llm_tool.py` says not to retry after partial
  deltas; a transport error is retried all the same, so that a client sees the
  beginning twice. The answer itself stays one reply (`AnswerIsOneReply`).
- `ZwdsChart!PeriodContainsTheYear`: `calcu_current_daxian` adds one to an age that already counts
  from one, so that the last year of a period is told as the next period's.
- `Shensha!XuetangIsFound`: a member of an enumeration is looked up among strings; no chart
  ever has Xuetang, and three rules of Tongzi never apply.
- `Shensha!GuoyinByTheChart`: asked of another pillar, Guoyin and Jinyu look at that pillar only.

Smaller observations, kept in the models as the code has them: `set_shengong` of
`zwds/basic.py` names a method without calling it (the body palace is never marked);
Bazhuan lists a pair of stem and branch that is no pillar; a star that is sought by two
stems can be listed twice for a pillar (Taiji, Ciguan, Guoyin).

## 4. Proofs

Eight modules, nearly 14,000 obligations, all checked by `tlapm`. A theorem holds for every value
of the constants that meets the assumptions that the modules name; TLC evaluates
those on every instance. A module of proofs EXTENDS the module that the runs check, a sum
where there is one, so that a theorem speaks of the very property TLC checks; the
proofs of a sum show first that its step is a step of one part that leaves the others
alone.

| Module | Theorems (property of a run in brackets) |
| --- | --- |
| `SumTheorems` | no theorem of its own: induction and sums, see below |
| `MoneyProofs` | Ledger: `TypeCorrect`, `Inductive` (`IInv`), `SlotsArePending`, `TrailIsComplete`, `NoDoubleRefund` (`RefundedOnce`), `BooksBalance` (`Conservation`), `TodayIsCapped` (`TodayWithinLimit`), `LedgerAppendOnly` (`AppendOnly`), `LedgerImplementsAccounts` (`ImplementsAccounts`). Requests and payments: `LeasesAreOwned` (`LeaseIsOwned`), `OnlyAnswersArePaid` (`PaidIsAnswered`), `TwoFaultsToLeak` (`LeakNeedsTwoFaults`), `ReportsAreFinal` (`ReportedIsFinal`), `CreditsWerePaidFor` (`CreditsArePaidFor`), `NothingIsCreditedUnpaid`, `AcknowledgedIsCredited`, `PaymentsAreLedgerSteps`, `LedgerHoldsUnderPayments` |
| `PortalProofs` | `RateIsExact` (`LimitIsExact`), `OneKeyToShow` (`OnePortalKey`), `KeysAreSafe` (`KeysStaySafe`), `NoPlaintextServed`, `NothingBecomesUnreadable`, `AccountsAreWhole` (`RegistrationsAreWhole`), `ChangeIsExact` (`ChangeEndsSessions`), `SessionsAreSafe` (`SessionsLiveOnce`), `LogoutIsFinal`, `NobodyIsRevived`, `NoOtherEnd`; `PortalIsSound`: the six properties of the run hold of `PortalSpec` |
| `TurnExecutionProofs` | `PromptsQuoteThisTurn` (`QuotesThisTurn`), `RepeatsAreFree` (`RepeatIsFree`), `TurnsStayWhole` (`TurnsAreWhole`), `AnswersAreCoherent`, `NodesAreAccountedFor` |
| `SingleFlightProofs` | `OneComputation` (`OneComputationPerKey`), `AnswersAreOwn` (`AnswersAreOwnOrExcused`), `NobodyWaitsInVain` |
| `DeliveryProofs` | `BufferImplementsStream` (`ImplementsStream`), `MemoryIsBounded` (`MemoryBounded`), `AnswersAreOneReply` (`AnswerIsOneReply`), `OnlyAnalysesArePaid` (`PaidForAnalysis`), `ConsultationsAreCoherent` (`ConsultationIsCoherent`) |
| `SharedProofs` | `ProfilesStayWhole` (`ProfileStaysWhole`), `EditsAreKept` (`NoLostEdit`), `ProfileIsWhole`, `OneWorker`, `HistoriesPairUp` (`RoundsPairUp`), `TearsStayContained` (`TearsAreContained`), `ThrowsStayApart` (`ThrowsKeepApart`) |
| `ChartsProofs` | `HexagramsAreSound` (`HexagramsFollowThePalaces`), `ZwdsChartsAreSound` (`StarsStandByTheRules`), `StarsAreSound` (`StarsFollowTheCycle`) |

The arguments, each an inductive invariant with one lemma per action:
- *Sums and folds.* The provers cannot instantiate an induction theorem, whose parameter is
  an operator. `SumTheorems` does induction on sets instead (`NatSetInduction`: a set of
  numbers with zero and every successor is all of them), where the statement is about
  all finite sets of that cardinality, and derives what changing, adding and padding a
  function does to `SumFunctionOnSet`. `SharedProofs` does the same for sequences
  (`SeqSetInduction`) and shows that the recursive function behind `FoldLeft` exists
  (`FoldExists`) and what one element more does to it (`ReadMore`, `ShowMore`).
- *Ledger.* No invariant is inductive alone. `AuditTrail` speaks of the newest row of a
  user, which needs distinct row numbers bounded by `lastRow` (`RowsNumbered`). A refund
  adds a row under a derived name: that it is the first needs `RefundsNamed`. Slots are
  counted, so `inflight` must be finite. `Conservation` and `TodayWithinLimit` follow a
  sum over all rows, of which there are finitely many (`RowsOfSomebody`), through the one row
  that a step changes. Assumed: amounts and limits are naturals, the inflight limit is
  positive,
  `topup-` and `stripe:` ids are not charged (`service.py:140-142` refuses
  them), nobody chooses a `::refund:<uuid4>`.
- *Billed requests* (`RequestInv`). `HandedOver` says for every pair of positions of the two
  threads who owns the lease and the charge; `LocalsAgree` what the closures share;
  `RowKnown` what the ledger's row is at each position; `FaultsCounted` how many failures
  a position takes, which is what `LeakNeedsTwoFaults` needs. Ids are the request's own
  (`OneChargePerId`), and other calls of the ledger touch none of them.
- *Payments.* What Stripe reports is true, and a `stripe:` row names the user and the credits
  of its session (`PaidInv`). Each step is a step of the ledger or leaves it alone, so
  `IInv` and `Conservation` carry over (`FitAssumption`: sessions' ids are among the topup ids).
- *Keys.* At most one pending registration and one stored key per kind and user
  (`KeysInv`); when the rotation of the present master key has run, live keys are
  under it (`CipherInv`), so that removing older ones loses nothing; a request revokes
  keys of its own user only (`RevokesOwn`).
- *Sessions.* Salts are drawn in order and cookies are signed in the past; a revocation row is
  pruned only when its cookie is too old anyway (`RowsOutlive`).
- *Rate limit.* Rows are kept as long as any check that waits still counts them
  (`KeptWhileItCounts`), which needs the retention to be as long as the window and the
  longest wait (`KeepAssumption`); a row in the future of a check is of one that overtook it.
- *Accounts.* `Works` says what exists of a handler's account at each position. Handlers draw
  different ids, or lose the race for one, so that a step of one leaves the others' `Works`
  true; accounts left half-open are injected into the failures.
- *Turns.* `TurnInv`: the loop's sets partition the plan (`Books`); a done node is fresh, that
  is, its cache entry was written for the prompt that would be built now
  (`PromptsHold`). An answer disturbs nobody's prompt because who quotes a node depends
  on it and is not submitted before it is done (`GraphFacts`). That the loop does
  not stall is `NoCycle`: a set of nodes each of which depends on the set is empty.
  `NothingNew` carries "the saved profile answers all of this" through the turn.
- *Single flight.* Whoever computes holds the claim, whoever waits has an event that is
  set or an owner at work (`FlightInv`); what is handed over under a key was computed for
  it, and an entry that is gone was one that failed (`HandInv`).
- *Buffer.* While the client reads, the buffer is filling, draining or overflown, and is
  what was sent behind what was read (`BufferInv`); `bytes` is the sum over the queue.
- *Model call.* The pieces kept are the first ones of one attempt (`PartsInOrder`), what was
  streamed last is what is kept (`StreamedLast`), and attempts and repetitions bound
  the requests (`RequestsBounded`).
- *Consultation.* `CallsKnown`, `AnswerKnown` and `ReceiptKnown` say at each position which prompts
  were sent, what the answer is made of and what the receipt is worth.
- *Profile.* Who works holds the lease; its copy has every edit of what it replaces; what
  replaces the profile is that copy, on the disk (`StoreInv`). `clean_demo_profile.py` takes no lease and rewrites
  `profile.json` in place; it is in the runs and in the theorems. What is said of whole
  profiles and of edits is said of the time until a script goes on to write (`Untouched`),
  and that is why each step has to show that nobody else moves a script on
  (`BesideScripts`, `ScriptKeeps`). From then on the file may be torn, and a script that
  runs alone and is not stopped mends it: it is torn exactly while that script rewrites
  it, and a save in between replaces it, so that the script ends on a file without a
  name (`Mended`). Under a power loss or a profile made anew edits may go, as
  `NoLostEdit` says.
- *Conversations.* An append adds one line to the *safe* lines, those before a line that lacks
  its newline (`Safe`). Damage is counted twice over: answered requests whose round is
  not in the safe lines, and open questions that are not pending there (`Damaged`);
  with the torn line they are no more than the tears (`Contained`). A crash adds a torn
  line, the next question takes it over, and nothing else adds to either. That prompt and
  page agree is shown of every log there can be (`ReadersAlwaysAgree`).
- *sys.stdout.* Before a request enters its block nobody prints to its buffer or has saved it
  (`Unknown`); a request that met no other finds `sys.stdout` as it left it (`Lonely`); two
  that are within at once have met (`Together`).
- *Charts* (`ChartsInv`). At each stage what an engine has written is a function of what it
  was given (`GuaInv`, `ZwdsInv`, `ShenshaInv`), so that a property becomes a statement about
  the tables. It is cut where it falls apart into finitely many small cases: a hexagram
  into its six lines (`PalaceLines`, `ValueHasLines`), a birth into the stem
  of its year, the place of ziwei and the rest (`PlaceOf`), a chart into single pillars
  (`StarsOnPillar`). Each table is compared with its rule entry by entry, without
  induction, and what remains is arithmetic modulo twelve. Three results need an
  argument. *No palace is blank*: six stars that go with ziwei stand in six different pairs
  of opposite palaces, so that a palace without a main star has one opposite.
  *There is always a tie*: the ways between two charts and from ziwei say at which
  distance a flight has to start; for each kind of year there is one (`FlightTable`) but
  for at most one distance, where the other direction asks for another or a star that
  goes against ziwei flies (`NeverEmpty`). *Signs are related in one way*: the sums
  and differences by which pairs agree, clash, harm and form triads exclude each other.

What the proofs changed in the specifications: the precedence of `WorkUnderLease` was weaker than
meant (it still holds as meant), `UsageIsWhole` now says which calls' tokens count, and
assumptions on constants that were left unsaid have names.

*Only model-checked.* Liveness and fairness (`EveryRequestEnds`, `PaidGetsCredited`, `EveryCallReturns`,
`WorkEnds`, `DeliveryEnds`): the prover has no rule for ENABLED. Every invariant and
every action property of a run that passes is stated by a theorem. That the code's
disagreements with its documentation exist (the findings) is shown by TLC's traces.

## 5. Not modelled
- *BaZi strength, combinations, patterns and report*: floating-point weights over the
  same tables, and text. `Shensha` covers the stars, the couples' scores and signs.
- *Planner*: text work without state; `TurnExecution` takes any of its outcomes.
- *Pricing and model routing*: look-ups in a table; constants in the models.
- *run_nodes* (the sequential loop), the *command line* around it, and an
  administrator's unbilled requests: the concurrent forms are modelled.
- *update_charge_meta*, labels, `last_seen_at`, log readers that are plain filters: nothing
  depends on them.
- *Stripe's signatures, hashes, encryption*: taken as perfect.
- *Prompts, web pages, deployment scripts, Cython's output*: text, user interface,
  shell, generated code.
