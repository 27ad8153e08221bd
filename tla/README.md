# Shipmastr backend: TLA+ specifications and proofs

The backend is a TypeScript service over PostgreSQL (Prisma). This directory holds the formal
model of those parts of it that keep money, orders and messages straight while requests,
workers, couriers, payment providers and people act on them side by side: payment
orchestration, the wallet ledger and the two wallets on it, reconciliation and settlements,
checkout, the idempotency middleware, the import pipeline, the import of platform orders, and
the automation autopilot.

Paths below are relative to the repository root unless they name a module of this directory.

Contents

1. The system
2. The modules and the code
3. What each run checks
4. Bounds and fairness
5. What is proved
6. What the code does that its tests say it should not
7. What else was seen while modelling
8. What is left out
9. Plan

---

## 1. The system

### 1.1 Components

| Component | State it keeps | Operations | Talks to | What is hard |
|---|---|---|---|---|
| **Evidence matching and reduction** `paymentOrchestration/matching.ts`, `reducer.ts` | none (pure) | `matchObservation`, `classifyAndDedupe`, `reduceEvidence` | called in every ingestion | the verdict depends on the whole stored history; event groups that become conflicts; precedence |
| **Evidence state machine** `observationService.ts`, `reductionPersistence.ts`, `reviewService.ts`, `obligationService.ts`, `repository.ts` | obligations, attempts, observations, outbox facts, refund cases, signals, logs | ingest, escalate at the SLA, deny a credential use, claim a review, attach a reference, request a query | fed by webhooks, the worker and reviewers; feeds the outbox | repeated, reordered, contradictory and late evidence; partial writes; CHECK constraints |
| **Attempt coordinator** `attemptCoordinator.ts`, `activationPolicy.ts` | attempt rows, policy audits, row locks | `createAttempt` | checkout calls it; shares rows with the state machine | row lock per obligation, key per merchant; unique-index races; lost connections |
| **Reconciliation worker** `reconciliationWorker.ts`, `credentialPolicy.ts` | a list of attempts and requests; claims and consumptions | `runOnce`, `reconcileAttempt` | queries providers, ingests, escalates, denies | a list many awaits old; several workers; runs that die |
| **Refund queue contract** `refundDueContract.ts` | cases, history, reliability events | consume, acknowledge, request action, mark pending, verify, advance | fed by the outbox | delivery at least once, out of order; people who stop working |
| **Wallet ledger** `walletLedger/ledger.service.ts` | entries, postings, balances | `postEntry` | every wallet and the import pipeline post through it | reference and reversal races, lock order, incremental balances |
| **Closed loop wallet** `wallet/w1-closed-loop-wallet.service.ts` | topup intents, shipment holds | intent, topup, hold, capture, refund | posts to the ledger | rows written before or after the post; a call cut short in between |
| **Seller wallet** `wallet/wallet.service.ts` | one append-only list of entries | credit, debit, hold, release, reverse | settlements credit it | a balance read without a lock; keys that race |
| **Reconciliation and settlements** `reconciliation`, `sellerSettlements`, `codRemittances`, `courierInvoices`, `paymentHolds` | invoice lines, remittances, runs, results, holds, settlements, penalties, approvals | import, reconcile, approve, reject, release | credits the seller wallet | late, partial and repeated rows; makers and checkers that race |
| **Checkout** `checkout` | rule versions, quotes, orders, payments, books, telemetry, keys | edit rules, quote, order, pay, transition, abandon | storefront, administrators, worker | no row is locked; requests read side by side and each writes what it decided |
| **Idempotency middleware** `middleware/idempotency.ts` | stored HTTP answers | begin, replay, store | before `POST /orders` | the answer is stored without being awaited |
| **Import pipeline** `importPipeline` | staged rows, shadow-ledger entries, correction batches and items | stage, post, plan, approve, apply, report | posts to the ledger | rows read once and posted one by one; two runs of one batch; crashes between post and row |
| **Platform imports** `platformIntegrations/importQueue`, `webhooks` | jobs, items, cursors, imported orders, conversions | create, run, cancel, continue, convert, stage | shop platforms | look-up and creation are two calls; overlapping pages |
| **Automation autopilot** `automation/autopilot.service.ts` | events, logs, frequency ledger, opt-outs | emit, dispatch, plan, call back, retry, stop | workflow engine, WhatsApp | overlapping dispatches and callbacks; caps read before they are counted |
| **Raw ingestion** `observationIngestor.ts` | rejection rows | parse, authenticate, ingest | turns provider answers into observations | input validation |

Not modelled (`PROJECT.json` has the reason for each): payment presenters, telemetry and
interpretation; provider adapters; the later wallet stages (w1b to w3c); COD dashboards,
courier audit, disputes and rate cards; imports by CSV, format packs and platform adapters;
orders, shipments, tracking, NDR and returns; the courier network; merchants and sellers;
storefronts and domains; other workers and webhooks; authentication, administration and audit;
communication and intelligence; the application shell. They are forms, single-row updates,
previews, rendering and calls to services outside, or read-only views of modelled rows.

### 1.2 How the modelled parts interact

```
 rules ──> quotes ──> orders ──> payments                 platform imports ──> orders
                        │
                        ▼
                   obligations (OPEN)                      reviewers
                        │                                claim, note, request a query
          createAttempt │ (coordinator)                         │
                        ▼                                       ▼
                     attempts ◄──── reduction ◄── observations  review history
                        ▲                ▲             ▲           │ requests
            SLA / denial│                │             │ answers   ▼
                        └──── reconciliation worker ───┴──── provider queries
                                         │
                               outbox facts, refund cases ──> refund queue (people)

 courier files ──> staging ──> shadow postings ◄── corrections
                                     │
 closed loop wallet ──── postEntry ──┴──> wallet ledger
 remittances, invoice lines ──> reconciliation ──> settlements ──> approvals ──> seller wallet
```

Every write of a payment attempt happens in a transaction that first takes the obligation's row
and the attempts' rows `FOR UPDATE`; the review service takes the attempt row only. Posting to
the ledger locks balance rows in ascending order. Everything else here reads without locks, under
READ COMMITTED or outside any transaction: that is where the interleavings are.

### 1.3 What makes the parts correct

* *State machine.* No obligation has two unresolved attempts. Outcomes only move forward, in
  whatever order evidence arrives, and agree with what is stored. A SATISFIED obligation is
  backed by announced success evidence. Each capture paid the obligation or is due for refund,
  once. Evidence in doubt keeps the attempt in front of a reviewer.
* *Coordinator.* Interleaved calls commit what one atomic `createAttempt` would; one key, one
  attempt; the audit names exactly the attempts that exist; every call ends.
* *Worker.* Denial and escalation write over the row they read, however stale the list that named
  the attempt; a reviewer's request is sent at most once; claims are traceable; an overdue attempt is resolved or seen by a person.
* *Refund queue.* Its cases are those of the database, are closed only on provider evidence
  after every station, or escalated and reported once, and settle.
* *Ledger.* Every interleaving is the abstract book: one entry per reference, one reversal per
  entry, balances that are the sums of postings, true answers, no cycle of waits.
* *Wallets and settlements.* A confirmed topup is credited once, a charge is covered by its
  hold, a reversed entry is undone once, a seller is paid what was remitted, and by an approval only
  on another user's decision than its maker's (a direct release takes one user).
* *Checkout and API.* Quotes add up; the setting points at an active version; an order is
  confirmed once; goods leave when paid; one run per idempotency key.
* *Imports.* No shipped report counts a line twice; an applied correction is in the ledger; the
  ledger ends with the corrected reading; a duplicate has an original.
* *Autopilot.* The retry limit and the monthly cap hold but for the calls that race; the ledger
  behind the daily cap counts each logged message and skip once.

The hazards behind these are listed, each at its line, in `PROJECT.json`.

---

## 2. The modules and the code

| Module | Models | Abstraction level |
|---|---|---|
| `ProviderEvidence` | `matching.ts`, the per-observation part of `classifyAndDedupe` | pure; rows that never change are constants |
| `EvidenceReducer` | `reducer.ts` | pure; `ReduceEvidence` returns the plan |
| `PaymentOrchestration` | the evidence state machine, `createAttempt` in one step | one action per transaction |
| `AttemptCoordinator` | `createAttempt` await by await: locks, indexes, rollback, audit | refines `PaymentOrchestration` |
| `ReconciliationWorker` | `runOnce` and `reconcileAttempt`: one action from await to await | refines `PaymentOrchestration` |
| `RefundQueue` | `refundDueContract.ts` fed by the outbox | composed with `PaymentOrchestration` |
| `LedgerCommands` | what `postEntry` checks of a command, and the balances | pure |
| `LedgerBook` | what `postEntry` promises its callers | abstract specification |
| `WalletLedger` | `postEntry` statement by statement | refines `LedgerBook` |
| `ClosedLoopWallet` | `w1-closed-loop-wallet.service.ts` await by await | over `LedgerBook` |
| `SellerWallet` | `wallet.service.ts` statement by statement | one transaction per call |
| `ReconciliationPlan` | `buildReconciliationPlan`, `calculateCodDelayPenalty` | pure |
| `Settlements` | runs, settlements, approvals, penalties, imports | one action per transaction; decisions in two |
| `CheckoutQuote` | the arithmetic of `checkout-quote.service.ts` | pure |
| `CheckoutRules` | `updateRules`, `rollbackRules`, `createQuote` | read and commit are two steps |
| `Checkout` | orders, payments, lifecycle, abandonment worker | look-up, read and commit are three steps |
| `IdempotentRequests` | `requireIdempotency` before `POST /orders` | one action per database call |
| `ImportParsing` | `dryRunParseCsv` | pure |
| `CorrectionPlan` | `diffRows` | pure, recursive functions |
| `ShadowImports` | staging, posting, corrections, tie-out of one file | one action per database call |
| `PlatformImports` | jobs, items, cursors, conversions, webhook events | one action per database call |
| `AutopilotPlan` | the ten plan functions and `evaluate...Channel` | pure |
| `Autopilot` | the life of automation events | one action per await |
| `NoValue` | `Null`: a column, field or row that is not there | shared by the modules that need it |
| `PaymentOrchestrationProofs`, `ReconciliationWorkerProofs`, `CallsAndCasesProofs` (coordinator, refund queue), `WalletLedgerProofs`, `PayoutsProofs` (both wallets, settlements), `SellingProofs` (checkout, middleware, platform imports), `ShadowImportsProofs`, `AutopilotProofs` | theorems about the modules they extend | for TLAPS |
| `MCPayments`, `MCWorker`, `MCCoordinator`, `MCProgress`, `MCLedger`, `MCPayouts`, `MCSelling`, `MCImports`, `MCAutomation` | instances | for TLC |

Definitions named `... Mutant of X` in the comment above them are wrong variants of `X`. They
are used by no specification; substituting one for `X` must break the property that
`PROJECT.json` ("mutants") names with it, which shows that the property depends on the code.

### 2.1 `ProviderEvidence` and `EvidenceReducer`

`ObligationRow`, `AttemptRow` and `ObservationRow` are functions from ids to the columns that
are never updated: an observation table is append-only and an attempt's identity is fixed at
its creation. An observation id stands for one *distinct* delivery; delivering the same event
and body again is the same id. `MatchChecks` keeps the order of the comparisons in
`matchObservation`, because the order decides whether an unmapped status counts as a mapping
gap. `Kind(c, S)` adds the event groups: two bodies under one event id make the whole group an
`INTEGRITY_CONFLICT`. `Verdict` is the precedence in `reduceEvidence`, and the plan operators
(`SuccessPlan`, `TerminalFailurePlan`, `IntegrityConflictPlan`, `MappingGapPlan`,
`UnresolvedPlan`) correspond one to one to the functions of `reducer.ts`. An attempt's provider
order reference, which `createAttempt` writes in the transaction of the insert and nothing
updates afterwards, is one of its constants.

### 2.2 `PaymentOrchestration`

| Action | Code |
|---|---|
| `CreateAttempt` | `createAttempt`, the call that inserts |
| `IngestObservation` | `ingestObservation`: append or classify, load the context, reduce, `persistReduction` |
| `SlaEscalation` | `persistSlaEscalation` |
| `CredentialUseDenial` | `persistCredentialUseDenial` |
| `ClaimReview`, `AttachEvidenceReference`, `RequestReadOnlyQuery` | `reviewService.ts` |
| `CloseObligation` | external: nothing in the repository expires or cancels an obligation, but the reducer and the coordinator read both statuses |

`persistReduction` is the operators `WriteAttempt` (a plan that leaves the attempt unresolved
never takes back a resolution), `SatisfyObligation`, `Emit` (upserts with an empty update: the
first insert for a key wins) and the two log operators. Timestamps that only matter by being
set are represented by the observation whose time they hold (`resolvedAt`, `satisfiedAt`).

### 2.3 `AttemptCoordinator`

A call is named by the attempt it would insert and goes through
`LOCK → FIND_REPLAY → DECIDE → INSERT → COMMIT → ANSWERED`. `lockedBy` is the obligation's row
lock; `inserted` holds uncommitted rows, which other transactions cannot read (READ COMMITTED)
but which make a clashing insert wait; a committed clash raises the unique violation, after
which the call rolls back and looks for the replay once more (`FIND_REPLAY_AGAIN`). `RollBack`
is a connection or process lost at any point of the transaction. Other transactions that lock
the obligation wait for it.

### 2.4 `ReconciliationWorker`

Each worker has a record in `run`: where it is, the attempts and requests it listed, the
attempt and request in hand. Each action is what happens between two awaits. The two
transactions of the worker, denial and escalation, are three steps each: `LockRows` (the obligation
and its attempts, `FOR UPDATE`), `ReadRow` (what the row is goes into `seen`), and `CommitDenial` or
`CommitEscalation`, which write what follows from `seen`, or nothing when the row was resolved. The
transactions of others, among them the ingestion of another worker, wait while a worker holds the
locks (`LockFree`), and so does the next `LockRows`.
`clock`, `createdAt` and `receivedAt` are in abstract units. `QueryFails` is a thrown provider
call, which nothing catches and which therefore ends the run; `CutShort` is the death of the
process, or a throw of another dependency, between any two steps. The functions that list, claim
and consume read-only query requests are parameters of the worker; they are modelled from the
implementations in `__tests__/reconciliationWorker.postgres.test.ts`.

### 2.5 `RefundQueue`

`cases` is the in-memory map of the contract, keyed by the dedupe key (the capture key of the
money), `dueIn` the time left until a case is due for escalation, `escalations` how many
reliability events it caused. `AdvanceToEscalationHorizon` moves the shared clock by the whole
horizon and escalates what is due. Delivery from the outbox is the environment's: any fact,
any number of times, in any order.

### 2.6 `LedgerCommands`, `LedgerBook`, `WalletLedger`

`LedgerCommands` has what `postEntry` checks of a command (balanced postings, accounts of one
scope that are active, a reversal that mirrors its entry) and what an entry does to the balances.
`LedgerBook` is the promise: `Ask`, then `Enter` (at most one entry per reference and one
reversal per entry, the balances move in the same step), then an answer that is `Truthful`.
`WalletLedger` is the code: a call goes through
`LOOKUP → CHECK → ENSURE → LOCK → INSERT → BALANCES → COMMITTED → DONE`, with `holder` the row
lock of each account's balance, `rows` the committed balance rows, `inserting` the uncommitted
entries (invisible to others, but a clashing insert waits), and `LOOKUP_AGAIN` after a unique
violation. `Lose` ends any call at any statement, rolled back if it had not committed.

### 2.7 `ClosedLoopWallet`, `SellerWallet`

`ClosedLoopWallet` has `intents` and `holds` beside the book of `LedgerBook`, whose actions are
its own step (`LedgerStep`): between the question and the answer anything may happen. A call is
one request of one user; two calls with the same subject are a repeated request. `Crash` ends a
call at any await, the post may still go through. `SellerWallet` is one READ COMMITTED
transaction per call, without locks: key look-up, balance read and insert are separate steps, the
unique key of the table is checked at the insert, which waits for an uncommitted clash. Callers
give a reversal a key of its own (`SellerAssumption`): under a key that a credit already has,
`appendLedgerEntry` would answer with the credit and mark the original as reversed by it.

### 2.8 `ReconciliationPlan`, `Settlements`

The plan is a chain of pure operators with the names of the engine's functions; money is in
hundredths, time in days. Every `find` of the engine is a set of places and the row at the first
(`FirstOf`), and the results are a function from what they are of, a line or an order, so that no
list has to be built in a recursion. In `Settlements` a run, an import, a penalty calculation and a direct
approval are one transaction each. An approval is *decided* in two steps (`StartDecision`, then
`CommitApproval` or `WriteRejection`): the row is read first and written last.

### 2.9 `CheckoutQuote`, `CheckoutRules`, `Checkout`, `IdempotentRequests`

`Options` computes the three modes of a quote. An edit of the rules retires the versions it saw
active. A checkout request has up to three steps (key look-up, read of the rows, commit), and a
commit acts on what was read. A telemetry event that is already there aborts the whole
transaction. `IdempotentRequests` has the row of a key (`stored`) and the order rows (`placed`)
with the unanswered update of the response (`storing`), which a `Crash` may or may not lose.

### 2.10 `ImportParsing`, `CorrectionPlan`, `ShadowImports`

A format-pack version is the cells it reads in each line. `Stage` is `replaceRows`: the rows of
the file are deleted and created again with new ids, so the id of a row is the staging and the
line, and an entry's reference names the row that was posted. Posting is row by row, entry and
mark in two steps (`PostRow`, `MarkRow`). A correction batch is planned by `DiffRows`, approved
by another principal, and applied item by item, each await a step:
`ITEM → REVERSE → POST_REVERSAL → MARK_REVERSAL → CORRECT → MARK_CORRECTED`. `postEntry` is one
step here, as the refinement of section 5 allows. `TiesOut` is what a recovery report must
satisfy to ship.

### 2.11 `PlatformImports`

Jobs, items, cursors, conversions and webhook events; every caller is a small program with one
database call per step, `Crash` ends a caller anywhere. Payloads are named, `OrderIn` says which
order a payload is about. The import of an order is looked up (`FindImport`) and written (`WriteImport`)
in separate calls too, so two conversions may each create one.

### 2.12 `AutopilotPlan`, `Autopilot`

A situation is what the plan functions read: for each of two channels whether it is on, consented,
has a recipient, is ready, opted out or capped, and the flags of the workflow. `PlanOf` is the
function of the event's kind: the selected channels, and a reason for each one left out.

`Autopilot` is the life of events: a dispatch reads the event and plans in one step, logs the skips of
the plan side by side, reserves the monthly count, writes PROCESSING, posts, reads the status and
writes DISPATCHED in steps of their own; a callback looks a log up, creates it and counts it in three;
`markAutomationEventFailed` reads the attempts before it writes. Opt-outs and caps are not part of the
situation there but read from the tables (`Seen`).

Whom a row of the ledger, a log or an opt-out is about is a pair (`Subject`), since the code files them
under different strings for one person and never brings these together:

| `as` | Code | Used by |
|---|---|---|
| `phone`, `mail` | the address of the channel | consent of carts, repeat buyers and the digest; messages whose result names the recipient; the skips of a notice (`logTransactionalWhatsappSkips`) |
| `MarketingSubject` | `getMarketingSubject`: the first of nine fields of the payload, then the source id, whatever the channel | consent and daily cap of plain marketing; `none` skips both |
| `sender` | the sender that a result names | messages whose result names no recipient |
| `ref` | `buyer:...`, `cart:...`, ... | the skips of all other plans; messages whose result names neither |
| `event` | `event:...` | the skip of a notice without a phone |
| `cart` | `abandoned-checkout:...` | the cap of carts; nothing is ever counted there |
| `month` | `repeat-buyer:...` in a month | the monthly cap |

`Recipients` says which of `own`, `sender` and `ref` the results of the engine name.

---

## 3. What each run checks

A module with several parts runs them side by side in one configuration: the variable `part`,
chosen in the initial state, says which component a behaviour is about.

| Run | Instance | Properties | Shows |
|---|---|---|---|
| `evidence` | `MCPayments`: two attempts on one obligation, nine kinds of evidence in three scenarios | `TypeOK`, `OneUnresolvedAttempt`, `DoubtIsUnderReview`, `EvidenceAgreesWithOutcome`, `SatisfactionIsAnnounced`, `CapturesAccountedFor`, `AttemptsMoveForward` | through evidence, escalation, denial, review and closure in every order, outcomes move forward and agree with what is stored, doubt stays under review, and each capture paid or is due for refund |
| `kept` | `MCPayments`: a success, its clash, its later evidence, another capture | `SatisfyingCaptureIsKept` (violated) | finding 1 |
| `claims` | `MCWorker`: two workers, one run cut short, a reviewer's request, two credential states | `RequestsRunOnce`, `ClaimsAccountedFor`, `ImplementsOrchestration` | requests run once, claims are traceable; read under lock and written later, denial and escalation are as good as one transaction |
| `calls` | `MCCoordinator`: repeated calls, one key for two obligations, a competing call, another merchant's | `OneAttemptPerKey`, `ImplementsCreateAttempt` | interleaved calls refine the atomic `CreateAttempt` |
| `progress` | `MCProgress`: parts refunds, sla, calls, posts | `CasesAreWorkedOff`, `CasesAreDue`, `RefundsSettle`, `OverdueIsSeen`, `CallsAreAnswered` | refund cases are due, closed properly, and settle; overdue attempts are seen; no call or post waits for ever |
| `ledger` | `MCLedger`: nine commands, up to five at a time | `NoWaitCycle`, `LosersKnowWhy`, `TrialBalance`, `ImplementsBook` | every interleaving is the book, without circular waits, with true answers and balanced books |
| `payouts` | `MCPayouts`: parts wallet, seller, settlements, odd | `ConfirmedIntentsAreCredited`, `ChargesAccountedFor`, `ReversedEntriesAreUndone`, `SettlementsAreFunded`, `CreditsAreAuthorised` | charges and rows agree across crashes, reversals undo once, what is settled was remitted and owed, an approval's credit was not decided by its maker |
| `covered` | `MCPayouts`: a topup and two shipments | `HoldsAreCovered` (violated) | finding 2 |
| `selling` | `MCSelling`: parts rules, keys, paid, door, api, jobs, reads | `QuotesAddUp`, `SettingIsActive`, `GoodsArePaidFor`, `ConfirmedOnce`, `DuplicatesHaveAnOriginal`, `OneRunPerKey` | from the rules behind a quote to the goods at the door; API keys with crashes; platform orders read and converted by two callers |
| `imports` | `MCImports`: parts rows, releases, growths, raises, whole | `ShippedLinesCountOnce`, `AppliedItemsArePosted`, `CorrectionsReachTheReading` | staging again, two posting runs, two appliers, failures and crashes: reports count lines once and corrections arrive |
| `automation` | `MCAutomation`: parts busy, single, plain, notices, alerts | `LedgerCountsLogs`, `AttemptsAreLimited`, `MonthlyCapHolds` | attempts stay within the limit and messages within the month but for the calls that race; each log, of a message or a skip, is counted once |
| `completed` | `MCAutomation`: part busy | `CompletedEventsStay` (violated) | finding 3 |

Every configuration says `CHECK_DEADLOCK FALSE`: these systems may really stop, once all calls
are answered, all items applied, an obligation closed, or a bound reached. That nobody waits on
somebody who waits is a property of its own (`NoWaitCycle`, `CallsAreAnswered`).

---

## 4. Bounds and fairness

**Evidence** (`evidence`, `kept`). Every unit of code acts on one attempt and reads one
obligation's evidence, so two attempts on an obligation reach every branch. A capture needs at
most four deliveries to show all refund decisions (the satisfying one, its repetition under
another event, a distinct one, a clash). `Scenarios` names the three combinations of attempts and
evidence: outcomes of every kind for two attempts, every kind of evidence about one attempt, and
captures in every combination. `b1`, an attempt on another obligation, occurs in `progress`.

**Calls** (`calls`, `ledger`, `payouts`, `selling`). A race needs two calls that clash on an index,
a third that holds what one of them waits for, and one of another merchant or account. Which calls
run together is listed per scenario (`CallScenarios`, `LedgerScenarios`, `WalletScenarios`): calls
that share nothing are not combined. `LedgerScenarios` and `InTurn` (alike requests are numbered
as they arrive) are guards of the next-state relation, the others constraints that are closed under
the steps of calls under way.

**Time** (`claims`, `progress`). `MaxClock` stops the clock, `LastCreation` keeps attempts from being
created so late that their automated window would not close before that. The policy has the
proportions of the mock policy of the tests, in units of its shortest delay, so that due, SLA and
window boundaries fall inside the bound. `Horizon` 2 lets a refund case be acknowledged before and
after half of it.

**Failures.** `MaxCrashes` and `MaxFaults` bound crashes and database failures (any place, one or
two times); provider failures (`QueryFails`), rejected answers and lost connections of the
coordinator and the ledger are unbounded.

**Settlements.** A COD order, a prepaid one and one that came back; `MaxRuns` and `MaxApprovals` are 2,
so that a run finds results of an earlier one and two requests race. Lines and remittances are exact,
repeated, late, partial, too heavy or of nobody, in every order.

**Checkout.** Rules with percentages, bounds and waivers that exceed small carts; carts of nothing, a
small and a large amount. Four or five requests about one order, of every operation and outcome.

**Imports.** Two or three lines: a hold, its release and a charge, and their corrected reading with a
line more or an amount raised. `MaxStagings` 2 stages a file again while it is posted; one batch,
applied by two principals at once.

**Autopilot.** Two callers. *busy*: one event of a repeat buyer, dispatched and called back by both at once,
with a fault at any place. *single*: two events of one buyer, one call at a time, with retries: what
uses up the month is another event's message. *plain*: marketing and the merchant's digest, which ask
for consent under a subject of their own. *notices*: a notice that is skipped and logged under the phone
which plain marketing is capped under. *alerts*: each of the other plan functions, in a situation in which
it leaves channels out, one event to a behaviour. `RetryLimit` is 2 and the caps are 1, so that the limit,
the month and the day are reached and overrun; `Within` bounds dispatches, callbacks, retries and
faults of each part. `Recipients` is `own` and `ref`: a sender is one more subject that no check asks
for. The plan functions are pure; that they are asked in few situations costs the
properties nothing, since these are about what is logged, counted and tried, whatever the plan. The
windows of the frequency ledger do not end.

**Symmetry.** Over the two workers in `claims` and the two callers in `selling` and `automation`, which
check only safety and action properties; the callers are interchangeable model values.

**Fairness** (`progress`, `ProgressSpec`). Each part has the fairness of its module and nothing else is
fair.

* *refunds* (`FairQueueSpec`): weak fairness of consuming an outbox fact that is not in the queue yet
  (at-least-once delivery) and of advancing to the horizon. Nothing is assumed of the people.
* *sla* (`FairWorkerSpec`): weak fairness of `Tick` and of each worker's steps: `runOnce` is called again
  and again, each call goes on until it ends. The repository has no scheduler, so this is what any
  use of the worker has to provide. Nothing is assumed of the provider. The policy stays valid for
  the whole run: once it has run out the code no longer escalates, and `OverdueIsSeen` would not hold.
* *calls* (`FairCoordinatorSpec`) and *posts* (`FairLedgerSpec`): weak fairness of each call's steps: the
  database answers and the event loop resumes the call. Nothing is assumed of retries.

---

## 5. What is proved

The theorems hold for *every* set of obligations, attempts, observations, workers, requests,
calls, accounts, principals, keys, rules, carts, quotes, orders, rates, items, file versions,
situations and bounds. What is assumed of the constants, each in the module that declares them:

| Assumption | Why the code justifies it |
|---|---|
| `RowAssumption` | an attempt names an obligation, an observation an attempt and a mapped outcome: foreign keys and an enum |
| `NullAssumption`, `CallAssumption`, `NamesAssumption` | `Null` is no id |
| `HorizonAssumption` | the horizon of the refund queue is positive |
| `LedgerAssumption` | account ids are ordered and finitely many; `Null` is no call |
| `PostingsAssumption` | a command has finitely many postings of whole paise, each a debit or a credit, and an account has one of these as its normal side |
| `WalletAssumption` | amounts are integers; `Null` is neither a call nor a row |
| `SellerAssumption` | directions are those of the enum, amounts positive, and a call that shares the key of a reversal repeats that reversal; the last is up to the callers |
| `SettlementsAssumption` | orders and shipments are lists, amounts of orders and remittances whole and not negative, `Null` is no user |
| `RulesAssumption` | charges of stored rules were parsed (`parseMinorUnit`: no negative amount); carts are not negative; `Null` is no amount |
| `CheckoutAssumption` | amounts of a quote are not negative and full COD owes nothing at once, which `OptionsAddUp` proves of `Options`; requests are of the routes' kinds; `Null` is no row |
| `RequestsAssumption` | every request has a key; `Null` is not the word for an open row |
| `AutopilotAssumption` | a kind and a situation for every event, finitely many calls and at least one, limits that are numbers; a result names the recipient, a sender or a stand-in |

`ShadowImports` and `PlatformImports` need none.

**State machine** (`PaymentOrchestrationProofs`, `Invariant`: `Spec => []IInv`). `IInv` is the
conjunction of `TypeOK`; `AttemptsWellFormed` (terminal exactly when resolved, no open review
when resolved, no completed review when unresolved); `OutcomesBacked` (a persisted success,
failure or "not found" has a stored observation of that kind behind it); `OneUnresolvedAttempt`;
`EvidenceFiled` (only evidence of existing attempts, under their own obligation, is stored);
`SuccessesActedOn` (a matched, undisputed success has been acted on); `SatisfactionIsAnnounced`.

`OutcomesBacked` is the strengthening that makes it inductive. That a later reduction never
takes back a terminal outcome does not follow from the row alone: the reducer does not look
at the stored outcome first, it re-derives the verdict from all evidence. The argument is that the
backing observation is still stored; the reducer therefore sees a success, a failure, or finds
the group in conflict, in which case the plan repeats the row (`PlanSound`, `PlanSatisfies`).
Other reductions of the obligation cannot interfere since they write other attempts, and the
obligation's status only leaves OPEN. From `IInv`: `TypeCorrect`, `AtMostOneUnresolved`,
`DatabaseAccepts`, `EvidenceAgrees`, `SatisfiedByAnnouncedSuccess`, and the action property
`ForwardOnly`.

* `DoubtStaysUnderReview`: evidence in doubt is never un-stored and its kind only moves towards
  conflict. When it arrives, or anything later is reduced, the verdict of an unresolved attempt is a
  conflict, a mapping gap, or one of the plans that keep an open review; only a person's decision
  or a resolution ends the review.
* `CapturesAreAccountedFor`: each capture of an obligation without a disputed success either paid
  it or has a refund case, and not both. A capture that is new to the obligation must be new to the
  refund cases as well: that is `RefundsHaveCaptures` (every refund case is under the key of a
  stored, matched success of its attempt, `RefundsBacked`), an invariant of its own. With it, the
  first success satisfies an OPEN obligation, every further one opens exactly one case, and an
  observation under a known key changes neither side.
* `AnnouncedRefundsAreDue`: every refund fact of the outbox is about a refund case of the same
  obligation, since `Emit` writes both from one plan and the first insert for a key wins.

**Refund queue** (`CallsAndCasesProofs`). `QueueInv`: the history of a case is exactly the stations its
status has passed, an escalated case has been reported once and no other, and there is no history
without a case, so that a new one starts with none. The history is needed because the table of
transitions only speaks of the present status. From it `WorkedOff`. The queue only reads the state
machine, by the shape of its actions, so that every theorem about it carries over; with
`AnnouncedRefundsAreDue` this gives `WorkedCasesAreDue`: nobody works on a refund that the
database does not know of, whatever the outbox repeats or reorders.

**Worker** (`ReconciliationWorkerProofs`). `WorkerImplements`: denial and escalation, three steps each,
implement the one-step `CredentialUseDenial` and `SlaEscalation`, for any number of workers and lists
however stale. The commit writes what was computed from `seen`; that it maps to the transaction takes
`TransactionsAlone`: no two workers hold the rows of one obligation, and between the read and the
commit the row is still `seen`. To keep it, everything that may run in between is shown to change
outcome, review and resolution time only of attempts whose obligation is unlocked
(`RowsChangeUnlocked`): evidence that reduces to another attempt of the same obligation, a
reviewer's claim, another worker's commit. With the locks left out (mutant `NeverLocked`) an
escalation writes PENDING's successor over a success, which run `claims` finds.
Everything above then holds with the workers running (`WorkersKeepChecks` is one instance of that).
`WorkerInvariant` ties claims, executions and consumptions to the worker that holds the request
and to where it is; the claiming row is what makes the request exclusive. From it
`ExecutedOnce` and `ClaimsTraced`.

**Coordinator** (`CallsAndCasesProofs`). `CoordinatorInvariant` has two halves. `Decided`:
what a call found out about its obligation stays true while it holds the row lock, since
everything that writes the obligation or inserts one of its attempts waits for it. `KeysApart`:
nothing protects what a call found out about its *key*, which belongs to the merchant; there
the unique index speaks, and among committed and uncommitted rows keys are distinct. From it
`CoordinatorImplements` (any interleaving implements the atomic `CreateAttempt`),
`CoordinatorKeepsOneUnresolved`, `KeyGetsOneAttempt` and `AuditIsExact`.

**Wallet ledger** (`WalletLedgerProofs`, `LedgerInvariant`). `LedgerInv` says that a call has
learned what its place in the code says, that uncommitted entries clash with nothing committed or
uncommitted (the index waits), that rows are inserted and locked upwards (`RowsGoUp`), and that
answers are true. From it `LedgerTypeCorrect`, `PostedOnce` (no two entries of one reference, no two
reversals of one entry), `LosersAreTold`, and `LedgerImplementsBook`: the commit of the transaction
is the step `Enter` of the book, every other statement is a stutter or `Respond`. `PostsNeverDeadlock`:
in a set of calls that wait on each other, one that waits for an index entry waits for a call that
waits for nothing, and among those that wait for rows the one that waits for the highest account
would have to wait for a higher one; accounts are well-founded from above, since there is a last one.

`BooksAlwaysBalance` (`TrialBalance`) is about sums, over the postings of a command, the accounts of a
scope and the entries of the book. `MapThenSumSet` takes the terms in an order that `CHOOSE` picks, so what
has to be shown first is that the order does not matter (`SumTakes`: a sum is any one of its terms and the
sum of the others). That is induction over finite sets, done without an induction rule: if it failed,
it would fail for a set none of whose proper subsets it fails for (`LeastSet`, from the
well-foundedness of the sizes), and that one it cannot fail for. With sums that can be split by kind and
exchanged (`SumOfKinds`, `SumPlus`), a balanced command moves both sides of each scope alike
(`SidesMoveAlike`), and the commit is the only step that moves a balance (`CommitKeepsBooks`).

**Closed loop wallet** (`PayoutsProofs`, `WalletInvariant`). `BookAgrees`: references are unique
in the book, only posting calls were answered, and an answer with an entry names a posted one of the
same command. `PlacesAgree`: what a call was answered follows from where it is. `IntentsAgree`: a topup
that has been asked for found its intent with the wallet and amount it posts, and a confirmed intent
names a posted topup of its own. `HoldsAgree`: a charge that has been asked for was covered by a hold
whose amount never changes, and it is captured unless the call still has to do it or was cut short.
What needs the invariant is the time between question and answer, in which other calls repeat or
overtake the call. From it `ConfirmedAreCredited` (the entry an intent names is the *only* one that
credits it, by uniqueness of the reference) and `ChargesAreCovered`. The wallet takes the ledger's
steps from `LedgerBook`, which `LedgerImplementsBook` shows the code of the ledger to implement.

**Seller wallet** (`PayoutsProofs`, `SellerWalletInvariant`). The property says nothing of a reversal
that has found its original and not marked it yet. `SellerInv` adds that each entry is the entry of a
call, that each reversal among the entries undoes the entry it names, and that a reversal past its first
look has an original (`OriginalsFound`): entries are never removed, and what an entry does never changes,
only its mark. The unique key does the rest, since two calls under one key cannot both insert. From it
`ReversedMeansUndone`.

**Settlements** (`PayoutsProofs`, `SettlementsInvariant`). Of the plan (pure, for any orders, lines,
rates, events and policies): a result is approved exactly when it has no dispute (`ApprovedMeansUndisputed`:
every type of dispute has a rank, so none slips through the precedence), and a result without one is of a line
that is billed once and, for COD, of a remittance of that order that covers the cash (`PlannedIsSound`).
`SettlementsInv` carries this through later imports and runs, which only add, by keeping with each
result how many lines it knew; and it ties the payouts to the decisions: a decision under way is about an
approval that exists and by somebody else than its maker (`DecidingInv`), an approved row names a settlement that
exists (`ApprovalsInv`), a credit is of a positive amount, names a settled settlement and, under an approval's
key, an approval that was decided (`CreditsInv`). What needs it is the time between the read and the write of a decision, in
which a second checker may decide the same approval the same or the other way: the second payout has the
key of the first, and the checker that is written is never the maker. From it `SettledMeansFunded` and
`CreditsWereAuthorised`. A settlement may be credited directly and by each of its approvals; the theorem says
who decided a credit, not that there is one.

**Checkout** (`SellingProofs`). `OptionsAddUp`: whatever the rules, the cart and the pincode, the amounts of each option
are natural numbers that add up. `RulesInvariance` and `SettingStaysActive`: an edit retires the versions it saw, and
the one it adds was not among them (`EditsKnowTheirVersions`). `QuotesAlwaysAddUp`: a quote is made of
the rules of some version, retired in the meantime or not. `CheckoutInvariance`: no row is locked, so what matters
is which parts of what a request has read survive until it commits. `RowsGrow` names them: an order that was placed stays
with its amounts, and nothing leaves its books. `OrdersSound` says which books, payments and events an order
of each state has, `CallsInFlight` what a request in each stage may rely on; each step shows what it does to the
rows it touches and that it leaves the others alone (`StepKeepsInv`). From it `GoodsAreAlwaysPaidFor` and
`OrdersAreConfirmedOnce`; the second rests on the primary key of the idempotency rows and on the telemetry
event that is recorded in the transaction of a capture and that a second one clashes with.

**Idempotency middleware** (`SellingProofs`, `RequestsInvariance`). A key without a stored row has no
request in the route and none that was there, and a stored row never goes away. From it `KeysEnterTheRouteOnce`, an action property.

**Platform imports** (`SellingProofs`, `PlatformInvariance`). An item becomes a duplicate some calls after an
import of its order was found. `FoundIsCovered` carries the finding along: imports are never removed, and the item behind
one was imported or can be run again (`Covered`); `ListIsThere` and `ConvertsAnOriginal` say that a run marks items
that are there, and that a conversion never takes up a duplicate. From it `NoOrderIsLost`.

**Import pipeline** (`ShadowImportsProofs`, `ImportsInvariant`). `ImportsInv`: references are unique; an
entry of a correction belongs to an item, reverses what the item says, and a corrected entry comes
after the reversal (`EntriesHaveItems`); what a stored item and a run of `applyCorrectionBatch` tell of
the ledger is so (`ItemsTell`, `AppliersKnow`); an applied batch is complete. Two principals apply one
batch and overwrite each other's rows, so nothing an applier has read need still be in the tables; what
makes the argument work is that everything it *knows* is monotone: entries are never removed, an item
keeps its action and the row it corrects (`Keeps`, `EntriesStay`). From it `AppliedArePosted`.
`LinesCountOnce` takes a second invariant (`RowsNameLines`: a row of the present staging names its line
and is marked with no entry but its own): a staging that replaces posted rows lets their lines be
posted again, but two entries that tie out on one line are both the one that the present row is
marked with, and references are unique.

**Autopilot** (`AutopilotProofs`). `AllSteps` shows of every step how it looks to each of three invariants:
whether it touches the books of the ledger (`BooksStep`: a creation, a counting, a loss), the attempts
(`AttemptsStep`: a reading, an attempt) or the months (`MonthStep`: a plan, a reservation, a post), or
leaves them alone. Each invariant is then proved against two or three kinds of steps.

* `LedgerCounts` (`Apart`, `Balanced`): no log is in the hands of two calls that have to count it. A creation
  adds one log and one call that has to count it, a counting moves one from the calls to the ledger, a
  crash or a swallowed failure at most loses one for each fault, and a second delivery, or a plan that is
  made again, finds the log. That holds under each key by itself, whomever the log was filed under.
* `AttemptsHaveALimit` (`AttemptsKept`): the plain bound is not inductive, since any number of calls may be
  under way that read the event early. Once the limit is reached, attempts made plus those `Late` calls
  never grow: a later reading finds no attempts left, and an attempt uses up its call. The call that
  reached the limit is not among them, hence callers less one.
* `MonthlyCapIsKept` (`MonthKept`): runs do not outnumber reservations but for failed ones, and calls that have
  reserved and not yet posted (`Reserved`) will add theirs. A call that planned with room (`Pending`)
  reserves without looking again; once the month is full no plan finds room (`FullMonthsAreLeftOut`), so
  that the calls pending at that moment, all but the one that filled it, are the overrun. It is about the buyer's
  events together, and needs what the plan of a repeat buyer returns for every situation.

**Only model-checked.**

* Liveness (`OverdueIsSeen`, `CallsAreAnswered`, `RefundsSettle`): the prover handles neither fairness nor
  ENABLED.
* `CorrectionsReachTheReading` adds up the entries of a file after a correction that a plan computed. The plan
  folds over the lines three times (`DiffRows`), and what such a fold returns is defined by recursion
  over the rows: a fact about it for every input needs induction over that data, for which the prover has no rule
  that it can apply. Sums are the exception (wallet ledger, above). For the same reason no theorem is about the
  recursive `Delay` of the worker, and none depends on it.
* What the three violation runs refute is about instances.

Every other invariant and action property of the passing runs is a theorem.

---

## 6. What the code does that its tests say it should not

1. Run `kept`. `reduceTargetSuccess` (`reducer.ts`) looks for captures already seen only among the
   observations that are *still* `MATCHED_SUCCESS`. When the event that satisfied an obligation comes
   back with another body, its event group becomes `INTEGRITY_CONFLICT` and the capture drops out of
   that view although the obligation stays SATISFIED by it. The satisfying capture, observed again
   under a new event id once another capture is stored, is taken for a surplus and gets a refund
   case, although `__tests__/reducer.test.ts` ("emits success evidence but does not reopen a refund
   for an already-seen capture identity") says that it does not.
2. Run `covered`. `placeShipmentEstimateHold` reads the posted and the held amount without a lock and
   creates the hold later: two shipments are held although the balance covers one
   (`w1-closed-loop-wallet.service.test.ts`: "places shipment estimate holds, reduces available balance,
   and rejects insufficient holds").
3. Run `completed`. Whether an automation event is still PROCESSING is read in one call and DISPATCHED
   written in the next: a callback in between is overwritten (`autopilot.hardening.test.ts`: "does not
   overwrite a completed callback when n8n responds after callback").

---

## 7. What else was seen while modelling

Behaviours that follow from the code, that no doc or test rules out, and that the models contain.
Properties above are stated so that they hold beside them.

* *Payments.* After a satisfying event has come back with another body, a distinct second capture gets no
  refund case; `CapturesAccountedFor` speaks of obligations without such a clash.
* *Seller wallet and settlements.* Two debits may read the balance before either posts. A settlement that was
  released directly is credited again by an approval, and by each further one: the payout refuses only a
  BLOCKED settlement, and every approval has a key of its own. A direct release has no second user. A settlement
  that owes the seller nothing, as of every prepaid order, cannot be settled at all: the wallet refuses the
  amount and the transaction is rolled back. A reversal under a
  second key posts a second time. Running a reconciliation again makes new settlements for the same
  orders; only the first remittance of an order counts; penalties look at the latest remittance, the
  engine at the first. A rejection may overwrite an approval that has already paid out.
* *Closed loop wallet.* Two captures of different amounts against one hold are two charges. A capture cut
  short between the post and its row is answered from the entry when repeated, and its hold stays active.
* *Checkout.* An initiation or a failure that read the payment before a capture committed overwrites
  "captured". A replay answers with the present order, not with the first answer. One quote may become
  several orders under several keys. Orders that cost nothing stay pending although booked as
  confirmed. A capture and a late capture may both be booked, a transition twice, a closed order
  reopened. An overlapping retry fails on the unique telemetry event instead of being replayed.
* *Idempotency.* A process that ends between order and answer leaves the key without one for ever.
* *Imports.* Staging a file again posts its lines again; only the tie-out keeps that out of a report. Two
  batches may post a new line twice. A second applier may mark an applied item failed, a late approval
  may set an applied batch back to approved. A correction reverses a hold that was already released, and
  a corrected file ships a report without the entries of its corrections. Lines that are blank or
  subtotals share a fingerprint, which blocks the correction.
* *Platform imports.* Items of a dry run or of a cancelled job make later ones duplicates; a conversion that
  races a run marks its own item a duplicate; a crash after `order.create` leaves an order without its
  conversion; jobs that were running when the process ended are not picked up; a cancelled job runs on;
  two overlapping runs may import one order twice.
* *Autopilot.* Nothing dispatches an event again by itself. Overlapping dispatches overrun the monthly cap,
  and a cap may be consumed by a dispatch that then fails. A callback that reports a failure allows three
  attempts whatever the workflow's limit. No claim is made that nobody is written to against consent,
  opt-out or cap, because the code does not keep to it:
  - a STOP is filed under the recipient of the provider's callback, else of the log, which may be a sender
    or a stand-in, and plain marketing asks under the first of nine fields whatever the channel: a
    payload with a mail address and a phone looks the WhatsApp STOP up under the address;
  - the pickup, SLA and scan plans set `merchantEmailEnabled` without looking at the merchant's consent
    (autopilot.service.ts:5850, 6076, 6307), so that an opted-out merchant is marked as one to mail as soon as the
    courier or operations are mailed; the workflow engine decides what becomes of it;
  - the cap of carts is looked up under `abandoned-checkout:<cart>` (4627), where nothing is ever counted;
    autopilot.hardening.test.ts puts the count there by hand;
  - fake-scan and partner-digest plans, notices and router events ask for no consent, and only the last
    two use WhatsApp;
  - a skipped notice is logged under the buyer's phone and so counts as a message of the day to it, which
    plain marketing is then refused for.

---

## 8. What is left out

* Rows that nothing reads back: observation deliveries, policy audits of the worker and of
  denials (the coordinator's are modelled), rejection rows, audit and timeline rows of finance and
  checkout, block notes, balance snapshots.
* Free text, labels, serializers, presenters and exports; configuration gates; creation of owners and
  accounts.
* Statements inside one transaction of the evidence state machine: its rows are locked from the first
  read to the commit, so a transaction is one action. For the worker's two transactions this is shown
  (`WorkerImplements`), for `createAttempt` as well (`CoordinatorImplements`); ingestion and the review
  service rely on the same locks and are not split. Where no lock protects what was read
  (coordinator, ledger, wallets, checkout, imports, autopilot) the statements are separate.
* The worker reads the reconciliation state and the clock in one step. Beside the workers only
  evidence from elsewhere, claims of reviews, requests and new attempts run. `nextDueAt` takes the
  number of stored observations as the query count, as the repository does in its tests.
* A reconciliation run and its penalties are one step although they are a transaction without locks;
  orders, shipments, rates and policies do not change.
* Payment attempts, failures and buyer tokens of checkout; the address graph, sessions and places.
* The parsing primitives of import files, account provisioning, the columns of the reports.
* The reads at the start of a conversion, and of an autopilot dispatch up to its plan, are one step. Quiet hours and
  paused workflows are nondeterministic. Event builders, templates, settings and reports are out.
* Components of section 1.1 marked as not modelled. In shipping, tax compliance and partner onboarding
  single rows are written by id from copies read earlier; they are candidates for later modules.

---

## 9. Plan

*Done:* the modules of section 2, the runs of section 3, the theorems of section 5.

Next, in this order:

1. `DiffRows` as sums and sets over lines in place of folds, after which `CorrectionsReachTheReading` could be
   proved with the sums of `WalletLedgerProofs`.
2. Models of shipping (`shipNow`, cancel, manifest), tax compliance and partner onboarding.
3. A refinement of the closed loop wallet: topups and charges as an abstract purse.
