# QuickVoice: a TLA+ model of the money path and of what surrounds it

QuickVoice is a voice-agent platform: organizations configure agents, buy phone
numbers, and take or place calls that LiveKit workers carry. Everything the
platform charges for goes through one prepaid wallet per organization. Most of
what is hard to get right in this repository is there: requests, sweeps,
webhooks and crashes meet on a handful of database rows, and a wrong order of
two steps costs somebody money. This project models that path, starting at the
wallet and working outwards, and the two other places where several processes
work on one row for minutes: outbound dispatch and the indexing of knowledge.

All paths below are relative to the repository root. File names without a
directory are in `apps/server/src/modules/billing`; `numbers/`, `outbound/`,
`kb/` and `agent/` are directories of `apps/server/src/modules`.

## 1. Inventory

### Processes and stores

| Process | Runs | Shares |
|---|---|---|
| API server (`apps/server`, Express) | request handlers, internal billing endpoints for the AI workers, Stripe and provider webhooks | PostgreSQL through Prisma, Redis (BullMQ, rate limits) |
| BullMQ workers (`apps/server/src/workers`) | campaign dispatch, knowledge-base indexing, agent deletion | the same database, at-least-once jobs |
| Inngest / cron (`apps/server/src/inngest`) | billing maintenance, silent-call watchdog, telephony reconciliation, number renewals, purchase recovery, Stripe reconciliation | the same database |
| AI workers (`apps/ai`, Python) | one LiveKit session per call, a usage reporter that posts cumulative usage and keeps a durable queue for final reports, background tasks that embed and publish documents | HTTP to the API, Redis |
| Stripe, Telnyx/Twilio/Vobiz, LiveKit, vector stores | payments, phone numbers and legs, rooms, vectors | webhooks and polling |

Nothing but the database serializes these processes. Wallet methods are
Serializable transactions with an idempotency key; everything around them is a
sequence of separate statements, most of them compare-and-set updates
(`updateMany` with the expected values in `where`), and a process may die
between any two.

### Components

| Component | State | Operations | Interacts with | What makes it correct |
|---|---|---|---|---|
| Wallet ledger (`wallet-ledger.service.ts`) | account (paid, promo, reservedPaid, reservedPromo, debt), append-only ledger, reservations | grant, credit, reverse, reserve, renew, settle, release, adjust up and down, record debt | called by all that follow | the ledger replays to the account; a reservation closes once; debt is the last resort; promotional money never buys a number |
| Call metering (`call-metering.service.ts`) | `CallBillingSession`, one hold at a time, settled checkpoints | authorize, retry an admission, cancel, apply a usage snapshot | wallet; AI reporter; outbound dialler | usage is charged once; the session shows what the ledger did; a live call has credit behind it |
| Billing maintenance (`billing-maintenance.service.ts`) | none of its own | settle, release and repair expired holds | wallet, metering's rows | ended calls stay ended; every hold closes |
| Silent-call watchdog (`silent-call-watchdog.service.ts`) | none of its own | hang up and bill telephony calls without reports | LiveKit, wallet, metering's rows | silent calls end |
| Telephony reconciliation (`telephony-reconciliation.service.ts`) | claim columns of the session, `TelephonyCostReport` | claim, fetch the provider's price, adjust the wallet, finalize; promote DEBT sessions; Telnyx report cycle | providers, wallet | one adjustment per call; refunds return to the bucket that paid; every ended call is finalized |
| Stripe wallet (`stripe-wallet.service.ts`, `stripe-wallet-state.ts`) | `TopUp`, `StripeWebhookEvent` | checkout, automatic recharge, webhooks, reconciliation of refunds and disputes under a lease | Stripe, wallet | a payment is credited once; what is taken back never exceeds it, whatever the order of webhooks |
| Number purchase (`numbers/number-purchase*`) | `PhoneNumberPurchase` saga row | reserve, order, look up, settle or release, recover | provider, wallet | the price is paid exactly when the number was acquired; at most one order |
| Number renewal and release (`numbers/number-billing*`, `number-release*`, `number-deletion*`, `phone.service.ts`) | `PhoneNumber` row with an operation token | claim, charge, suspend, release, delete, link to an agent | provider, LiveKit, wallet | a period is paid once; a number is released only after its authorization, and not paid after it |
| Outbound calls and campaigns (`outbound/`) | campaign, calls, slots, jobs | claim slots, queue, dial, mark, cancel, recover | BullMQ, LiveKit, metering | the agent's limit; nobody is called twice; outcomes are recorded; campaigns end |
| Knowledge base (`kb/`, `workers/kb.worker.ts`, `apps/ai/utils/kb_index_state.py`, `apps/ai/handlers/kb_handler.py`) | `KnowledgeSource` row with its job, Redis manifest per namespace, vectors | create, edit, move, retry, reindex, index, publish, delete | BullMQ, AI service, vector store | an ACTIVE source is found; a removed one does not come back |
| Agent deletion (`agent/`) | Agent row in deletion | request, run, recover | knowledge base, storage | a deletion that was accepted ends |
| Usage reporter (`apps/ai/handlers/billing_usage_reporter.py`) | snapshot sequence, durable queue | report, retry, flush after a restart | metering endpoint | the final report is delivered at least once |
| Transcripts, widget sessions, rate limits, CRUD modules, front ends | see `PROJECT.json` | | | |

`PROJECT.json` lists every component, also those that are not modelled, with the
reason, and under `hazards` the places where the code is hard to test, each with
the properties that watch it or a note saying why none does.

### The hard behaviours

* **Crashes between two statements.** A settlement commits and the session
  update never happens; an order is placed and its answer is lost; a slot is
  claimed and its job never queued. Somebody else has to finish, once.
* **Duplicated, reordered, overlapping messages.** Usage reports are cumulative
  and numbered; Stripe events come at least once and in any order; jobs are
  repeated while their first worker still runs.
* **Stale reads.** Metering projects values computed from a session it read
  several transactions earlier; sweeps act on lists they read before;
  reconciliations work with targets that advance meanwhile.
* **Leases.** Claims, tokens and locks run out while their owner is slow or dead
  and are taken over. Which of the owner's remaining steps are fenced decides
  what can go wrong.
* **Debt.** Once an account is in debt every credit repays first. This couples
  calls that otherwise do not touch.
* **Points of no return.** A released number and a deleted source must not come
  back through somebody who has not heard of it yet.

## 2. Modules

| Module | Models |
|---|---|
| `LedgerDeltas` | the arithmetic of one wallet operation: what it adds to each of the five columns (operators only) |
| `WalletLedger` | `WalletLedgerService`: one action per method |
| `WalletEscrow` | abstract: one signed balance, escrows opened within it and closed once |
| `CallMetering` | one call: admissions, reports, cancellation, maintenance, watchdog, as interleaved processes that may die |
| `CallSettlement` | several calls of one organization from admission to the provider's price, with overlapping reconcilers |
| `StripeTopUp` | one top-up: checkout or automatic payment, webhooks, credit, refunds, dispute, reconciliation |
| `TopUpPromise` | abstract: the principal is credited once, and refunds and a held part fit into it |
| `NumberPurchase` | competing quotes for one number, each with its saga, lost answers and recovery |
| `PurchaseEscrow` | abstract: nothing is ordered before money is held, paid before it is acquired, or given back while it may still come |
| `NumberRental` | one number: renewal, suspension, last chance, release, deletion, and its link to an agent |
| `OutboundDispatch` | one agent: a campaign's pump, its jobs, quick calls, admissions, dialling, cancellation |
| `KnowledgeIndex` | one source: requests, jobs, background tasks, the published manifest, deletion of the source and of agents |
| `LeaseTokens` | the tokens under which workers of the number modules claim rows (constants only) |
| `WalletLedgerProofs`, `CallMeteringProofs`, `CallSettlementProofs`, `StripeTopUpProofs`, `NumberPurchaseProofs`, `NumberRentalProofs`, `OutboundDispatchProofs`, `KnowledgeIndexProofs` | theorems, section 4 |
| `MCWalletLedger`, `MCCallMetering`, `MCCallSettlement` | TLC instances: symmetry and, for the wallet, an invariant with a finite sum |
| `MCLeases`, `MCFinality` | TLC instances of several protocols at once, section 3 |
| `MCOutbound`, `MCKnowledge` | TLC instances of one protocol in two situations each |

`CallMetering` and `CallSettlement` compose their component with the wallet by
moving the account with the same delta operators that `WalletLedger` uses: a
wallet transaction is Serializable in the code, so it is one atomic step in each.
`StripeTopUp`, `NumberPurchase` and `NumberRental` see the wallet through what it
guarantees: a posting happens once per idempotency key and a hold closes once.

Definitions whose comment starts with `Variant:` are not part of any
specification. Each is a plausible wrong version of the definition after it, and
is used to make sure that the properties would notice it.

In all modules `proc` holds, per process, where it is and what the code keeps in
a variable across an `await`; that is where stale reads live. Rows are records
with the code's columns, reduced to what matters. A token or a claim, a random
UUID in the code, is the process that drew it, or `Dead` when that process died.

### WalletLedger

| Variable | Code |
|---|---|
| `account` | the `BillingAccount` row; fields are the five `...Micros` columns |
| `ledger` | the `BillingTransaction` rows in commit order: operation and key (the unique idempotency key), reservation referred to, gross amount, deltas, balances after |
| `holds` | the `BillingReservation` row of each reservation key; `expired` says that the clock has passed `expiresAt` |

Every public method is one action. What throws, and what finds its key already on
the ledger, changes nothing and so is a stuttering step. `Post` is
`projectAccount`, `updateAccount` and `createLedgerTransaction`: it is disabled
when a column would become negative (the `RangeError`). `SettleReservation` takes
its key and the reservation separately, as the code does, so two settlements of
one reservation may carry different keys.

### CallMetering

`session` is the row (`aged`: its claim is older than `SNAPSHOT_CLAIM_STALE_MS`;
`quiet`: the watchdog's grace has passed, which a second admission does not
undo, since it leaves `createdAt`), `charges` the settlement rows with
their checkpoint metadata. The steps follow the code's database operations:

| Request | Steps |
|---|---|
| `authorizeWalletCall`, `reauthorizeCanceledAdmission` | `Authorize`, `ReserveAdmission`, `Admit`, `DropAdmission` |
| `cancelCallBillingAdmission` | `CancelAdmission`, `ReleaseCanceled`, `EndCanceled` |
| `applyCallUsageSnapshot` | `ReceiveSnapshot`, `RecoverPending`, (`AfterRecovery`), `ClaimSnapshot` or `RefuseSnapshot`, `ChargeFrom`, `ChargeHold` / `ChargeTail` / `ChargeNothing`, `ReserveNext`, `CompleteCheckpoint`, `Unclaim` |
| `releaseExpiredBillingReservations` | `SpotExpired`, then `SettleTail`, `ApplyTail` or `ReleaseExpired`, `EndExpired` |
| `repairSettledTailProjections` | `RepairSettledTail` |
| `terminateSilentCalls` | `SpotSilentCall`, `SettleSilent`, `EndSilent` |

Abstractions: the rated micros of a report grow by one with every report
(`UsageMicros`), except at the report in `Lulls`, which brings no new usage and
therefore takes `ChargeNothing`; every hold has `HoldMicros` of paid money; the
rate book is fixed. Reports are numbered from 1. `env` counts crashes, remembers
whether a process outlived a timeout, and holds the chosen lull.

### CallSettlement

Each call is admitted (`Admit`), settled once with an estimate (`End`, which also
records what its settlement took from each bucket, as `callFundingSources` later
reads it from the ledger row) and waits in `RECONCILING`. A reconciler reads the
session with its candidates (`ReadCandidate`), claims it (`Claim`, which takes
over stale claims), and either gives the claim back (`Retry`) or posts the
difference (`Adjust`, idempotent per call) and then moves the session (`Finish`,
a compare-and-set on `RECONCILING`). `PromoteEndedDebt` is
`promoteEndedDebtSessionsForReconciliation`. Payments (`Pay`) repay debt first.

### StripeTopUp

`topUp` is the row, `posted` the ledger rows about it with their idempotency
keys, `book` their sums per reference type, `stripe` the payment as Stripe sees
it, `webhook` the `StripeWebhookEvent` of each event.

| Code | Steps |
|---|---|
| `createTopUpCheckout` | `RequestCheckout`, `CreateCheckout` |
| `triggerAutoRecharge`, `confirmAutomaticTopUp`, `reconcileAutomaticPaymentIntent` | `TriggerAutoRecharge`, `ClaimConfirmation`, `ConfirmPayment` or `ConfirmationFails`, `ApplyConfirmation` |
| `processStripeWalletEvent` | `ClaimEvent`, the handler, `CompleteEvent` |
| `fulfillTopUp` | `ReadForFulfillment`, `CreditPayment`, `MarkFulfilled` |
| `failCheckoutSession`, `failPaymentIntent` | `FailPayment` |
| `processChargeRefunds`, `recordDisputeTarget` | `RecordTarget` |
| `reconcileTopUpFinancialState` | `TakeLease`, `ReadTargets`, `GiveBackDispute`, `TakeBackRefund`, `TakeBackDispute`, `CompleteReconciliation` |
| `reconcilePendingStripeTopUps` | `FailUnpayable`, `ClaimConfirmation`, `SpotPending` |

Amounts Stripe reports include tax; `Share` is `principalShareMicros`, with its
rounding. `Throw` is the error path (tokens returned, event FAILED), `Crash` a
death (everything stays as it is). Stripe may pay, fail, refund and dispute at
any time and emits an event each time; an event may be handled again and again
until it is completed, in any order.

### NumberPurchase

`purchase` is the saga row of each quote, `hold` its reservation, `order` the
provider's order, `phone` the quote whose number row exists. A request or the
recovery sweep takes a row (`InsertPurchase`, `ResumePurchase`, `Claim`), finds
or makes the hold (`FindHold`, `Reserve`, `RecordReservation`, `CheckHold`),
looks an earlier attempt up before it orders (`LookUpAttempt`,
`RecordProviderAttempt`, `PlaceOrder`, `LookUpDoubt`), applies what the provider
says (`ApplyProviderResult`), and ends with `PersistPhone`, `SettlePurchase`,
`MarkSucceeded` or with `RefundHold`, `FailPurchase`. `RetireExpired` is
`failExpiredUnfunded`, run by a competing quote. The provider is external: an
answer to `PlaceOrder` may be lost whether or not the order was taken, an order
may stay pending (`DecideOrder`), and it shows up in a lookup within
`AMBIGUOUS_PROVIDER_RETRY_DELAY_MS` (`AttemptAges`).

### NumberRental

`number` is the row (`overdue`: its grace has passed; `lapsed`: its lease has run
out; `authorized`: a release has passed the point of no return), `provider` the
number at its provider and its binding at LiveKit, `holds` the reservations for
renewals, oldest first, `funds` the rents the wallet can pay.

| Code | Steps |
|---|---|
| `retryDueNumberRenewals`, `retrySuspendedNumberRenewalsAfterCredit` | `ListDue`, `ClaimRenewal` |
| `renewClaimedNumber` | `FindHold`, `Reserve`, `RefreshClaim`, `LetGo`, `Settle`, `CompleteRenewal`; without money `TryReload`, `Suspend` or, as a last chance, `AuthorizeRelease` |
| the tail of `suspendClaimedNumber` | `Detach`, `Unlink` |
| `releaseExpiredSuspensions` | `ClaimRelease` |
| `createNumberDeleter` | `OwnerDeletes`, `CheckReleaseClaim`, `TakeDown`, `CheckAgain`, `DeleteAtProvider`, `DeleteRow` |
| `restorePaidNumberBindings`, `linkAgentToNumber` | `ListUnbound`, `RestoreBinding`, `UpdateLink`, `Attach`, `Link`, `Forget` |

Here a lease may run out under a worker that is alive (`LeaseLapses`), so most
steps meet a row that already belongs to somebody else.

### OutboundDispatch

`row`, `session`, `leg` and `job` are the `OutboundCall`, its billing session,
the callee in the LiveKit room, and the BullMQ job of each call; `dials` counts
how often the callee was dialled. `Pump`, `ClaimSlots`, `Enqueue` and
`MarkCampaignCompleted` are `dispatchBatchCampaign`; `TakeJob`, `Authorize`,
`LookForCallee`, `Dial`, `MarkInProgress`, `CheckCancelled`, `ReturnAdmission`,
`MarkFailed` are `dispatchScheduledOutboundCall`; `CreateQuickCall` and
`ClaimQuickCall` the API's single calls; `CancelCampaign`, `CancelRows`,
`StopCalls`, `CancelCall`, `MarkCancelled` the cancellations. `HangUp`,
`ReportCall` and `EndSilentSession` are what happens after a call; the status of
the call log is the one the worker sends (`calllog.repository.ts:85`), which is
`COMPLETED` for every call (`calllog_handler.py:30`, its only caller gives none).
`Dial` is `createDispatch` and `createSipParticipant` together; its answer may be
lost after the callee was dialled, which is a fault. A job whose worker dies
(`Crash`) or loses its lock (`LoseJobLock`) is run again.

### KnowledgeIndex

`row` is the source with the job or the deletion its metadata names, `request`
the API request under way, `jobs` the queue, `tasks` the background tasks of the
AI service (task *n* stores generation *n*), `vectors` and `manifest` what is
stored and published per namespace, `deletion` the deletion by the user and one
per agent. `ClaimSource` to `MarkFailed` are `kbWorker`, `StageVectors` to
`GiveUp` are `process_documents`, `Publish` and `GiveUp` the Redis scripts with
their compare-and-set, `ReadForDeletion` to `RemoveSource` and `DropAgent` the
deletion. A worker that waited ten minutes gives up on its task, which does not
notice.

Assumptions of this module: a revocation or deletion request that timed out
either took effect or never will; a database commit is answered; BullMQ repeats
a stalled job once; a revocation removes the vectors in one step with its mark;
a task has begun long before its job is attempted again.

## 3. Runs

| Run | Properties | Shows |
|---|---|---|
| `wallet_collisions` | `TypeOK`, `LedgerReplays`, `OneOutcomePerHold`, `NumbersNeverSpendPromo`, `DebtIsLastResort`, `HoldsBackReservedColumns`, `ImplementsEscrow` | reservations and settlements that collide under different keys leave an exact audit trail, and the five columns implement one balance with escrows |
| `metering_crashes` | `TypeOK`, `UsageChargedOnce`, `SessionReflectsLedger`, `ActiveCallIsBacked` | two requests, two overlapping sweepers, one crash anywhere |
| `metering_liveness` | `EveryHoldCloses`, `SilentCallsEndOnSchedule` | fair sweeps with a crash, stalls and a retried admission |
| `leases` | `TypesOK`, `CallsChargedOnce`, `OnlyRetiredPurchasesLeak`, `RentPaidOnce`, `OnlyAuthorizedReleases`, `KeepsEscrow`, `NoReturn` | in the four protocols that hand a row from worker to worker nothing is charged, refunded, ordered or released twice |
| `finality` | `WalletPaysSessionTotals`, `RefundsKeepBuckets`, `EveryCallIsFinalized`, `DebtMarksClear`, `EveryPurchaseEnds`, `HoldsClose`, `UnpaidEnds` | the final price, the purchase and the rental come to an end although a worker dies, and the money adds up at every step |
| `topups` | `TypeOK`, `ColumnsFollowLedger`, `KeepsPromise`, `WalletFollowsStripe` | a top-up with refunds, a dispute, repeated and reordered events and one fault |
| `outbound` | `TypeOK`, `LegsWithinLimit`, `DialledOnce`, `OutcomesAreRecorded`, `CampaignEnds` | a campaign against quick calls, cancellation and a fault |
| `knowledge` | `TypeOK`, `ActiveIsServed`, `GoneIsFenced`, `AgentDeletionEnds` | jobs that were given up, late tasks, edits and deletions |
| `metering_reopened`, `metering_orphaned`, `metering_overtaken`, `settlement_laundered` | one each | the findings of section 5 |

`leases` and `finality` check several protocols in one run each. They share no
state in the models, so a behaviour has a *subject*, chosen at the start and
constant, and is about one protocol; the others stay as they start. The states
explored are the union, not the product. In `finality` fairness of steps of
different subjects is combined into one `SF` (TLC doubles its work with every
one): since the subject never changes, such a disjunction is, in each behaviour,
exactly the fairness of the steps of its subject, and the sleeping protocols
start in states where none of their fair steps is enabled.

Where a property is weaker than one might wish, the stronger one is false.
`UsageChargedOnce` holds while no request outlives its claim
(`metering_crashes`) and fails in `metering_overtaken` when one does; what
survives is `ReservedUsageChargedOnce`, which `leases` checks as a part of
`CallsChargedOnce`, next to `WalletPaysSessionTotals` with two reconcilers, and
which is proved. In
the same way `RefundsKeepBuckets` and
`SilentCallsEndOnSchedule` state how far `PaidCreditWasPaid` and `SilentCallsEnd`
do hold, and the exceptions in `OnlyRetiredPurchasesLeak`, `OutcomesAreRecorded`,
`CampaignEnds`, `ActiveIsServed` and `GoneIsFenced` are named in section 5.

`CHECK_DEADLOCK FALSE` everywhere because these systems really may stop: nobody
has to call, every call may be over, and the bounds are reached. Runs with
liveness properties use no symmetry.

### Bounds

* **Wallet.** Two keys are enough for every collision: one operation's key is
  either the same as an earlier one's or different, and a reservation is either
  the one another operation names or not. Amounts 1 and 2 make every comparison
  in the deltas happen. Four rows let a reservation be funded, opened, contested
  and closed, or over-settled and its debt repaid. For longer histories there
  are the proofs.
* **Metering.** Two reports (three where claims are taken over) give a duplicate,
  an overtaken and a final report. `Funds` is what the wallet holds at the start:
  0 refuses, 1 and 2 run out at the first or second settlement, 3 pays for
  everything. `Lulls = {0, 2}` lets the second report bring nothing new.
  `MaxRecovery` 1 lets the rolling hold be reserved under its recovery key after
  a first one was closed. One crash suffices, because nothing a process leaves
  behind can be distinguished from another's; a second sweeper repairs what the
  first is merely slow to do. The liveness run has a second admission
  generation, a rolling hold to orphan, and one request, since a stalled one is
  overtaken by the next.
* **Leases.** Two workers, one of which takes over from the other, and one fault.
  Prices: two calls, the smallest number at which debt couples calls; charges 0
  and 2 against a hold of 1 make refunds and overruns. Purchase: two quotes
  for the number, and money for at most one (`Funds` 0 and 1). Rental: two
  periods, three holds, two deposits, so that a period fails, is retried, paid,
  and followed by the next. Reports: three.
* **Finality.** As before with one reconciler, one quote, one period, two holds,
  one deposit: a protocol that gets stuck does so at its first dead worker.
* **Top-ups.** Principal 2 and tax 1; refunds of 2 and 3 and a dispute of 3 cents
  are a partial and a full share after rounding, and both together exceed the
  principal. Two moves at Stripe give refund after refund, refund and dispute, or
  a dispute opened and closed. Two rounds per reconciliation, one fault,
  `Stalls = FALSE`. The proof has no such bounds.
* **Outbound.** Limit 1: two campaign calls and one quick call compete, either a
  campaign call against the quick call with one fault, or two campaign calls
  without (`MCOutbound`).
* **Knowledge.** Two agents between which the source moves, two jobs of two
  attempts each, three tasks; together at most three jobs and faults, two when
  an agent is deleted (`MCKnowledge`). A late task needs one job that gave up and
  one that follows; a third of either repeats what the second may do.

### Time

Durations are flags set by actions of their own (`HoldExpires`, `ClaimAges`,
`CallFallsSilent`, `PassExpiry`, `QuoteExpires`, `AttemptAges`, `LeaseLapses`,
`GraceEnds`). In `CallMetering` the timeouts are long against a request and
against a sweep, so they fire when none is under way; a request that starts
afterwards sees the same as one in whose course the timer ran out. With
`Stalls = TRUE` they fire at any time: these are the runs about stalled requests,
and the runs about liveness, where overlapping or repeated requests must not be
able to hold time back. In `CallSettlement` and `NumberRental` a claim may go
stale at any time. In `StripeTopUp` and `NumberPurchase` only the dead are
succeeded: the leases (two to five minutes) are long against a handler.

### Fairness

* A process that has started goes on (`WF` on its steps): nothing in the code
  waits for another party except the database, a provider with a timeout, and
  the clock. A process that does not go on is one that crashed.
* Time passes (`WF` on the timeout actions), and providers decide their orders.
* Sweeps are scheduled for ever, and each makes all its passes: `SF` on each kind
  of pass, because the row it looks for may come and go. The same holds for the
  pump of a campaign and for jobs that wait to be taken.
* Stripe delivers an event until it is answered with success (`SF` on
  `ClaimEvent`). A provider eventually posts a price for each call: `SF` on
  `Adjust` per call, since a failed attempt returns the claim and tries again.
* Calls end and are reported (`WF`). The deletion of an agent is restarted by
  its recovery as long as the row is there (`WF`).
* No fairness on callers, owners, payments, refunds, disputes, cancellations,
  edits, or faults.

## 4. Proofs

TLAPS checks the following for every value of the constants that satisfies the
assumptions named in the modules.

| Module | Theorem | Statement |
|---|---|---|
| `WalletLedgerProofs` | `TypeCorrect` | `Spec => []TypeOK` |
| | `AuditTrail` | `Spec => []LedgerReplays` |
| | `OneOutcome` | `Spec => []OneOutcomePerHold` |
| | `PromoSafety` | `Spec => []NumbersNeverSpendPromo` |
| | `DebtSafety` | `Spec => []DebtIsLastResort` |
| | `Refinement` | `Spec => ImplementsEscrow` |
| | `ReservedColumnsAreHeld` | `Spec => []HoldsBackReservedColumns` |
| | `ClosingNeverThrows` | `Spec => []ClosingIsProjectable` |
| `CallMeteringProofs` | `MeteringTypes` | `Spec => []TypeOK` |
| | `ReservedIsOpenHolds` | `Spec => []Wallet`: the reserved column is the sum of the open holds |
| | `StallingCallsChargedOnce` | `Generations = 1 /\ Lulls \cap Reports = {} /\ Spec => []ReservedUsageChargedOnce` |
| | `UsageIsChargedOnce` | `Generations = 1 /\ Stalls = FALSE /\ Spec => []UsageChargedOnce` |
| | `SessionIsAProjection` | the same for `[]SessionReflectsLedger` |
| | `LiveCallsAreBacked` | the same for `[]ActiveCallIsBacked` |
| `StripeTopUpProofs` | `TopUpTypes` | `Stalls = FALSE => (Spec => []TypeOK)` |
| | `ColumnsFollow` | `Stalls = FALSE => (Spec => []ColumnsFollowLedger)` |
| | `PromiseKept` | `Stalls = FALSE => (Spec => KeepsPromise)` |
| `CallSettlementProofs` | `SettlementTypes` | `Spec => []TypeOK` |
| | `WalletPays` | `Spec => []WalletPaysSessionTotals` |
| | `BucketsKept` | `Spec => []RefundsKeepBuckets` |
| `NumberPurchaseProofs` | `PurchaseTypes` | `Spec => []TypeOK`, if `None` is no quote and the bounds are counts |
| | `LeaksAreRetired` | `None \notin Quotes => (Spec => []OnlyRetiredPurchasesLeak)` |
| | `EscrowKept` | `None \notin Quotes => (Spec => KeepsEscrow)` |
| `NumberRentalProofs` | `RentalTypes` | `Spec => []TypeOK` |
| | `PaidOnce` | `Spec => []RentPaidOnce` |
| | `AuthorizedReleases` | `Spec => []OnlyAuthorizedReleases` |
| | `NoReturnHolds` | `Spec => NoReturn` |
| `OutboundDispatchProofs` | `OutboundTypes` | `Spec => []TypeOK` |
| | `DialsOnce` | `Spec => []DialledOnce` |
| | `WithinLimit` | `Spec => []LegsWithinLimit` |
| | `OutcomesRecorded` | `Spec => []OutcomesAreRecorded` |
| `KnowledgeIndexProofs` | `KnowledgeTypes` | `Spec => []TypeOK` |
| | `RemovedStaysFenced` | `Spec => []GoneIsFenced` |
| | `ServedWhileActive` | `Spec => []ActiveIsServed` |

### The wallet

Assumptions: `AmountsArePositive`, `RefsAreDistinct`, `RowsAreBounded`.

1. *Arithmetic.* For each delta operator a lemma says that its fields are
   integers and how they add up (a settlement of *n* moves the free balance by
   the hold minus *n*; a credit by exactly its amount). Type correctness follows
   with `Projectable`, the guard that stands for `projectAccount`'s `RangeError`.
2. *The ledger only grows.* Every action but a renewal and the passing of an
   expiry is a `Post`, so one lemma about appending a row serves all of them.
   `AuditTrail` is inductive with `TypeOK`.
3. *One story per reservation.* `OneOutcomePerHold` speaks about sets of row
   indices, which do not survive an `Append` easily. The inductive invariant
   (`RowInvariant`) states instead, per row, what the reservation looks like, and
   per reservation, which single row opened or closed it; the properties about
   promotional money and about debt are conjuncts of the same kind.
4. *Refinement.* The mapping adds paid and promotional balance minus debt. Each
   action is a step of the escrow specification or leaves its variables alone.
5. *The reserved columns.* Each is a sum over the active holds, of which there are
   finitely many at any time (`HeldInvariant`): an operation opens one hold
   (`ColumnsOpen`), closes one (`ColumnsClose`) or touches none (`ColumnsRest`),
   over the theory of finite sums described under "The final price". An active
   hold is thus covered by the columns, so `projectAccount` accepts its release,
   and its settlement at any amount (`ClosingNeverThrows`): no hold gets stuck.

### The metering

Assumptions: `BoundsAreNumbers`, `SwitchesAreBooleans`, `NoneIsNothing`.
Requests, sweepers, reports, prices, funds and crashes are arbitrary, and so are
admissions and stalls for the types and for the wallet's reserved column
(invariant `Sound`: every process is at a place the code can reach, with values
of their types; a session that becomes ACTIVE is given a hold; what is reserved
is what the open holds reserve).

`UsageChargedOnce`, `SessionReflectsLedger` and `ActiveCallIsBacked` suppose that
the call is admitted once and that no process outlives a timeout. Both are
needed: TLC finds `UsageChargedOnce` violated when the reports of two
admissions overlap (a retried admission starts again at report 0), and, with
stalls, finding 3.

The invariant `Inv` says what the rows say of each other, what each process
knows at each of its steps, and how the processes keep out of each other's way:

* `Rows`, `Carries`: a settlement closed the hold it names, and no other did; an
  ACTIVE session carries a hold, that of its last report.
* `OnePending`: at most one usage settlement is ahead of the session, made under
  the claim that is still on the row, from the session as it still is. This is
  the heart of it: whoever completes the checkpoint, the request that charged or
  one that recovers it, writes the same.
* `Totals`: what the session was told of adds up to what it says, and its
  cumulative usage is the largest among it. With `OnePending` this gives
  `UsageChargedOnce`, one row at a time (`RowAdded`, over the same theory of
  finite sums as below).
* `Fits` (per process): in particular a charge works with values of the session
  that are current or with a hold that is closed already (`Charging`), so a
  stale charge fails; what is to be completed was charged or is nothing
  (`Completion`); a hold is kept whole only by somebody who saw the session carry
  it (`Keeping`), and given back only when no call has a use for it (`Expiring`).
* `OneOwner`: a claim has one owner. `Apart`: no open hold is both being kept
  whole and being given back.
* `Calm`, until the first crash: a hold ahead of the session is open and on its
  way there with a process. Without it `ActiveCallIsBacked` is not inductive.

Each kind of change to the shared rows has two lemmas: what it does to them
(`SharedHolds`, `SharedPosts`, `SharedRewrites`, `SharedTells`, `SharedBegins`,
`SharedCompletes`), and that what the other processes know survives it
(`FitsReserve`, `FitsRelease`, `FitsCharge`, `FitsKeep`, `FitsBegin`,
`FitsDrop`, `FitsReclaim`, `FitsComplete`). Each action is then sorted into one
of these shapes (`QuietKeeps`, `ReserveKeeps`, `ReleaseKeeps`, `PostsKeeps`,
`TurnKeeps`, `WaitKeeps`).

With stalls (`ReservedUsageChargedOnce`) none of this holds: claims have several
owners, a sweep gives back a hold a report is about to settle, and a request
works with a session it read long ago. What is left, as long as all usage was
charged to holds, is the invariant `Metered`, proved on top of `Sound`:

* `KnowsCharge`: a charge works with a hold that is closed by now, and then it
  is refused or finds its own row, or with the session as it still is.
* `Latest`: a row the session is still to be told of is the last one charged, and
  it charged everything up to its report. So all that are pending say the
  same, and whoever completes one of them leaves none behind.
* `Informed`: a session whose hold is open knows of all that has been charged, so
  the next charge against this hold starts from the right sum (`PaidByHold`).
* `KnowsCompletion`: what is completed late is in the ledger, or the session is
  past it.

`Onward` says what no step undoes, so that what a process knows stays true
however long it stalls (`KnowsStays`), and most steps are `Aside`: they charge
nothing and leave the session's account of the usage alone. The hypotheses are
one admission, as above, and that every report brings new usage; without the
second the property is false (section 5, "Metering").

### Top-ups

Assumptions: `AmountIsPositive`, `CentsAreCounts`, `BoundsAreCounts`,
`TokensDiffer`, and that no worker outlives its lease. The last one is needed:
no posting looks at the lease, and with `Stalls = TRUE` TLC finds two holders
that post a refund each, computed against the same progress.

The inductive invariant is `Typed`, `Recordings`, `Leases`, `Credited`,
`Bounded`, `Lowered`, `Columns` and `InRounds`:

* `Leases`: whoever reconciles holds the lease and something is pending, hence
  one worker reconciles at a time (`Alone`).
* `Bounded` is the promise itself, with the bound by what was asked for.
* `Older` orders what a reconciliation may read: refunds only grow, a closed
  dispute is not reopened. `TargetsFall` shows that along this order the refund
  to be taken back grows and, once there is a dispute, the disputed part falls:
  the dispute gets what refunds leave of the principal. It rests on `ShareGrows`,
  the monotonicity of the rounded share.
* `Lowered`: what the held part was once lowered to it never exceeds again. The
  idempotency key of a release names the amount it lowers to, so without this a
  release could be taken for a replay of an earlier one and be dropped.
* `InRounds`: a round works with targets that were current at some time and with
  the ledger's progress of now. This is where the fresh read after each posting
  is needed.

`PostingInv` then carries all three postings; each shows in addition which step
of `TopUpPromise` it is. All other steps leave the sums alone (`AsideStep`).

### The final price

Assumptions: `AmountsAreMicros`, `CallsAreDistinct` (finitely many calls). The
properties add up over all calls, so the proofs begin with what a sum over a
finite set is: `Induction` derives induction from least counterexamples,
`SumsExist` and `SumsUnique` say that the recursion behind the library's fold
defines one function, `SumIs` that it may take its elements in any order, and
`SumChange` what happens when one term changes. `OneCall` applies this to the
four sums of the invariant, which is `TypeOK` with

* `HoldsAgree`: the reserved columns are the holds of the active calls;
* `NetAgrees`: what the wallet is worth is what was paid in, less what the calls
  cost so far. This is `WalletPaysSessionTotals` for every step in between,
  where a call whose adjustment is posted costs its final price already
  (`Cost`), although its session does not say so yet;
* `RowsAgree` and `ProcsAgree`: until the adjustment of a call is posted, what
  a reconciler has read of it is true, whoever has claimed it since. Afterwards
  the idempotency key makes what it does harmless;
* `NobodyOwed`, `OneOwed`, `NoDebtYet`, for the buckets: as long as no call ended
  owing, the paid balance and everything that can come back to it was paid in;
  if the only call owes, so is what is left once the debt is paid.

### The purchase

Hypothesis: `None \notin Quotes`; the lease tokens differ (`TokensDiffer`). The
invariant is `Typed`, `Agree` (per quote, what its row, hold, order and the
number say of each other) and `Stand` (per worker, that it still owns the row it
claimed, and that what it found out of the hold and the order is still true).
`Stand` is where a lost answer is survived: a worker in doubt does not know
whether its order was taken, but no step after it depends on that until a lookup
has said so. `EscrowKept` shows step by step that each purchase is an escrow of
`PurchaseEscrow`; `LeaksAreRetired` follows from `Agree`.

### The rental

Assumptions: `BoundsAreCounts`, `TokensDiffer`. The inductive invariant is
`Typed`, `Chain` (the holds of a period follow one another, and all but the last
are released), `HoldsKnown` (what a worker remembers of its hold), `Claims` (who
is inside a claim holds the token, unless it lapsed and was taken), `SettlersSafe`
(who may settle a rent has refreshed its claim after the last hold was made),
`PastPaid`, `OnlyAuthorizedReleases` and `NoReturnStep`. Each action is sorted
into a few shapes, which have one lemma each: `Aside` (nothing of the row), a
worker that takes the row up or puts it off, one inside its claim, one closing it.

### The campaign

Assumption: `CallsAreFew` (calls and workers are finitely many, and no call is of both kinds).
`DialledOnce` says that a call is dialled once more at most for every fault. It
follows from `Scarce`, which counts for each call the dials made, the workers
that may yet dial, and the chance that another begins: together never more than
one and the faults so far. A redelivered job or a crash may add one, and is a
fault. `Calm` describes the time before the first fault: a call has one worker
(`Alone`) who holds its job (`Jobs`), and the worker's place tells what state the
call is in (`Tidy`); `OutcomesAreRecorded` is read off from there. `Within` bounds
the rows that hold a slot, which the legs are a part of.

### The knowledge index

Assumptions: `BoundsAreCounts`. `GoneIsFenced` follows from `Fences`: a task that
may still publish read a manifest that was not fenced, so its compare-and-set
fails after the fence (`TasksSawNoFence`); a deletion past its cleaning has
fenced the namespace (`CleanedIsFenced`); hence so is that of a removed source
(`RemovedIsFenced`). No action takes a fence away (`NothingUnfenced`). Typing
needs that a job is attempted only while it may be, and that only the last job
waits to be queued.

`ActiveIsServed` is inductive only together with `Reliable`, which TLC found to
hold on the instance of `knowledge` before it was proved:

1. *One job at a time* (`Turns`). A job past `markProcessing` works on a source
   it has claimed, or that a deletion has claimed since, in which case it never
   becomes ACTIVE again; no other job works, and no request is under way.
2. *A generation is published once* (`Generations`). What a manifest names, or a
   task has seen in one, belongs to a task that has decided already (`Known`); so
   what is published next equals nothing that any task remembers. Hence
   `CleanReplaced` never removes what is live (`ReplacedForGood`).
3. *Nothing relied on is old* (`Served`). A namespace is relied on from the
   publication by the task a job waits for (`Delivered`) as long as the row is
   ACTIVE (`Shown`). It is then served by a generation that no task found when it
   began (`NewerThanBegun`), and `revoke_failed` hides only what its task found
   when it began. A revocation, or the record of a final failure, needs a job at
   work that waits for no task, and then nothing is relied on.

The argument uses that one request at a time prepares the source, as the model
has it: `prepareKnowledgeSourceUpdate` does not look for a deletion, so that of
two edits that were read before it the second can start a job beside the first.

### Only model-checked

`CallMetering` with several admissions beyond its types, which is what
`metering_liveness` runs; `CallsChargedOnce` of `leases` as one formula (its two
parts are `WalletPays` and `StallingCallsChargedOnce`); and liveness, which
is outside the prover. Proofs by induction over data are possible where, as for
the sums, they can be told in terms of sets and least counterexamples; the
library's theorems about induction are not used, and neither is any recursive
operator.

## 5. Findings

Four runs end in a counterexample: the code does something else than its own
documentation says.

1. `metering_reopened` (`EndedCallsFailClosed`). The compare-and-set at the end
   of a report does not look at the session's status. A report that claimed the
   session before the sweep settled its expired hold and ended the call writes
   `ACTIVE` over `SETTLED`.
2. `metering_orphaned` (`SilentCallsEnd`). A request dies after its settlement
   and before its projection, and no report follows. The watchdog finds the hold
   closed, concludes that a late report owns the session and returns; so does
   every later pass. The session stays `ACTIVE`, and the provider's price is
   never billed.
3. `metering_overtaken` (`UsageChargedOnce`). Without a hold a report is debited
   under a key of its own. A report that stalls past its claim and the one that
   takes over both debit the usage since the same session row. While a hold
   exists and every report brings new usage this can not happen, because a hold
   is settled once (`ReservedUsageChargedOnce`).
4. `settlement_laundered` (`PaidCreditWasPaid`). A refund of one call, made of
   promotional credit, repays the debt of another call; the refund of that other
   call treats its debt as having been paid with money, and the organization
   owns paid credit that nobody paid in. One call alone can not do this.

Other behaviour met while modelling, kept out of the properties by an exception
that is stated next to each property, or in the module's assumptions:

* *Metering.* With stalls, a report that brings nothing new undoes
  `ReservedUsageChargedOnce` (TLC: no provider, one sweeper, three requests,
  `Lulls = {1}`). A sweep finds the initial hold of a call without reports
  expired, and stalls; report 2 charges that hold; the sweep's release is
  refused, which `billing-maintenance.service.ts:87` swallows, and it ends the
  session's hold all the same; a late report 1 charges nothing and makes the
  session ACTIVE, with a new hold and no usage, while the settlement of report 2
  is pending; report 3 charges all of it again.
* *Top-ups.* `fulfillTopUp` writes a status computed from columns it read before
  the wallet transaction, so it can overwrite `REFUNDED` with `SUCCEEDED`
  (`docs/development/stripe-wallet-test-mode.md:154` expects `REFUNDED`); the
  columns stay right. Two holders of one reconciliation lease take back too much.
* *Purchase.* `failExpiredUnfunded` takes a hold that was made but not yet
  recorded for none. That hold has no `expiresAt`
  (`number-purchase.service.ts:455`) and the maintenance sweep only looks for
  holds that are past theirs (`billing-maintenance.service.ts:26`), so the retired
  purchase keeps the money reserved until the same quote is replayed, if it ever is.
* *Rental.* The tail of a suspension (`number-billing.service.ts:408`) unbinds
  the number without looking at its claim, possibly after a deposit restored it.
* *Outbound.* `cancelOutboundCall` writes FAILED over whatever the call's status
  is by then (`outbound-call.service.ts:611`); `markCampaignCancelled` leaves a
  call alone that starts between its two statements; a quick call whose process
  dies keeps its slot for ever.
* *Knowledge.* A source that was moved and is deleted before the move's job
  revoked the old agent stays visible there (`kb.worker.ts:48`), and so does one
  whose move job fails before revoking and is retried (`kb.worker.ts:57`), or
  whose deletion is overtaken by an edit; a deletion that lost to an edit fences
  an ACTIVE source; a retry or a reindexing that read the row before an edit, or
  a crash between the row and the queue, leaves it PROCESSING for ever; the
  deletion of an agent deletes a source that was moved away meanwhile.

## 6. Not modelled

The map covers the server's billing, numbers, outbound and knowledge modules and
a few files of the AI service. Most of the repository's lines are generated
Prisma clients, three front ends, documentation, provider adapters and CRUD
modules, which have no protocol of their own.

* Calls under the legacy subscription, price arithmetic and breakdown queries;
  the copy of totals to call logs.
* The LiveKit hang-up before the watchdog bills (external; a failed one is tried
  again by the next pass).
* The report cycle of Telnyx (creation, processing token, reopening) and a
  provider that changes its price between two attempts.
* Holds that mix buckets inside one metered call (the split is in `WalletLedger`
  and `CallSettlement`), and chains of settlements in `CallSettlement`:
  `allocateUsageRefund` sees only their sums. Usage of two attempts of one call
  that both connected.
* Telephony sessions whose provider call id never became known: they are only
  put off for an hour at a time and left to manual review
  (`telephony-reconciliation.service.ts:125`). What a reconciler reads again after
  it lost the last compare-and-set is part of `Finish`.
* Several top-ups of one account, the decision to recharge, customers and tax. Of
  the payment method only its loss is modelled, as something that may be so
  whenever the sweep looks (`FailUnpayable`).
* Quote signatures and the differences between providers; notices and numbers of
  the legacy plan. Unbinding a number from its provider's routing and from LiveKit
  is one step of `NumberRental`. The row state `SUSPENDED`, which the code treats
  as `RELEASE_PENDING` where it reads it and never writes, is left out.
* Batch import, retry of a call, the daily limit, several campaigns of one agent.
* Two requests that prepare one source at once; the content of documents (an
  outdated generation can not be told from a new one), files in S3, several documents
  of one task, cancellation of tasks.
* The usage reporter's durable queue, transcripts, widget sessions.

## 7. What is left

In the order in which it would add most:

1. The Telnyx report cycle with repricing, as an extension of `CallSettlement`.
2. Several top-ups of one account with the decision to recharge.
3. The usage reporter's queue in front of `CallMetering`; the hand-over from a
   transcript's snapshot to its stream; widget sessions.
