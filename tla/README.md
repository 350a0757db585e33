# Verification of campus-errand-grab

Students publish errands with a reward, other students grab, deliver and are
paid. MySQL is the source of truth; Redis only filters grabs and wakes up
timeouts. Scripts beside the application break it on purpose, rebuild its caches
and turn measurements into claims. This directory models that system in TLA+,
checks the models with TLC and proves the central results with TLAPS.

## 1. Inventory

Paths are below `src/src/main/java/com/yu/errand/` unless they say otherwise.

| Component | State | Operations | Talks to |
| --- | --- | --- | --- |
| Wallets and ledger (`repository/AccountRepository`, `LedgerRepository`, `ReconRepository`, `service/ReconService`) | `t_account`, `t_ledger_entry` | `change`, `debitAvailable`, `debitFrozen`, `lockUsers`, `insert`, the five recon audits | every service that moves money |
| Orders (`service/OrderService`, `repository/OrderRepository`) | `t_errand_order` | `create`, `cancel`, `deliver`, `timeoutClaim`, `timeoutDeliver` | wallets, outbox, Redis marker and delay queue |
| Settlement (`service/SettlementService`, `CommissionMath`, `repository/IdempotencyRepository`, `job/SettleRetryJob`) | `t_idempotent_op`, the retry columns of the order | `settle`, `retry`, `recordSettlementFailure`, `markSettlementDead` | called by `deliver` and by the job |
| Grabbing (`service/GrabService`, `redis/GrabMarker`, `lua/grab_*.lua`, `job/MarkerResyncJob`) | Redis keys `grab:stock:<id>`, `grab:known:<id>` | `grab`, `tryPass`, `arm`, `rearm`, `remove`, `resync` | orders (conditional UPDATE), delay queue, outbox |
| Timeouts (`redis/DelayQueue`, `job/DelayQueuePoller`, `job/TimeoutScanJob`) | ZSets `delay:claim`, `delay:deliver` | `poll`, `scan` | `OrderService.timeoutClaim` / `timeoutDeliver` |
| Outbox (`service/OutboxEventService`, `repository/OutboxRepository`, `job/OutboxWorker`, `OutboxClaimService`, `OutboxStateService`) | `t_outbox_event` | `enqueue`, `claimBatch`, `publish`, `markPublished`, `markRetry`, `markDead`, `replay` | Redis marker, delay queue, notifications |
| Users (`service/UserService`, `repository/UserRepository`, `config/AdminBootstrap`) | `t_user` | `register`, `create`, `recharge`, `ensureAdmin` | wallets, idempotency keys |
| Payments (`service/PaymentService`, `RefundService`, `DisputeService`, `NotificationService`) | `t_payment`, `t_refund`, `t_dispute`, `t_compensation`, `t_notification` | `callback`, `refund`, `open`, `compensate`, `markSent` | wallets, recharge, outbox |
| Limits (`redis/GrabRateLimiter`, `security/LoginAttemptGuard`, `lua/grab_rate_limit.lua`, `lua/login_attempt.lua`) | Redis counters, an in-memory fallback | `allow`, `check`, `failure`, `success` | grab, login |
| Failure drills (`src/scripts/failure_common.py`, `verify_*.py`, `benchmark_settlement_retry.py`, `benchmark_redis_fault.py`, `validate_monitoring.py`, `replay_payment_events.py`) | their step, verdict and what they have to undo | inject, wait, check, restore | plain SQL and `docker` commands on the running system, its REST calls |
| Rebuild and recovery (`src/scripts/rebuild_redis_state.py`, `run_disaster_recovery_drill.py`) | Redis keys | delete, read, set | MySQL, Redis, the container of the application |
| Evidence (`src/scripts/run_benchmarks.py`, `generate_benchmark_report.py`, `run_capacity_baseline.py`) | raw files, indexes, reports | deploy, load, label, index, report | the container of the application, `load_test.py` |
| Controllers, JWT, metrics, other scripts | none that a decision reads | - | - |

### What is hard here

- Several instances run the same requests and scheduled jobs against one
  database: every transition races with another (deliver with timeout, cancel
  with grab, two pollers, the settlement with its retry).
- Redis is written inside database transactions but is not part of them: a
  rollback or a crash leaves a consumed marker, a phantom queue entry or a
  marker of an order that is already taken.
- The outbox delivers at least once, under leases that expire while the batch is
  still being worked on.
- InnoDB's REPEATABLE READ snapshots make a transaction's second read older than
  its own UPDATE, and hide from it the row its INSERT has just collided with.
- Retry counts and deadlines are written from values read earlier, by clocks of
  several machines.
- The drills write into the tables of a live system, next to its transactions,
  and have to leave it whole wherever they give up.

### What makes each component correct

- Wallets: the ledger sums to zero, balances equal the ledger, only the mint is
  negative, frozen money equals the rewards of the open orders.
- Orders and settlement: the reward leaves escrow exactly once; the rows written
  next to an order (key, events, entries) agree with its status; a delivered order
  is settled or given up, and not given up early.
- Grabbing: one taker per order; a consumed marker never blocks an order for ever.
- Timeouts: an overdue open order is cancelled in the end, whatever Redis loses.
- Outbox: every event is published or dead in the end; an expired lease never
  lets an old worker overwrite the newer one's result.
- Payments: one credit per provider payment, one refund per payment, one
  compensation per dispute.
- Drills: PASS means what the drill is there to show, and what it broke is undone.
- Evidence: a report that says COMPLETE rests on the runs it names.

`PROJECT.json` lists the hazards of this code line by line, with the properties
that cover them, or why none does.

## 2. Modules

| Module | Content |
| --- | --- |
| `OrderLifecycle` | abstract specification: what a user may rely on in an order's life, and who holds its reward |
| `PaymentLifecycle` | abstract specification: a payment, a refund and a dispute move their money in one step each |
| `Accounts` | `t_account`, `t_ledger_entry`, the conditional debits and the recon audits INV-1, INV-2, INV-4 |
| `Escrow` (extends `Accounts`) | the committed transactions of users, orders, grabbing and settlement; implements `OrderLifecycle` |
| `GrabFilter` | one grab in detail: snapshot, Redis marker, row lock, rollback, and the jobs around the marker; implements `OrderLifecycle` |
| `RedisRebuild` (extends `GrabFilter`) | the rebuild of the Redis keys and the disaster recovery drill, next to all of `GrabFilter` |
| `RedisOutage` (extends `RedisRebuild`) | Redis stopped and started; the outage drill |
| `Timeouts` | deadlines on two clocks, the delay queue, the poller and the scan |
| `SettleRetry` | the transactions of `deliver`, the retry job on several instances, the dead flag |
| `Outbox` | batches, leases, the fence, retries, replay |
| `Payments` (extends `Accounts`) | callback, recharge, refund, dispute and compensation as transactions with a snapshot; implements `PaymentLifecycle` |
| `FailureCommon` | how a drill runs: steps, calls, assertions, deadlines, finally blocks |
| `DeliveryDrills` (extends `SettleRetry`), `OutboxDrill` (extends `Outbox`), `PaymentReplay` (extends `Payments`) | a drill composed with the component it disturbs |
| `MonitoringDrill`, `BooksDrills` (extend `Accounts`) | the two scripts that put the books out of balance |
| `Evidence` | benchmark sessions, capacity sessions and their reports |
| `MC*` | the model values, command lines, calls and symmetry of the TLC runs |
| `AccountsProofs` | sums over finite sets, and what a posting of ledger entries with its balance changes preserves |
| `EscrowProofs`, `PaymentsProofs`, `BooksDrillsProofs` (extend `AccountsProofs`) | the theorems about money; those of `PaymentReplay` are in `PaymentsProofs` |
| `RedisOutageProofs` | the theorems of `GrabFilter`, `RedisRebuild` and `RedisOutage` |
| `DeliveryDrillsProofs`, `TimeoutsProofs` | the theorems of the retry job, alone and under its drills, and of the delay queue |
| `ScriptsProofs` | the theorems of the outbox, alone and under its drill, and those of `Evidence` |

A definition preceded by "A bug to catch" is a mutated form of the definition
that follows it. No specification uses it: it shows that the properties named
in `PROJECT.json` would fail if the code had that bug.

### Escrow and the code

One action is one committed `@Transactional` method; all its conditional UPDATEs,
INSERTs and outbox rows change together. This is what the code does, and not an
assumption: each transaction takes the row lock of the order it moves (`FOR
UPDATE`, or the conditional UPDATE itself) and keeps the locks of the accounts it
changes, so two of them take effect one after the other. A transaction that
throws is rolled back and is a stuttering step, and so is a replay that an
idempotency key answers.

| Action | Code |
| --- | --- |
| `Register`, `EnsureAdmin`, `Recharge` | `UserService.create` / `register`, `AdminBootstrap.ensureAdmin`, `UserService.recharge` |
| `Create`, `Cancel`, `TimeoutClaim`, `TimeoutDeliver` | the methods of `OrderService` of these names |
| `Grab` | `OrderRepository.claim` with the `ORDER_TAKEN` event, as `GrabService.grab` commits them |
| `MarkDelivered`, `Settle` | the two transactions of `OrderService.deliver`; `Settle` is also what `SettleRetryJob` runs, at any time later: a crash between the two is a behaviour in which `Settle` comes late or never |
| `DeadlinePasses` | `NOW(3)` reaches the deadline of the current status |

Three details deserve a word. A role is checked before its transaction locks
anything, while `Escrow` checks it in the same step; only `ensureAdmin` changes
roles, and it touches no other row, so the two orders are the same.
`bizId = Math.abs(System.nanoTime())` is a member of the set `Instants`, so two
recharges may collide, and then `uk_biz_account` rejects the second. The balance
moves of payments, refunds and compensations are in `Payments`.

### GrabFilter and the code

A grab is a transaction with Redis calls inside, so it takes several steps:
`Begin` (the SELECT of `requireBusinessUser` fixes the REPEATABLE READ snapshot;
`seen` is the order's status in it), the filter (`Filtered`, `Pass`, `Missing`,
`Unavailable` for the answers of `GrabMarker.tryPass`), `Claim` (the UPDATE reads
the latest committed row, and holds its lock from here on even when it matched
nothing), then `Commit` for the winner or `Lose` for the others. `Abort` rolls it
back anywhere, by an exception or a crash; what it did to Redis stays.

A marker is a Boolean, since publisher and deadline in its value never change.
`marker` and `known` are the keys `grab:stock:<id>` and `grab:known:<id>`.
`armStrict` sets them with two calls, so the outbox worker takes two steps;
`grab_marker_rearm.lua` sets them in one. An outbox event is here what it may do
to the keys: two workers may hold the same event, and a failing event may be
tried again or become DEAD, whatever the leases. Delivery and settlement do not
touch the keys before their `ORDER_TERMINAL` event, which a taken order does not
need for `KeysVanish`, so TAKEN stands for what follows it too.

`Claim`'s loser sees the order of its snapshot. It re-arms the marker if that
snapshot says PUBLISHED and the deadline has not passed. Of its two reasons to do so
(the comment at `GrabService.java:78` names a winner, or one that was rolled
back), a winner is the one that happens most: then the marker comes back to an
order that is TAKEN. `WonIsTaker` and `KeysVanish` show that this costs further
requests an UPDATE, and nothing else.

### RedisRebuild, RedisOutage and the code

`RedisRebuild` puts `rebuild_redis_state.py` next to the whole of `GrabFilter`,
one Redis command per step, called by an operator or by a round of
`run_disaster_recovery_drill.py` (backup, restore into another database, FLUSHDB,
rebuild, restart of Redis, rebuild, restart of the application). `Meanwhile`
bounds how many requests and workers are busy while a script runs.

`RedisOutage` adds `up`. While it is FALSE every Redis call fails
(`WithoutRedis`), which the application answers by failing open.
`verify_redis_outage_recovery.py` and `benchmark_redis_fault.py` take the same
steps: all takers ask for a hot order during the outage, and one of them asks for
an order of that time once its marker is back. The two orders meet nowhere, so
one of them is followed at a time.

### Timeouts and the code

`now` is the database's clock and `app` that of the instances, at most `Skew`
apart. An order's deadline is a time of `now`; a ZSet entry is due when `app`
reaches its score. `create` and `grab` add the entry in their transaction
(`GrabRollsBack` is the grab whose entry outlives its rollback), an outbox worker
reads the order and adds it again a step later, the poller reads a page of the
lowest scores and handles its members one by one, in turn for the two ZSets, and
the scan does the same with the rows. `timeoutClaim` and `timeoutDeliver` do
nothing to a row that is not overdue, whatever woke them up; `PollHandles` removes
the member nevertheless.

### SettleRetry and the code

A deliver request takes up to three transactions: `DeliverMarks`,
`DeliverSettles` and, after an exception, `DeliverRecords`, which writes the
count 1. The job reads a page of orders with their counts (`JobReads`), settles
each (`JobSettles`) and writes the count it read plus one or the dead flag
(`JobRecords`). A crash is possible between any two. `role` is the taker's role,
the one reason for which a settlement fails each time; `Faulty` adds failures
that pass. Delays are abstracted: a retry may be due at any time after it was
scheduled, which includes the order in which the code's delays elapse.

### Outbox and the code

`Claim` is `claimBatch`, `Publish` the effects of an event, `Mark` the
conditional UPDATE with its fence on `locked_until`, `TimePasses` a lease or a
delay that runs out. Leases are numbers that repeat as little as they have to: a
claim gets one that no row and no worker holds (`NewLease`); the comment of the
module says for which clocks the code has that property. `WorkerDies` leaves a
batch in PROCESSING. `LiveSpec` is the part without replays and without a database
that fails every mark (`Step`); the drill runs with both (`Next`).

### Payments and the code

A request begins, which fixes its snapshot and answers what can be answered from
it, and finishes with its INSERT, which meets the committed rows. What a handler
reads after a duplicate key is the snapshot again: it does not show the row that
caused the duplicate, so the handler throws. The unique keys are
`uk_payment_provider_id`, `uk_payment_callback_event`, `uk_refund_request`,
`uk_refund_payment`, the compensation's request key, `uk_biz_account` and the
idempotency keys. Disputes are bounded by `MaxDisputes`; a user spends once.

### Drills and the code

`FailureCommon` gives every drill the same shape. Each step of a script is an
action that does what the statement does and goes on, or raises into the
enclosing finally block; `WaitsUntil` may see its condition or run into its
deadline; `Killed` ends it without its finally blocks. `Others` lets the component
go on. `MonitoringDrill` keeps the stack of statements that undo the five faults
of `validate_monitoring.py`, popped before the repair runs as in the code;
`fragile` says whether its statements and commands may fail in a behaviour; in
`BooksDrills` it also says whether the UPDATE in the finally block of the drift drill may.

Each script starts on a database without faults of its own: what a run that was
killed left behind, and a later one finds, is not modelled. The audit a script asks
for is of the whole database. Of the orders of other users only INV-5 can fail while
the books are right (`ReconRepository.overdueOpenOrders`), which `DeliveryDrills`
has as an audit that may fail in any state. `PaymentReplay` has it with its cause,
the choice of `overdue` while somebody has an open order (`OpenOrders`), and computes
INV-1 to INV-4 from the state. `excused` says that this has happened, or that a call
of the script broke: a connection that fails, an answer that is lost, an audit
answered with anything but 200.

### Evidence and the code

A raw file is what `load_test.py` and `run_one` write: session, number, label,
verdict, the pass it belongs to (`left`: `--prefilter-modes` does not reject a mode that is
named twice, and then numbers repeat), and two things that are on no file (the mode the application ran in,
and whether a warm-up had gone before), so that the properties can speak of them.
`matrix_paths` is `Selected`, with its fall-back to all files. A capacity session
writes two files in two steps, and may be killed between them. The operator runs
one script at a time, and killing it takes its load generator along; one scenario
and one pool size stand for the matrix, so rows that mix pool sizes do not occur. A load level is named by its place in
`--levels`, since the row of each is kept apart even if two are equal; 0 stands
for the stability run. The names of this module's variables and specification
(`stage`, `EvidenceSpec`) differ from those of the drills because `ScriptsProofs`
extends both.

## 3. Runs

| Run | Instance | States | Question |
| --- | --- | --- | --- |
| `escrow` | 3 users besides the mint and the platform (one is the administrator's account), 2 orders, rewards 1 and 3, deposits of 4, 2 recharge keys, 2 nanosecond instants, commission 1/2 | 14,755 | do the books balance, and does every reward leave escrow once, in every interleaving of the transactions? |
| `redis_drills` | 3 users, 1 order, 2 requests, 2 outbox workers, one of these busy while a script runs | 337,141 | is there one winner whatever Redis, the jobs and the scripts do, is a rebuild exact, and does an outage leave exactly one winner of those who ask? |
| `grab_filter_live` | 2 users, 1 order, 2 requests, 1 worker, one publisher | 68,033 | does the marker protocol recover from every failure, and does it clean up? |
| `timeouts` | 1 order, clocks 0..2 that may differ by 1, pages of 2 and 1, one malformed member | 37,680 | is every overdue order cancelled by the scan alone, does an order keep its wake-up call, and do the ZSets drain? |
| `settle_retry` | 2 orders, 3 deliver requests (2 race for one order), 1 job, 2 retries, pages of 1 | 174,016 | is a delivered order settled or given up, paid once, and no order starved by another? |
| `delivery_drills` | 1 order, 2 clients, 2 jobs, 3 retries | 36,613 | does a drill that passes mean what it says, does the taker come back, and is a burst of deliveries settled once? |
| `outbox` | 2 events, one of them poison, 2 workers, batches of 2, 2 retries | 137,412 | is a slow worker fenced off, and is every event published or given up? |
| `outbox_drill` | 1 event, 2 workers, 2 retries, failing marks, replays, crashes | 63,483 | does the crash drill see a real recovery, and is no event given up early? |
| `payments` | 1 user, 2 requests; one provider payment under 2 events and with 2 amounts, 2 refund keys, 2 compensation keys, recharges under a callback's key with the same amount and with another | 261,036 | does the money of a payment move once each way, from snapshots that may be stale? |
| `payment_replay` | the script, another user who pays, freezes money for an order, disputes and is compensated, 2 requests, 2 disputes | 153,012 | is the replay's verdict right while others use the system? |
| `books_drills` | the script's user, a customer who recharges up to twice | 7,162 | is what a script broke undone wherever it gives up, and does PASS mean that the books balance? |
| `evidence` | 2 measured runs per row, 2 load levels, 2 throughputs, 4 command lines, 2 sessions, 1 run that does not end well | 1,032,714 | does COMPLETE rest on the runs it needs? |

Why these bounds are enough.

- `escrow`: two orders with different rewards are what it takes to pay one from
  another's escrow, a deposit of 4 covers both orders or one of them twice over, the
  rewards 1 and 3 make the commission round down, and two keys with two instants
  let a recharge be replayed, collide and follow another.
- `redis_drills`, `grab_filter_live`: orders do not share state, so one suffices.
  Two requests in flight are the smallest number that compete for the lock, and a
  third user makes the winner, the loser and the publisher three people; a request
  that ended begins again, so there is no bound on how many run one after the
  other. The theorems of section 4 remove these bounds for the safety properties.
  The live run uses one publisher (`Publishers`) in place of symmetry, which
  would be unsound there, and one worker, since the number of workers matters to
  the interleaving of keys and not to the progress of events.
- `timeouts`: a tick of skew is enough for an entry to be due before its row, and
  two ticks for a claim and a delivery deadline to follow each other. One order
  and one poller: entries do not share state but in a page, and a malformed member
  that stays competes with the order for the page of 2. Two pollers only repeat
  an idempotent timeout; a second one that has read a member already would still
  run it after the first has removed it, which `PollHandles` does for a single
  poller when a worker has removed the member meanwhile.
- `settle_retry`: pages of one with two orders are the smallest case in which one
  order stands in front of another, two requests for one order race, and two
  retries let a stale 1 overwrite the last count. `delivery_drills` has the second
  instance of the job, and three retries so that two stale writes can interleave
  before the last.
- `outbox`: batches of two let a lease pass half-way, with the poison event first.
- `payments`: each pair of calls that can collide on a unique key is there, and two
  requests are enough for a collision; a third would meet the row of one of them.
- `evidence`: two required runs per row tell a full row from a partial one, two
  sessions are a session after another that failed or was killed.

Deadlock is checked where the system never stops: `redis_drills`,
`grab_filter_live`, `timeouts` and `evidence`. The other runs end when ids, keys,
requests or the script have run out.

### Properties

- `LedgerSumsToZero`, `BalancesMatchLedger`, `OnlyMintNegative`: INV-1, INV-2 and
  INV-4 of `ReconService`, in every committed state and not once a minute.
- `EscrowMatchesOpenOrders`: INV-3, for each publisher. It also means that
  `debitFrozen` never fails in `settle` or `refund`.
- `EntriesMatchStatus`, `RowsMatchStatus`: an order's ledger entries, settlement
  key and events are those of its status, so it is never paid twice, refunded and
  settled, or answered from a key without having been paid.
- `ImplementsLifecycle`, `GrabImplementsLifecycle`: both state machines implement
  `OrderLifecycle`; in `Escrow` custody of the reward is read off the ledger.
- `WonIsTaker`, `WinnerStillMatches`: one winner, on record for good.
- `RebuildIsExact`: a rebuild that nobody disturbs leaves exactly the keys of the
  published orders. `OneWinnerOfThoseAsked`: the outage costs no order its winner.
- `ConsumedMarkerReturns`, `WantedOrderIsTaken`, `KeysVanish`: a consumed marker
  never shuts an order off, an order people want is taken once failures stop, and
  the keys of a closed order past its deadline vanish.
- `OverdueIsCancelled` (INV-5, in the end), `WakeUpKept`, `QueueDrains`: the scan
  needs nobody's help, the queue loses no order that is open, and keeps none that
  is closed. `excused` names the three failures after which an order may lack its
  wake-up call.
- `DeliveredOncePaidOnce`, `DeliveredIsResolved`, `DeadOnlyWhenExhausted`: the
  retry job and the outbox give up after the last attempt and not before it. The
  counts may be lower than the failures, never higher.
- `SlowWorkerIsFenced`, `EventIsResolved`: the lease is a fence, and every event ends.
- `MoneyMovesOnce` (`Payments` implements `PaymentLifecycle`), `RowsAgree`. A recharge
  that a user made under the key of a callback is taken over by that payment, which
  is then not credited again, and by no other payment.
- `PassedMeansRecovered`, `PassedMeansReclaimed`, `PassedMeansRightMoney`,
  `PassedMeansBooksBalance`: a PASS is worth what it says. `NoFalseAlarm`: a FAIL of the
  payment replay comes of a call that broke or of somebody's overdue order.
  `BurstIsSettledOnce`: what the duplicate drill asserts of its order comes true (it may
  FAIL nevertheless, of a call that breaks or of the audit of other orders).
- `TakerComesBack`, `InjectionsAreUndone`, `DriftIsUndone`: wherever a drill gives up,
  what it broke is whole again, unless it is killed, which skips its finally blocks. The
  last two also need the statements that undo to work (`~fragile`): the UPDATE in
  the finally block of the drift drill may itself raise and leave the cent. For
  `TakerComesBack` a `set_role` whose connection fails counts as a kill
  (`DeliveryDrills!DrillDies`).
- `ReportRestsOnRuns`, `CapacityIsMeasured`: no claim without its measurements. Of
  each run in a row the row also has every run the same pass over the mode made before
  it: no slow or failed one is skipped.

### Fairness

Weak fairness (`WF`) of a request's next step and of the jobs, everywhere: a thread
runs on, and Spring runs a `@Scheduled` method again after it has ended. Strong
fairness (`SF`) of a step that shares its turn with a failure: Redis, the database
or the instance may fail it again and again, not every time. In detail:

- `GrabFilter!FairSpec`: `SF` of `Claim`, since InnoDB grants a row lock in the order of the
  requests, of `ResyncRearms` and of the worker's steps; `WF` of `KeysExpire`: a
  TTL runs out. `SF` of `Begin` by somebody else than the publisher: people keep
  asking for the order, which is the hypothesis of `WantedOrderIsTaken` and not a
  promise of the code. There is no fairness on deadlines, cancellations, lost keys
  and rollbacks. `WantedOrderIsTaken` holds for the behaviours in which
  rollbacks and lost keys end some day (`FailuresStop`); the other two hold even if
  they never do.
- `Timeouts!FairSpec`: only the scan (`ScanFairness`). `QueueDrains` has its own
  premise, `QueueFairness`, for the pollers, the worker and the clocks: what it is
  worth with them does not enter `OverdueIsCancelled`.
- `SettleRetry!Fairness`: time passes for each retry, and each instance's job gets
  to settle and to record. Deliver requests and roles owe nothing: a request may
  die after its first transaction.
- `Outbox!Fairness`: some worker that holds the lease of an event gets to publish
  and to mark it. It excludes the event that kills its worker each time
  before a retry is counted, which the code would reclaim for ever.
- `DeliveryDrills!DrillSpec`: the scripts go on; being killed is an exception
  both of its properties name.

### What the documents say and the code does otherwise

Met while modelling. A property that speaks of such a case states what the code does
or names the case as an exception; an item that names no property has none:

- `PaymentService.java:48` says that a concurrent callback "replays the committed
  payment". The re-read after the duplicate key runs in the REPEATABLE READ snapshot
  of the first SELECT, does not find the payment, and the callback is answered
  500; the next repetition is answered right. The same holds for two concurrent
  refunds with one key, for which `docs/payment-state-machine.md:37` says that all
  repetitions return the same refund. The money moves once in both cases
  (`MoneyMovesOnce`).
- `docs/payment-state-machine.md:40` says that a repeated compensation returns the
  resolved dispute. With a key that another dispute has used, `DisputeService.java:50`
  answers with this dispute, still OPEN; concurrently, line 53 does.
- `docs/payment-state-machine.md:24` says that a payment and the ledger entries of its
  recharge are committed together. `UserController.java:36` lets any logged-in user
  recharge the own account under any key (an administrator: any account). A recharge under
  `PAYMENT:<event>` with the callback's user and amount is replayed by it
  (`UserService.java:78`), and the payment is SETTLED without entries of its own. The
  money came once, which is what `MoneyMovesOnce` says; another amount rolls the
  callback back.
- `alerts.yml:56` says that "delivered orders require audited settlement recovery".
  An order that one instance of the job gives up while another settles it keeps `settlement_dead`,
  and `OrderRepository.java:147` counts it whatever its status: the alert stays.
- `replay_payment_events.py:124` says that its cleanup does not touch data of
  others. Line 138 deletes ledger entries by `biz_id` alone, so it takes the
  COMPENSATION entries of another user whose dispute has the id of one of this
  run's refunds; and line 142 deletes the run's accounts and entries but
  leaves the mint's balance, so that INV-2 fails after a run
  (`docs/payment-state-machine.md:48`).
- `validate_monitoring.py:243` restores an absolute balance of the mint. A recharge
  that commits in between is lost from the balance, and the assertion at line 255
  fails; `InjectionsAreUndone` holds while nobody else moves the mint's money.
- `run_benchmarks.py:213` accepts a mode that is named twice. Its runs then have the same
  numbers in both passes, and `generate_benchmark_report.py:183` sorts by number:
  the five of a row are the first runs of both passes, and later runs of the
  first pass, which may have failed, are left out although they were made before
  some that count. `ReportRestsOnRuns` therefore speaks of each pass by itself.
- A capacity session that is killed between its two files leaves an environment file and
  a report that disagree; a benchmark report that became COMPLETE stays when a
  later session is PARTIAL, unless `--allow-incomplete` overwrites it; the stability
  run is named after the best level but uses a fixed number of clients.

## 4. What is proved

All theorems hold for every value of the constants that satisfies the `ASSUME`s of
the modules: any finite sets of users and orders, any positive rewards and
deposits, any commission rate between 0 and 1, any number of requests, jobs,
pollers and workers, any page size and clock skew, any retry limit (above one for
the retry job). Each `ASSUME` says
no more than what the types of the code or its configuration say, and TLC
evaluates it on the instance of the run. One goes further:
`PaymentReplayAssumption` says that the names the replay hands out are its own:
each carries `time.time_ns()` and the user is registered by the run
(`replay_payment_events.py:173`), so no other call has one of its provider ids, events
or request keys, or is about its user. An administrator who looked the user up and
recharged it, or who resolved its dispute, would make the drill fail, rightly from
its own point of view.

| Module | Theorems |
| --- | --- |
| `EscrowProofs` | `TypeCorrect`, `BooksBalance`, `NoMoneyIsMade`, `NobodyOverdraws`, `EscrowCorrect`, `SettledOrRefundedOnce`, `KeysAndEventsMatch`, `LifecycleImplemented` |
| `RedisOutageProofs` | `OneWinner`, `GrabIsOneStep`; under all the scripts `OutageTypeCorrect`, `OneWinnerThroughOutages`, `WinnerMatchesThroughOutages`, `GrabIsOneStepThroughOutages`, `RebuildLeavesExactKeys`, `OneWinnerOfTheDrill` |
| `TimeoutsProofs` | `TimeoutsTyping`, `OpenOrdersKeepTheirWakeUpCall` |
| `DeliveryDrillsProofs` | `DeliveryTyping`, `OneDeliveryOnePayment`, `OneDeliveryUnderDrills`, `DeadAfterMaxRetries`, `RetryReportIsTrue` |
| `ScriptsProofs` | `OutboxTyping`, `LeaseIsAFence`, `DeadAfterMaxRetries`, `DeadAfterMaxRetriesUnderDrill`, `RecoveryReportIsTrue`; `EvidenceInvariant`, `CompleteReportRestsOnRuns`, `ClaimedCapacityIsMeasured` |
| `PaymentsProofs` | `PaymentsTyping`, `PaymentsSumToZero`, `PaymentBooks`, `TablesAgree`, `PaymentsImplementLifecycle`; under the replay `ReplayInvariant`, `ReplayRaisesNoFalseAlarm`, `ReplayPassMeansRightMoney` |
| `BooksDrillsProofs` | `BooksInvariant`, `TheDriftIsUndone`, `TheInjectionsAreUndone`, `PassedIsAboutBooks` |

Each argument rests on an invariant that is inductive, while the property it is
for is not. TLC finds each of them true on the run's instance (in `Payments` with
`EntriesMatchRows` quantified over the entries).

`Escrow`. That a refund leaves the balances right needs the entries it inserts to
be new, which is `EntriesMatchStatus`; that a settlement never makes a frozen
balance negative needs `EscrowMatchesOpenOrders`; and a settlement is a step at
all only if its key is not there yet, `RowsMatchStatus`. Their conjunction `IInv`
is inductive. The proof has one lemma per transaction. Each posts ledger entries
that are new and sum to zero and changes each account by what was posted to it;
`AccountsProofs` shows once that such a posting preserves the books.

Sums. `SumFunctionOnSet` of the community modules is defined by a recursive
function over subsets. The induction theorems of the library are not usable with
the installed provers, so `AccountsProofs` argues by minimal counterexample: among
the subsets for which the claim fails it picks one of least cardinality and
removes an element. `SumEmpty`, `SumEqual` and `SumType` and the lemmas on
changing a summand rest on it.

`GrabFilter`. `WonIsTaker` needs that nobody moves the row between a winner's
UPDATE and its commit, which is `WinnerStillMatches`, and that an order that was
won never becomes claimable again (`WonIsClosed`). Redis appears nowhere in the
proof: the filter decides only who gets as far as the UPDATE. `GrabIsOneStep` adds
that a winner is never the publisher.

`RedisOutage`. A step of the scripts is a step of `GrabFilter`, or changes Redis
only, or forgets requests in flight (`Harmless`), and none of these can disturb
the invariant of `GrabFilter`; so the proof needs one case per kind of step, and
not one per script. `RebuildLeavesExactKeys` relates each step of the rebuild to
the part of the keys it has dealt with: what it has not deleted yet, and which
rows it has still to write. `OneWinnerOfTheDrill` relates the answers the drill
has collected to the requests still in flight: while nobody has won, the order is
there to be taken by one of them.

`Timeouts`. An entry of the queue may disappear by a poll that handles a page read
long ago. The invariant says of each page and each worker's row that a deadline
in it is one the order had (`AllTrusted`), and of each outbox event that it will
write the entry it stands for (`EventsTrue`): a member removed for an order that
is still open can then only be one of the excused three, or one whose time had come.

`DeliveryDrills`. A retry count may be written from a stale read, so it can be lower
than the failures, never higher; and so can each count in a page. That, with the
fact that an order marked dead had a count at its limit, is `SInv`; `DInv` adds what
the drill has seen so far.

`OutboxDrill`. The fence works because two claims never carry the same lease. A
new lease is taken from a set larger than the rows and workers together
(`NewLease`), and the proof that one is left is by counting. `OInv` says that leases
differ and that a count in a batch is bounded by the failures as long as its worker
holds the lease: after that a replay may have reset them, and the fence keeps the
count from being written.

`Payments`. `PInv` says which rows and entries a call that is under way knows of,
and that each entry has its row. An INSERT that finds its unique key free posts
entries that are new because the row they belong to is. The refinement maps each
transaction's commit to one step of `PaymentLifecycle`: the money (`Wealth`,
`Deposits`) is read off the ledger, and what was credited, returned and resolved
off the rows (`PaymentWith`, `Credited`, `Returned`, `Resolved`). `Deposits` are the
recharges under keys that no payment has taken: a callback whose recharge was
replayed moves one from there to `Credited` and no money, which is the second way
of `PaymentLifecycle!Settle`. That its user and amount are the callback's is what
the request hash compares, and that it is taken once is the unique event key.

`PaymentReplay`. The script compares answers, so a proof must know each answer. The
invariant `RInv` says what the run's user owns before each of the 14 calls (`Own`):
the provider ids that were credited and by which event (`Paid`), the one refund,
the one dispute and whether it is resolved, the ledger entries, and what the
wallet is worth. `Apart` says why nobody else can change it: a call that others have
under way is about rows of theirs. A call that is under way in addition finds that
state again at its commit (`Committing`), although it decides on an older snapshot.
Each of the 14 calls is a lemma: what its reads decide and what its commit makes of
`Own`. Until the script decides, `PInv` holds as well, of the calls of others and of
the script together (`PInvOf`), and what is frozen is what the open orders are worth
(`FrozenForOrders`): the reconciliation in the script needs both. A check that fails
has an excuse (`asExpected \/ excused`), and only a call that broke or an overdue
order is one. The
cleanup deletes rows one table at a time and breaks `PInv`, as it does in the
code; all that is claimed there is that the wallet keeps its worth until its own row
goes (`Cleaning`).

`Evidence`. That an index lists the first runs of a mode without a gap, each after
its warm-up, is not visible in the index. `BInv` says it of the session while it
runs: every number up to the current one is on file (`RunRight`), so the files of
a session are `Gapless`, and if a session has warm-ups at all they precede every
run (`ListedRight`). The files of the newest index are in the directory or were cleared
together (`IndexRight`), so those the report still finds are all of them, and taking the
first `Required` by number leaves out no earlier one of the same pass. `CInv` says that the runs of a
load level are numbered without a gap (`LevelsRight`), so that a level with
`Required` of them has each number once; and a best level exists because among finitely
many levels one has the highest rate and the lowest place, which is again a minimal
counterexample (`EveryLevelHasBest`).

`BooksDrills`. A script that writes into the wallets leaves books that do not balance
for a while, so the invariant is about other books: those without the script's
writes. For each content of the stack of what undoes (`Quiet`, `Marked`,
`Drifted`, `Serving`, `Listed`, `Blocked`, `Cleaned`) it names them and says that
they are sound (`UsersBooks`), and undoing the last write turns one situation
into the next. It is claimed only while no customer moved the mint's money and no
statement failed behind the script's back (`Clear`): the properties say no more,
and section 3 has what happens otherwise. The drift script does not depend on
customers, since the balance it restores is one that nobody else moves (`Drifting`);
it does depend on its own UPDATE, so the invariant allows for one that failed
(`RestoreFailed`).

Only model-checked: the liveness properties, since temporal reasoning under
fairness is out of the prover's reach here. Every safety property that a run checks
is proved.

## 5. What is not modelled

- Passwords, JWT, controllers, DTOs and metrics: no state that a decision of the
  modelled operations reads.
- The rate limiter in front of the filter: a rejected request ends as a filtered one does,
  before it touches the order. The login guard: no other operation reads it.
- `redis-prefilter-enabled=false`, which skips the filter: every request then
  takes the way of `Unavailable` without the script having run.
- Clock skew between the application and the database in the filter: both see the one
  `overdue` of the order. `Timeouts` has the two clocks.
- One resync job stands for those of all instances; a re-arm is idempotent.
- Row locks on accounts and the deadlocks they allow: a victim is rolled back, as any
  transaction may be.
- The lengths of back-off delays and leases: time passes at any moment.
- `generate_benchmark_report.py --index`, which names an index in place of the newest one.
- The delay queues in `rebuild_redis_state.py`, the contents of a backup, and the
  text of reports.
- The other scripts: they read files and write texts, or call operations that are
  modelled.

## 6. Plan

The modules are those the plan asked for, and their safety properties are proved. The
order in which they were taken was: accounts and escrow, the grab filter and what
its scripts do to it, the timeouts, the settlement retry, the outbox, the payments, the
drills of each, the benchmark evidence.

What a change of the code would call for next: the rate limiter and the login guard,
if a decision of the modelled operations comes to depend on them; the row locks of
`ensureAccounts`, if a deadlock there is ever answered by anything but a rollback;
and the matrix of scenarios and pool sizes in `Evidence`, if a row may mix them.
