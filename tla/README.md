# AppForge: TLA+ models, model checking and proofs

AppForge repackages one Android APK into many channel APKs for many tenants. It is a Go
system on MySQL/InnoDB (REPEATABLE READ): a core service owns every table, builder nodes and
customers' local agents pull build tasks from it, and billing, webhooks, an Open API and
source integrations surround the builds. This directory holds TLA+ models of the parts where
several actors meet, TLC configurations that check them, and TLAPS proofs.

    tlc -config cluster_agents.cfg MCBuildCluster      # any run of the table below
    tlapm BuildClusterProofs.tla                       # any of the eight *Proofs modules

The specifications quoted as "V1" to "V7" are the `V*.md` files at the root of the repository.

## 1. Inventory

### 1.1 Build tasks and the fair scheduler (core service)
*State*: `t_build_task` (status, attempt, builder, lease, retry link), `t_build_slot_lease`
(one row per grant), `t_build_fair_queue` (virtual finish per tenant),
`t_build_concurrency_policy`.
*Operations*: create, retry and cancel by users; `ClaimScheduledBuildTask` by cloud nodes,
`ClaimLocalAgentBuildTask` by agents, `ClaimBuildTask` by builders of the first version;
progress, heartbeat, complete and fail by whoever holds the lease. Each is one transaction.
*Hard*: a builder that lost its lease goes on and reports; leases of task and slot pass
independently (one DATETIME, one DATETIME(3), two statements); recovery happens inside the
claim of another node; three kinds of claim check different limits; one transaction touches
scheduler and billing, so an error of one undoes the other; the queue is read through LIMITs.
*Correct when*: an attempt fences; an end is final; slots agree with tasks; limits hold for
live slots; nobody waits for ever; the ledger agrees with what was built.

### 1.2 Builder nodes (core service)
*State*: `t_builder_node` (status, drain status, last heartbeat, disk). *Operations*: register
(upsert), heartbeat, drain and undrain, recover, and a claim that marks a stale node offline.
*Hard*: a restarted process registers over a row that an operator drained or the disk check
isolated. *Correct when*: isolation ends through recovery only, a drained node gets nothing.

### 1.3 Builder worker process (`services/builder`)
*State*: the process, one goroutine per build, the set `active` of task ids, contexts, the APK
in the object store. *Operations*: poll, build, heartbeat, progress, upload, complete, fail,
graceful shutdown; crash and restart. *Hard*: every call may be lost, late or served after its
caller died; three contexts with different lifetimes; deciding after an error whether the
uploaded APK is still needed. *Correct when*: a task never points at a missing APK or at one of
an old attempt; lost builds stop; every build ends.

### 1.4 Quota reservations and usage ledger (core service)
*State*: `t_quota_reservation`, `t_usage_ledger`, status, source, period and grace of
`t_tenant_subscription`. *Operations*: reserve with the build, confirm at the claim, release at a
cancellation, expire after seven days, refund at a failure or a cache hit; end, renew, pause and change
of the subscription by the billing worker, payments, contracts and users. *Hard*: sums are consistent
reads of a snapshot that may be older than the lock; rows are dated by the clock while sums are cut at
the period of the subscription, which grace leaves behind the clock and a renewal moves under open
reservations. *Correct when*: a period is not oversold, nothing is charged twice, nothing stays reserved
for a build that ended.

### 1.5 Webhooks (core service)
*State*: `t_outbox_event`, `t_webhook_delivery` (status, attempt, claim lease), endpoints.
*Operations*: insert with the business change, dispatch to the subscribers, claim, call, finish,
replay, change of an endpoint (status, event types, maximum of attempts). *Hard*: every replica runs
workers; a worker dies or is slower than its lease; a delivery is replayed, or its maximum lowered, under a
claim; the last two deliveries of an event end in two transactions that lock each other. *Correct when*: an event is tried until it was received or
its attempts are used up, and ends with its deliveries.

### 1.6 Storage objects and the build cache (core service, gateway, builder)
*State*: `t_storage_object`, the Redis copy the generated model reads, the `storage.bytes` reservation,
the bucket; `t_build_cache_entry`, the cache columns of the task. *Operations*: create, PUT, complete,
fail, bind to a version, list, remove and mark by the cleanup loop; resolve, confirm, publish,
invalidate, evict. *Hard*: nobody locks what the other reads; rows are written back whole from a
cached copy; cleanup takes three steps; a lost publication may have committed. *Correct when*:
cleanup takes nothing that was completed, what is stored is charged, what a hit or an active entry
refers to is in the bucket.

### 1.7 Source events (core service, source worker)
*State*: `t_source_webhook_event` (status, attempt, lease, version code), `t_app_version`,
`t_source_artifact`, the channels of a trigger. *Operations*: enqueue, claim, import, one
`CreateBuildTask` per channel, complete, fail. *Hard*: leases of ten minutes that nobody renews and calls that carry
no attempt, so two workers may be at one event; replies are lost after commits; channels change meanwhile.
*Correct when*: one version per artifact, one build per channel, every event settles and stays settled.

### 1.8 Local agents (core service, `local-agent`)
*State*: registration tokens, `t_local_agent`, `t_local_agent_certificate`, the state directory.
*Operations*: register, authenticated heartbeat, claim and report, rotate, drain, revoke, expire, offline.
*Hard*: authentication and action are two transactions; requests come late, twice or never; rotations overlap.
*Correct when*: a request counts once, revocation and drain hold against calls under way, at
most one certificate is active, a drain ends.

### 1.9 The rest of the system
| Part | State and operations | Hard behaviour | Should hold |
|---|---|---|---|
| Subscriptions, plans, payments | subscription, plan versions, invoices, payment events | events out of order and repeated | one invoice per period, old plans unchanged |
| Open API idempotency | records by key; begin, finish, expire | a crash between business write and stored response | one effect per key |
| Branding, preflight, white label | revisions and snapshots | preflight claims like build claims | a build keeps its snapshot |
| Air-gapped packages | exports and imported results | a package imported twice | one result per package |
| Channels and installs | event rows and counters | none between actors | - |
| HTTP gateway, system service, UI, CLI, `common` | routing, sessions, CRUD, clients | none of their own | - |
| Deployment, generated protocol code | - | - | - |

### 1.10 Interactions
    user/API --create, retry, cancel--> build tasks --reserve, confirm, release, refund--> quota
    worker   --claim, heartbeat, progress, complete, fail--> build tasks --> slots, fair queue
    worker   --register, heartbeat, drain--> nodes --status, drain, disk--> claim
    worker   --put, delete--> object store <--list, remove, mark-- cleanup loop of every builder
    worker   --resolve, confirm, publish--> build cache --> storage objects
    gateway  --create, complete, fail, bind--> storage objects --reserve, confirm, release--> quota
    source worker --import--> storage objects, versions; --CreateBuildTask--> build tasks
    agent    --claim, complete, fail (transactions of its own)--> build tasks
    agent    --progress, lease renewal (delegated to the workers' handlers)--> build tasks
    business changes --outbox rows--> webhook workers --> endpoints
    billing worker --expire, roll over, pause--> quota, subscriptions --> claim, complete, fail

## 2. Plan

Order of the modules, most important first. 1 to 8 are done, the rest is planned.

1. `BuildLifecycle`, `BuilderNode`, `BuildCluster`: the core.
2. `BuildClusterProofs`: its invariants, its limits, its bills and its three refinements.
3. `BuildWorker` on top of `BuildCluster`: processes, calls, object store; `BuildWorkerProofs`:
   that it is an implementation of 1, and what it adds.
4. `QuotaReservation`, `QuotaReservationProofs`: what the reservations of 1 count.
5. `ReliableDelivery`, `WebhookDelivery`, `WebhookDeliveryProofs`: at least once, within the attempts.
6. `StorageObjects`, and `BuildCache` on top of it, with their proofs.
7. `SourceTriggers`, `SourceTriggersProofs`: imports and builds a push starts.
8. `LocalAgents`, `LocalAgentsProofs`: who an agent is, beside what it may claim in 1.
9. Open API idempotency, composed with `CreateBuildTask`: one effect per key.
10. Subscriptions: order of payment events, plan versions, invoices; with the periods of 4 it supplies
    `ChangeSubscription` of 1, and lets a queue of paused tenants be modelled.
11. Air-gapped packages, white label and preflight.

Proofs to come: what is planned above, module by module. Every invariant and every action property
of the modules that exist is a theorem (section 5).

## 3. Modules

### `BuildLifecycle` - what is promised about a task
A task is submitted once; each grant hands it to one builder under a new token; it ends only
while its lease runs; a withdrawal or a later grant voids earlier tokens; an end is final; the
tenant is charged at most once, in the step of a grant. No scheduler, slot or plan.

### `BuilderNode` - rows of `t_builder_node`
`RegisterBuilderNode`, `BuilderNodeHeartbeat`, `DrainBuilderNode`, `RecoverBuilderNode`,
`ClaimFromStaleNode` are the handlers; `HeartbeatGoesStale` is the passing of 90 seconds.
The time of the last heartbeat is the Boolean `fresh`, the disk figures the Boolean `lowDisk`.
`consecutive_failures` is left out: the worker never sends `LastErrorMessage`, so it stays 0.

### `BuildCluster` - one pool, one action per handler
| Variables | Code |
|---|---|
| `status`, `attempt`, `builder`, `retryOf` | columns of `t_build_task` |
| `leased` | `lease_until` of the task is in the future |
| `slots` | rows of `t_build_slot_lease` that still count: ACTIVE, not past |
| `resv`, `ledger` | the reservation `build:<id>`, the ledger rows of the build |
| `virtualFinish` | `t_build_fair_queue.virtual_finish` |
| `subscribed`, `plan` | whether the tenant may consume, the charge flags of its plan |
| those of `BuilderNode` | the nodes |

*Requests of builders are unrestricted*: any progress, completion or failure, for any task,
builder and attempt, may arrive at any time. That includes every delayed, repeated or lost
call, every crash and every clock of a builder; `Owns`, the WHERE clause of the handlers,
alone decides (`WorkersImplementCluster` proves it of the model of the workers).
*Claims* follow `claimScheduledTask`: admission of the node, the sweep, the fair queue
(`QueueHead`, window of 64 tenants), the tasks of a tenant (`Candidates`, window of 32), then
the first servable entry; `ConfirmQuota` may abort the whole claim. `ClaimLocalAgentBuildTask`
and the V1 `ClaimBuildTask` have their own, weaker guards as in the code.
*Ends*: `Succeeds` and `Fails` are what two handlers each share. `CompleteBuildTask` binds the APK and so
needs an active subscription; `FailBuildTask` does when it carries a log. The agents' transactions
(`completeLocalAgentBuildTask`, `failLocalAgentBuildTask`) bind an object that is there already and need it
only when they have to register it (`registers`).
*Transactions are serial.* A scheduled claim starts with the UPDATE that sweeps lapsed slots; it
has no index to use, so it locks the table before its first consistent read. Billing handlers lock
the subscription row, reports lock the task row. `SKIP LOCKED` makes a claim miss a row another
transaction holds, which here is a claim that happens later.
*Time* is two Booleans that pass independently, so a lapse may come at the worst moment. A
renewal keeps a lease in the future and changes nothing (`Renews` is its guard).

### `BuildWorker` - processes in front of `BuildCluster`
Adds `proc`, `exec` (goroutines with a program counter and the cause of a cancelled context),
`active`, `requests` (calls not yet served, whose caller may be dead), `objects`, `artifact`. Server
steps are actions of `BuildCluster`. Whether an error settles who owns the task
(`isDefinitiveOwnershipError`) decides over the APK: `RefuseComplete` deletes,
`CallUnanswered` and `AbortComplete` do not. Completion needs an active subscription
(FailedPrecondition, definitive) and storage quota (ResourceExhausted, not definitive).

### `QuotaReservation` - what a reservation counts
One tenant's `build.count`. `now` is the clock; `standing`, `source`, `start` and `end` are columns of the
subscription, `period` numbers its periods (history). `resv` and `madeIn` are a reservation and the period it was made
in, `charged` and `refunded` the dates of the ledger rows. `Taken` is `quotaSnapshot`: rows *dated* within the current
period plus reservations whose period begins in the same month. Rows are dated by the clock, which runs past the end of a
period: an active subscription consumes until its end, one in grace beyond it (`Consuming`).
`PeriodEnds` is `processSubscription` (to inactive, to grace in the *old* period, or, for grants only, a roll-over);
`StripeActivates` and `ManualUpsert` begin periods anywhere in the past or, by contract, in the future; `PaymentFails`,
`GraceEnds`, `CancelNow` and `ChangeNow` leave the period alone. `OpenSnapshot`/`ReserveFromSnapshot` are
transactions whose first consistent read precedes the lock: `retryBuildTask` reads its policy first, the build
of a source webhook its deduplication row.

### `ReliableDelivery` and `WebhookDelivery` - the webhooks of a tenant
`ReliableDelivery` is the promise about one event and one endpoint: owed, tried, received, delivered
or given up after the tries of a maximum it was tried under; only a replay opens it again. `WebhookDelivery` has `event`
(`t_outbox_event`), `status`, `attempt`, `leased` (`t_webhook_delivery`), `active`, `subscribers` and `maxAttempts`
(`t_webhook_endpoint`, all three edited by `UpdateWebhookEndpoint`), and the claim each worker holds, with the
maximum it read. `DispatchOutbox`, `ClaimDelivery`, `SendWebhook` (the call; the receiver may take it
and the answer be lost) and `FinishDelivery` are the steps of `webhookworker.go`; the last one is fenced by
status and attempt and completes the event, unless its transaction is the victim of a deadlock,
whose error the code ignores. `lost` counts the attempts whose lease ran out, `limits` keeps the maxima a delivery was claimed under (history).

### `StorageObjects` - object rows, cached rows, quota, bucket
`row`, `cached` (Redis), `present` (bucket), `quota` (the `storage.bytes` reservation), `age` (0 while the
presigned URL lives, 1 after it, 2 when sweepable), and what requests, binders and sweepers are
at. The gateway's calls end in `CleanupFailedUpload` when anything goes wrong, which deletes the object
first and then asks core to fail the row. The cleanup loop is three actions. Handlers that bind an object read
`Seen` (cached or row), and write the row back whole.

### `BuildCache` - extends `StorageObjects`
One input digest: `entry`, `artifact`, `fresh`; tasks reduced to what the cache sees (claimed, lapsed, claimed
again, ended); `hit`, `hitObject`; builders between resolve, fetch, confirm, build and publish.
`CacheNext` interleaves them with the cleanup of `StorageObjects`.

### `SourceTriggers` - from a push to builds
`event`, `attempt`, `leased`, `code`, `artifact` are columns of `t_source_webhook_event`, `cached` the status in
Redis, `version`, `imported`, `builds` the rows the workers create. `ImportArtifact` decides,
`ImportSourceArtifact` is its transaction, `CreateBuildTask` handles one channel,
`CompleteSourceWebhookEvent` compares the channels, `FailReads`/`FailSourceWebhookEvent` are the two halves of the failure.
Each may be repeated, refused or lost after its commit.

### `LocalAgents` - identity of agents
The tables of registration, agent and certificates; the process with its saved and loaded certificate;
`requests`, everything it ever sent, any of which may arrive at any time and more than once; `handlers`,
requests between `AuthenticateLocalAgent` and the second transaction, with the copy of the row the first one took.

### `MC*` modules
`MCBuildCluster`, `MCBuildWorker`, `MCWebhookDelivery` and `MCBuildCache` give constants
their functions for TLC, the last one a symmetry of objects, tasks and workers (invariants only).
`QuotaReservation`, `SourceTriggers`, `StorageObjects` and `LocalAgents` need no functions and are run directly. Operators
named as mutants stand next to the definition they distort; no specification uses them.

## 4. Runs

| Run | States | What it shows |
|---|---|---|
| `cluster_cloud` | 703,501 | Two nodes of different size, one without a remote signer, four tasks of two tenants and three apps: the limits of pool, node, app and tenant hold while old slots outlive their task leases. |
| `cluster_agents` | 369,892 | A cloud node, a local agent and a V1 builder send everything at any time: slots match tasks, attempts fence, ends are final, isolation needs a recovery, `BuildLifecycle` is implemented; metered builds end without an open reservation or an unfounded refund. |
| `cluster_billing` | 258,382 | Plan changes, pauses and expiry between create, claim, recovery and end of two builds that a V1 builder takes over or hands on: ledger and reservations agree. |
| `cluster_fair` | violated | Liveness, with one reservation that may expire: `NoStarvation`, the promise of V4, line 146, fails: a paid task waits for ever behind one that cannot be charged (section 6). |
| `worker_safety` | 535,628 | Two processes, crashes, lost and late calls, stalled heartbeats, signals, a pause: APKs of finished builds exist and are those of the last attempt. |
| `worker_liveness` | 40,211 | Liveness: every queued build ends, and every fenced goroutine stops because its heartbeat is refused, with a fault at any point. |
| `quota_periods` | 1,872,099 | Three requests for a quota of one, one with an early snapshot, one that may be refunded; two periods of any source, grace, payments, contracts, cancellations, a clock that runs past the periods: a period exceeds its quota by no more than refunds, early readers and builds dated outside it. |
| `webhook_delivery` | 287,306 | Two workers, an event for two endpoints (two attempts and one at first), a lost claim or outlived lease, a replay, an edit of status, event types and maximum: events end with their deliveries, attempts are bounded, `ReliableDelivery` is implemented; liveness: everything owed is settled. |
| `storage_objects` | 70,973 | Two gateway calls, a binder and two cleanup loops race for an object: sweeps spare what was completed, stored objects are charged; liveness: failed ones are reclaimed. |
| `build_cache` | 945,956 | Two builders, two tasks with lapses, publications under two objects, invalidation, eviction, cleanup, a lost reply: an active entry and a confirmed hit have their object. |
| `source_events` | 311,536 | Two events of one artifact, two workers, a user who takes a version code and changes the channels, a stalled, dead or refused worker: nothing is imported or built twice, settled is right and final; liveness: events settle. |
| `local_agents` | 1,282,357 | An agent with three requests, registered twice, drained, revoked, upgraded, restarted, rotated or expired: requests count once, one certificate is active, drains and revocations hold; liveness: drains end. |

`CHECK_DEADLOCK FALSE` is set everywhere: when all tasks of the bounded set have ended and the
bounded events are used up, the models stop, as an idle system does.

### Bounds and why they are enough
* `Task`: two tasks suffice for one to be recovered while another runs or is a retry of it; three or
  four where limits and order matter, so that one more than the limit always competes.
* `MaxAttempt` (2 or 3, at least 1): the lease of this attempt does not pass. The handlers compare attempts for
  equality only, so two attempts give every relation of old and new, three an old, a lost and a
  current one. The code itself has no maximum of recoveries.
* `MaxNodeEvents`, `MaxBillingEvents`, `MaxFaults` (0 to 2): drains, low readings and silences;
  plan changes, pauses and expiries; crashes, lost messages or replies, stalls, outlived leases. Two of a kind
  let the second hit the recovery from the first. Runs that check something else set them to 0.
* `TenantWindow` 64, `TaskWindow` 32, `AgentWindow` 8 are the code's own values; the instances are smaller
  than the windows (see section 6).
* `Phase` is one value where nothing tells the phases apart, two in `cluster_agents`.
* `LastPeriod` 2, `LastTick` 4, `Cycle` 2, `MonthLength` 2: the clock passes the end of a first period and of a second
  that began anywhere before; the two may overlap, leave a gap, and fall into one month or two.
* `Refundable` one key: a refund frees one place, which another key takes.
* `Limit` {1, 2} of the webhooks: a maximum is raised or lowered past the attempts made. `MaxReplays` 1: no replay
  once some delivery had one, so that a replayed delivery meets one that was not.
* `MaxEdits` 1 (edits of an endpoint, changed channels, drain calls): each meets every other step once.
* `MaxAttempts` (source events) 2: there is a retry and a last attempt; attempts above it are not told apart.
* `MaxCode` 3, `UserCode` {2}: two events may wait with the same code, and a user may take it.
* `MaxRequests` 3 of an agent: a claim, a rotation and one more in any order, each repeated or late.
* `SlowPut` FALSE: a PUT does not take longer than the fifteen minutes between the end of its URL and the
  sweep; with a slower one its object stays behind (section 6). The theorems hold for both.
* One input digest of the cache, one trigger, one event of the outbox: digests, triggers and events share no rows but
  those the models have.

### Assumptions of single runs
* The properties of bills except builds whose last builder came through the V1 claim (`Metered`): it confirms
  nothing, so a cancel after it leaves the reservation to its expiry, and a failure refunds what was never charged.
* `NoReservationLeaks` and `RefundsWereCharged` need a plan that keeps the price of retries
  (`RetriesKeepPrice`; `cluster_agents` has a fixed plan with free retries). A retry reserves by the plan of its
  creation, is charged by the plan of its claim and refunded by the plan of its end, so one that was claimed free is
  refunded when `charge_retry_build` is switched on meanwhile. `ChargedWithReservation` has no such assumption.
* `LimitsRespected` is checked and proved without agents; an agent's claim passes the limits of the pool
  and the tenant's policy (section 6). `EntitlementWithinLimit` has no such assumption.

### Fairness
`FairSpec`: nodes register and keep polling (the worker loops on a timer, and its restart
is the supervisor's); the holder of a lease finishes its build; time passes for slots. Users and
billing are not fair: `cluster_fair` has one event of billing, which may be the expiry of a reservation. Its
counterexample is fair to nodes, builds and leases; no claim succeeds in it, because each one picks the same task and is
rolled back. Node events are bounded to 0 there, as an operator may drain a node for ever. Without the expiry
(`MaxBillingEvents` 0) TLC finds no such behaviour on this instance.
`WorkerFairSpec`: goroutines are scheduled, calls are served, stopped processes are restarted and
send heartbeats, an abandoned lease passes. One assumption is about people: registration keeps
the drain status, so a node that drained in its shutdown stays DRAINING after its restart until
an operator sets it ACCEPTING. The steps of tools and calls (`ReportUploading`, `UploadApk`, `CallComplete`) are fair
while the build owns its task; those of a build that lost it are not, since its tools may run for ever. What is fair of
it is the heartbeat, which `worker.go` sends on a timer of its own at a third of the lease, and what follows once its
refusal has cancelled the context. So `FencedBuildsStop` rests on the heartbeat, and its mutant, a heartbeat whose refusal
gets lost, violates it.

`WebhookDelivery`: outboxes are polled, claimed work is carried out, leases pass; claims are strongly
fair, since a worker takes what is due longest, whoever else is due at the moment.
`StorageObjects`: time passes, cleanup loops come round and finish what they listed. Gateway calls and binders are
not fair: their process may die. `SourceTriggers`: like the webhooks, and entries of Redis expire.
`LocalAgents`: requests time out, builds end, leases run out, `EnterpriseWorker` comes round. An agent's requests
need not arrive.

## 5. Proofs

All theorems hold for every value of the constants that satisfies the named assumptions of the
modules (limits are numbers, `NoBuilder` is no builder, phases are no end states, a task may be tried at least once,
and so on): any number of tasks, tenants, apps, nodes, agents and V1 builders, any limits and any windows.

`BuildClusterProofs`
* `TypeCorrect`: `TypeOK` is inductive by itself.
* `SlotsMatch`: `SlotsMatchTasks` is inductive relative to `TypeOK`. Its third conjunct is what the
  first says, for a cancelled task: a cancellation raises the attempt in the step that releases the
  slot, so the slot of the attempt it interrupted must be gone. The lemmas classify what a step does to a row
  and to the slots (`FewerSlots`, `RowUnchanged`), one step per action.
* `FinishedStaysFinished`, `AttemptsAreFences`: action properties from `TypeOK`: an ended task is
  not claimable, nobody owns it, and every guard that changes a row asks for one of the two.
* `ClusterImplementsLifecycle`: the refinement. It uses `OnlyRunningLeased` (a lease in the future
  belongs to a running task): a lease that passes then always takes its task from held to lapsed. Each handler maps to the
  step of the same name or to a stutter; a claim of any of the three kinds is `GrantTo`.
* `ClusterImplementsNodes`: `Spec => NodeSpec`; the other handlers leave the nodes alone. `IsolationIsKept` is proved of
  `NodeSpec` and holds in the cluster by this refinement.
* `ClusterImplementsQuota`: `BuildCluster` says when a reservation is made, confirmed, released or refunded, and
  `QuotaReservation` what that counts and when it is allowed. Each tenant's `resv`, `ledger` and
  `subscribed` take only steps of the latter (`BillStepImplementsQuota`), with no limit and at one tick of one period,
  since the cluster leaves limit, clock and periods out. It needs
  `LedgersFit`: a released reservation and a refund belong to ended tasks only.
* `NodeLimitHolds`, `AppLimitHolds`, `EntitlementLimitHolds`: with any mix of builders.
  `PoolLimitHolds`, `PolicyLimitHolds`: when there are no agents. The argument: slots are finite
  (`SlotsStayFinite`); a step keeps slots, takes some away or is an admitted claim (`SlotStep`);
  a claim adds one row after counting (`Admitted`); a part of the slots that is below
  its limit before it gains one row is within it after (`StaysWithin`).
* `ChargesFollowReservations`, `ReservationsAreSettled`, `RefundsAreOfCharges`. A step touches the bill of at most one
  task, in one of eight ways (`BillStep`, `EveryBillStep`); a task whose bill is not touched keeps what was true of it
  (`OtherBillUntouched`). `ChargedWithReservation` alone is not inductive: `ChargeFits` adds what a *running* build owes, and
  that a task not yet created owes nothing. `BillFits` adds that a free retry has no reservation to confirm, that a
  build not yet claimed has no attempt (which tells a first claim from a recovery), and that only an ended build is
  refunded; it holds under `RetriesKeepPrice` and for any subscriptions, expiries and other flags of the plans.

`BuildWorkerProofs`
* `WorkersImplementCluster`: `WorkerSpec => Spec`. Processes that crash, stall, lose calls, get late answers and are shut
  down only send requests that `BuildCluster` allows anyone to send, so all its theorems hold of them
  (`WorkersImplementLifecycle` is one). A step needs its types here: `WorkersTyped`, with `AttemptsInRange`, the bound of the model.
* `CommittedApksSurvive`, `ApkOfLastAttempt`. A build, its call and its APK have the key task and attempt. The
  invariant: a key in use was granted (`KeysGranted`); it has one build (`OneBuildPerKey`) and one call, whose build
  waits for the answer (`OneCallPerKey`); what a build reports or is about to report is stored (`UploadsStored`); and the key
  a task points at is its last, is stored, and is held by no build or call (`ArtifactsSettled`), so nobody is left who could
  delete it. The last part is what `ArtifactsSurvive` lacks: the step that commits an APK ends build and call with it.
* `OneBuildHasTheTask`: of the builds of a task that may run in several processes, `Owns` lets one through at most.
* `SlotsAreReturned`: an entry of `active` always has a build, on every path by which a build ends.
* `RunningWithinLimits`: a process may run a build whose task was given away, so running builds have no bound; those
  whose heartbeats are answered map one to one to slots (`RenewedHaveSlots`), and keep the limits of slots.

`QuotaReservationProofs`
* `QuotaTypeCorrect`: clock, periods, reservations and charges agree; a key is charged exactly when its reservation is
  confirmed, not ahead of the clock, while no earlier period than its own is current.
* `PeriodsFit`: `EveryPeriodFits`. The bridge from the sums the code reads to the sets the property counts is a lemma:
  what was made in the current period is reserved in its month, or was charged within it, or was charged outside it
  while it was current, so it numbers at most `Taken` plus the refunds plus `Unsummed` (`SnapshotCovers`). A reservation
  that is admitted under the lock adds one to the left only where there is room; one from an early snapshot adds itself
  to the right (`ReservationFits`). The other steps add nothing to the left and take nothing from the right
  (`NothingMade`): periods keep their dates once they began, and none that has not begun has anything (`PeriodBounds`).

`WebhookDeliveryProofs`
* `WebhookTypeCorrect`; `AttemptsStayBounded`, whose strengthening `TriesLeft` says that a delivery that is due has
  an attempt left under a maximum it was claimed under, but for the lost ones (the maximum of the claim judges it, not the
  one the endpoint has by then); `EventsFollow`; `WorkersImplementReliableDelivery`, which needs
  `AnswersReceived`: a worker holds a good answer only of a delivery the endpoint has received.

`StorageObjectsProofs`, `BuildCacheProofs`
* `StorageTypeCorrect`; `StoredStaysCharged`, with `VerifiedCharged`: what a cached row, a binder or a request
  takes for verified was charged; `SweepsSpare`, with `SweepsOnlyFailed`: unless the gateway gave the object up,
  cleanup loops are at failed and deleted rows only, and whoever takes an object for verified is right.
* `EntriesHaveObjects`, `HitObjectsStay`: one inductive invariant. Its core is `Unshared`: what a
  builder is about to publish has no row yet, is in the bucket and is no other builder's, and what cleanup is at
  is failed or deleted.
* `CacheBuildsFollowLifecycle`: the builds of this module are reduced to what the cache sees; they take only steps that
  `BuildLifecycle` allows, the contract the cluster implements. Submission and withdrawal are what the reduction leaves out.

`SourceTriggersProofs`
* `SourceTypeCorrect`, `ImportsAndBuildsOnce` (the two unique keys, written by one transaction each), and
  `EventsSettleRight`, from `WorkFollows`: a worker that creates builds has its artifact imported under the
  event's code, and the channels it ticked off have their builds, because nothing of that is ever undone.

`LocalAgentsProofs`
* `AgentsTypeCorrect`: `AgentsTypeOK` is not inductive. It lacks that every request was signed with a certificate of
  its agent (`RequestsOK`), without which a handler could act on an unregistered one.
* `RequestsAcceptedOnce` (accepted requests are not newer than the row's last one), `CertificatesStayUnique`,
  `DrainsRespected` (`ClaimsBeforeCutoff` extends the property to handlers that have read the row and not yet
  acted), `RevocationIsFinal`.
* `BuildsKeepReporting`: a certificate is rotated only after a request for it (`RotatedOnRequest`), and every rotation the
  process ever requested is older than the claims of its running builds (`BuildsAreNewest`), as it requests none while a
  build runs and a build begins only with the answer to the request sent last.

All of them hold for any number of events, endpoints, workers, objects, tasks, channels, agents and requests, any
attempt limits, and any number of faults.

Model-checked only: liveness (`EveryBuildEnds`, `FencedBuildsStop`, `EveryEventSettles`,
`FailedIsReclaimed`, `DrainsFinish`), which the prover does not reach, nor `ENABLED`. Every other property that
passes is a theorem. `NoStarvation` is refuted. No module uses a RECURSIVE operator.

## 6. Where code and documents differ, and what a maintainer should know

The modules have the behaviours below. The first violates `NoStarvation`. The others violate no checked property:
where one comes near a property, section 4 names the assumption or the property has the exception.

Builds and scheduling
* A task whose reservation expired after seven days in the queue makes `confirmQuotaInSession` abort the claim
  instead of skipping the task (`buildclusterservice.go:756`, `billing_quota_service.go:597`); every later claim picks it
  again, so whoever waits behind it is never served (V4, line 146: ordinary tenants are not starved for ever). Only a
  cancellation by the user ends it. `cluster_fair` shows the behaviour.
* V6, line 96, lets builds that have begun finish after their tenant's subscription was paused. A cloud build that
  completes then is refused, because its APK reserves storage (`taskworker.go:144`); the worker takes the refusal for
  the loss of its task and deletes the APK. An agent's build is refused only when it registers an object.
* `claimLocalAgentBuildTask` counts the tenant's entitlement, the agent and the app, neither the pool nor the
  tenant row of `t_build_concurrency_policy`, while its slots count there: an agent's claim may exceed both.
  V4 (implementation, line 145) says the limits of tenant, application and pool all prevent excess execution.
* After the two minutes of a shutdown `cancelWork` cancels the builds, and `fail()` reports each of them FAILED
  through a context that ignores the cancellation; V4, line 108, lets the lease recover them.
* A signal during the wait for the next poll makes `Run` return without drain or wait
  (`ExitWhilePolling`); V4 7 asks for both.
* A tenant that may not consume keeps its place at the head of the fair queue, because only a dispatch
  raises `virtual_finish`; 64 of them fill the LIMIT and hide everyone behind.
* `active` is keyed by task id. A process that gets its own lapsed task again shares the entry between two
  goroutines; the first to return deletes it, and the process starts more builds than it has slots. The limits
  still hold of the builds that own their task (`RunningWithinLimits`).
* Complete and fail of a build are refused while a stale row of the cache says so, until it expires.
* `registerBuilderNode` stores a low disk reading without judging it; the node claims until its next
  heartbeat.

Quota
* A STRIPE or MANUAL subscription in grace keeps the period that ended (`billing_worker.go:97`) and still admits builds.
  Their charges are dated after its end, where no sum sees them, and confirming takes their reservations out of the sums
  too: while grace lasts, a quota that is reached by reservations is free again after each claim (V6, 11.2, line 160, and
  5.3). `EveryPeriodFits` counts these builds apart; nothing bounds them.
* `quotaSnapshot` counts reservations of the current period only: one made before the rollover is charged in
  the new period beside its full quota (V6, line 160: nothing is oversold). `EveryPeriodFits` bounds by how much.
* `retryBuildTask` takes its quota sums from a snapshot older than the lock, so a reservation committed
  while it waited is not counted (the keys in `Stale`).

Storage and cache
* `CleanupFailedUpload` deletes the object before `FailStorageObject` refuses a BOUND row
  (`storage_helper.go:426`; V1, line 156); `givenUp` is that exception of `SweepsSpareCompleted`.
* A PUT that ends after the sweep of its row leaves an object without a row; so does an APK whose completion was
  not answered. An object that fails after it was READY stays charged.
* Objects of invalidated or replaced cache entries are never reclaimed while a build refers to the entry, even one that
  used another object.
* `cache_hit` is not reset by a claim: a build whose confirmation reply was lost counts as a hit and is not charged as
  a build (V6, line 166).

Webhooks and source events
* A delivery is claimed without a look at its maximum: a worker that dies in the last attempt gets it tried
  once more (V5, line 96). `AttemptsBounded` counts these.
* A lowered `max_attempts` may be below the attempts a delivery has: it is claimed once more and then given up. A
  worker settles by the maximum of its claim, so one that held its claim over an edit judges by the old maximum.
* Events that wait at the same time have the same version code; the first import takes it, the others end dead.
  `core.sql:736` calls the code atomically allocated when the event is enqueued; only the import makes it unique.
* Completion and failure are fenced by the status of the event alone.

Local agents
* A registration or rotation whose reply is lost locks the agent out: the token is used, the old certificate
  rotated, the new key never written (V7, lines 52 and 174).
* A rotation the process gave up on may commit under a build claimed later: the exception of `BuildsCanReport`.
* A drained agent may get a slot from a claim it had sent before: the copy of the row decides. A rotation after a
  revocation leaves an active certificate on a revoked agent, which authenticates nothing.

## 7. Not modelled

Concurrency policies that change while builds run, `last_dispatched_at` as a tie break, the
scheduler's event log, several pools at once, the contents of APKs and logs, tools and file formats,
preflights, `team.seats` (it goes through the functions of `QuotaReservation`), the signature and the secrets of a
webhook request, OAuth and repositories of source integrations, tenants' and users' administration of agents.
Open API idempotency, the rest of subscriptions and payments, air-gapped packages, white label and preflight are
planned in section 2. Administrative CRUD, counters,
routing and clients are left out for good: they have no interaction between actors. Most of the lines of the
repository are of that kind: generated protocol and model code, routing, pages and clients, administration.
