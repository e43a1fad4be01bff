---------------------------- MODULE BuildCluster ----------------------------
(***************************************************************************)
(* The core service's view of the build cluster: t_build_task,             *)
(* t_build_slot_lease, t_build_fair_queue, the build.count reservations    *)
(* and the usage ledger rows of builds, for one build pool.                *)
(*                                                                         *)
(* Every RPC handler is one database transaction, hence one action that    *)
(* either takes effect as a whole or leaves everything unchanged.          *)
(* Requests of builders are adversarial here: any (task, builder, attempt) *)
(* may arrive at any time, late, twice or after a crash.  Module           *)
(* BuildWorker puts real workers in front of these handlers.               *)
(*                                                                         *)
(* Time is abstract.  A lease is either in the future or past; leases of   *)
(* the task row (DATETIME, rounded to a second) and of the slot row        *)
(* (DATETIME(3)) pass independently.  A renewal only keeps a lease in the  *)
(* future, so it changes nothing here.  A slot row that is released,       *)
(* cancelled, expired or past its lease is never read again by the         *)
(* scheduler: slots holds the rows that still count.                       *)
(***************************************************************************)
EXTENDS BuilderNode, FiniteSets

CONSTANTS
    Task,               \* auto-increment ids, positive
    Tenant, TenantOf, App, AppOf, Priority,
    RemoteSigned,       \* tasks whose signing config names a remote signer
    Signer,             \* nodes with the remoteSigning capability
    Agent, AgentTenant, AgentApps,  \* local agents: "local-<id>" builders
    Legacy,             \* builders that still call the V1 ClaimBuildTask
    PoolMax, TenantPolicyMax, AppMax, NodeMax,  \* t_build_concurrency_policy, max_concurrency
    EntitlementMax,     \* MaxBuildConcurrency of the tenant's entitlement, -1 unlimited
    FairCost,           \* max(1, 100000 / fair_weight)
    TenantWindow, TaskWindow, AgentWindow,  \* LIMIT 64, 32 and 8 of the queue reads
    Phase,              \* BUILDING, SIGNING, UPLOADING: only the worker tells them apart
    InitialPlan,        \* charge_* flags of the entitlement
    MaxAttempt,         \* bound: the lease of this attempt does not pass
    MaxBillingEvents    \* bound on plan changes, pauses and expired reservations

Builder == Node \cup Agent \cup Legacy
NoBuilder == "none"
NoTask == 0
Terminal == {"success", "failed", "cancelled"}
TaskStatus == {"none", "pending"} \cup Phase \cup Terminal
Plan == [chargeRetry : BOOLEAN, chargeFailed : BOOLEAN, chargeCacheHit : BOOLEAN]
Reservation == {"none", "reserved", "confirmed", "released", "expired"}
\* Ledger rows of one task, by idempotency key.  A refund is build.started -1.
Entry == {"started", "succeeded", "refund"}

ASSUME TasksAssumption == Task \subseteq Nat \ {0}
ASSUME TenantsAssumption == TenantOf \in [Task -> Tenant] /\ AppOf \in [Task -> App]
ASSUME BuildersAssumption == NoBuilder \notin Builder
ASSUME AgentsAssumption == AgentTenant \in [Agent -> Tenant] /\ AgentApps \in [Agent -> SUBSET App]
ASSUME LimitsAssumption ==
    /\ PoolMax \in Nat /\ AppMax \in [App -> Nat] /\ NodeMax \in [Builder -> Nat]
    /\ TenantPolicyMax \in [Tenant -> Nat] /\ EntitlementMax \in [Tenant -> Int]
ASSUME QueueAssumption ==
    /\ Priority \in [Task -> Nat] /\ FairCost \in [Tenant -> Nat \ {0}]
    /\ {TenantWindow, TaskWindow, AgentWindow} \subseteq Nat \ {0}
ASSUME PhaseAssumption ==
    "building" \in Phase /\ Phase \cap {"none", "pending", "success", "failed", "cancelled"} = {}
ASSUME BoundsAssumption == MaxAttempt \in Nat \ {0} /\ MaxBillingEvents \in Nat /\ InitialPlan \in Plan

VARIABLES
    status, attempt, builder,   \* columns of t_build_task
    leased,                     \* lease_until of the task is in the future
    retryOf,                    \* retry_of_task_id
    slots,                      \* ACTIVE slot rows with lease_until in the future
    resv,                       \* the build:<id> reservation of build.count
    ledger,                     \* rows <<task, entry>> of t_usage_ledger
    virtualFinish,              \* t_build_fair_queue.virtual_finish
    subscribed,                 \* subscription and entitlement allow consumption
    plan,                       \* current charge_* flags
    billingEvents

taskVars == <<status, attempt, builder, leased, retryOf>>
billVars == <<resv, ledger>>
envVars == <<subscribed, plan, billingEvents>>
clusterVars == <<taskVars, slots, billVars, virtualFinish, envVars>>
vars == <<nodeVars, clusterVars>>

Slot == [task : Task, attempt : Nat, node : Builder]

TypeOK ==
    /\ NodeTypeOK
    /\ status \in [Task -> TaskStatus]
    /\ attempt \in [Task -> Nat]
    /\ builder \in [Task -> Builder \cup {NoBuilder}]
    /\ leased \in [Task -> BOOLEAN]
    /\ retryOf \in [Task -> Task \cup {NoTask}]
    /\ slots \in SUBSET Slot
    /\ resv \in [Task -> Reservation]
    /\ ledger \in SUBSET (Task \X Entry)
    /\ virtualFinish \in [Tenant -> Nat]
    /\ subscribed \in [Tenant -> BOOLEAN]
    /\ plan \in Plan
    /\ billingEvents \in 0..MaxBillingEvents

Init ==
    /\ NodeInit
    /\ status = [t \in Task |-> "none"]
    /\ attempt = [t \in Task |-> 0]
    /\ builder = [t \in Task |-> NoBuilder]
    /\ leased = [t \in Task |-> FALSE]
    /\ retryOf = [t \in Task |-> NoTask]
    /\ slots = {}
    /\ resv = [t \in Task |-> "none"]
    /\ ledger = {}
    /\ virtualFinish = [x \in Tenant |-> 0]
    /\ subscribed = [x \in Tenant |-> TRUE]
    /\ plan = InitialPlan
    /\ billingEvents = 0

-----------------------------------------------------------------------------
(* What the queries of the handlers read. *)

Running(t) == status[t] \in Phase

\* Mutant: the lease is looked at without the status.
ClaimableWithoutStatus(t) == status[t] # "none" /\ ~leased[t]

\* Mutant: a lapsed lease does not bring the task back.
ClaimableOnce(t) == status[t] = "pending"

\* status = PENDING, or running with a lease that is NULL or past
Claimable(t) == status[t] = "pending" \/ (Running(t) /\ ~leased[t])

\* Mutants: the clause without lease_until, and without builder_attempt.
OwnsWithoutLease(b, t, a) == Running(t) /\ builder[t] = b /\ attempt[t] = a
OwnsWithoutAttempt(b, t, a) == Running(t) /\ builder[t] = b /\ leased[t]

\* The WHERE clause every write of a builder carries
Owns(b, t, a) == Running(t) /\ builder[t] = b /\ attempt[t] = a /\ leased[t]

SlotOf(t, a) == {s \in slots : s.task = t /\ s.attempt = a}

\* Mutants: slots are counted by the lease of their task.
PoolCountOfTasks == Cardinality({s \in slots : leased[s.task]})
TenantCountOfTasks(x) == Cardinality({s \in slots : TenantOf[s.task] = x /\ leased[s.task]})

\* activeSlotCount with its three filters, and the per-node count
PoolCount == Cardinality(slots)
TenantCount(x) == Cardinality({s \in slots : TenantOf[s.task] = x})
AppCount(p) == Cardinality({s \in slots : AppOf[s.task] = p})
NodeCount(b) == Cardinality({s \in slots : s.node = b})

\* MaxBuildConcurrency 0 blocks, a positive one caps the tenant policy
TenantLimit(x) ==
    IF EntitlementMax[x] >= 0 /\ EntitlementMax[x] < TenantPolicyMax[x]
    THEN EntitlementMax[x] ELSE TenantPolicyMax[x]

\* ORDER BY priority DESC, queued_at ASC, id ASC
Before(t, u) == Priority[t] > Priority[u] \/ (Priority[t] = Priority[u] /\ t < u)
FirstOf(S) == {t \in S : \A u \in S \ {t} : Before(t, u)}
Head(S, n) == {t \in S : Cardinality({u \in S : Before(u, t)}) < n}

Backlog(x) == {t \in Task : TenantOf[t] = x /\ Claimable(t)}

\* ORDER BY virtual_finish LIMIT 64; ties (last_dispatched_at, id) go either way
QueueHead ==
    LET waiting == {x \in Tenant : Backlog(x) # {}}
    IN  {x \in waiting :
            Cardinality({y \in waiting : virtualFinish[y] < virtualFinish[x]}) < TenantWindow}

Candidates(n, x) ==
    {t \in Head(Backlog(x), TaskWindow) :
        /\ t \in RemoteSigned => n \in Signer
        /\ AppCount(AppOf[t]) < AppMax[AppOf[t]]}

Servable(n) ==
    {x \in QueueHead :
        /\ subscribed[x]
        /\ TenantCount(x) < TenantLimit(x)
        /\ Candidates(n, x) # {}}

-----------------------------------------------------------------------------
(* build.count: reserveQuotaInSession, confirmQuotaInSession,              *)
(* releaseQuotaInSession.  How much of the limit is left belongs to module *)
(* QuotaReservation; here a reservation is only held, used or gone.        *)

Uncharged(t) == retryOf[t] # NoTask /\ ~plan.chargeRetry

\* Mutants: a status of another table is written; a reservation that is gone
\* is ignored.
ConfirmQuotaBadStatus(t) ==
    /\ resv' = [resv EXCEPT ![t] = "success"]
    /\ ledger' = ledger \cup {<<t, "started">>}
ConfirmQuotaLenient(t) ==
    IF Uncharged(t) \/ resv[t] \notin {"reserved", "confirmed"} THEN UNCHANGED billVars
    ELSE /\ resv' = [resv EXCEPT ![t] = "confirmed"]
         /\ ledger' = ledger \cup {<<t, "started">>}

\* Confirming twice is a no-op; a reservation that is missing, released or
\* expired fails the whole transaction.
ConfirmQuota(t) ==
    IF Uncharged(t) THEN UNCHANGED billVars
    ELSE /\ resv[t] \in {"reserved", "confirmed"}
         /\ resv' = [resv EXCEPT ![t] = "confirmed"]
         /\ ledger' = ledger \cup {<<t, "started">>}

\* Mutant: the reservation of a cancelled task stays.
KeepQuota(t) == resv' = resv

\* Releasing what was never reserved, or is gone, changes nothing.
ReleaseQuota(t) ==
    /\ resv[t] # "confirmed"
    /\ resv' = IF resv[t] = "reserved" THEN [resv EXCEPT ![t] = "released"] ELSE resv

-----------------------------------------------------------------------------
(* Handlers *)

\* Ids are handed out in increasing order.
NextId(t) == status[t] = "none" /\ \A u \in Task : u < t => status[u] # "none"

CreateBuildTask(t) ==
    /\ NextId(t)
    /\ subscribed[TenantOf[t]]
    /\ status' = [status EXCEPT ![t] = "pending"]
    /\ resv' = [resv EXCEPT ![t] = "reserved"]
    /\ UNCHANGED <<nodeVars, attempt, builder, leased, retryOf, slots, ledger, virtualFinish, envVars>>

RetryBuildTask(t, source) ==
    /\ NextId(t)
    /\ status[source] \in {"failed", "cancelled"}
    /\ TenantOf[t] = TenantOf[source] /\ AppOf[t] = AppOf[source]
    /\ (t \in RemoteSigned) = (source \in RemoteSigned)
    /\ status' = [status EXCEPT ![t] = "pending"]
    /\ retryOf' = [retryOf EXCEPT ![t] = source]
    /\ IF plan.chargeRetry
       THEN subscribed[TenantOf[t]] /\ resv' = [resv EXCEPT ![t] = "reserved"]
       ELSE UNCHANGED resv
    /\ UNCHANGED <<nodeVars, attempt, builder, leased, slots, ledger, virtualFinish, envVars>>

\* Mutant: a recovered task keeps its attempt.
GrantSameAttempt(t, b) ==
    /\ status' = [status EXCEPT ![t] = "building"]
    /\ attempt' = [attempt EXCEPT ![t] = IF @ = 0 THEN 1 ELSE @]
    /\ builder' = [builder EXCEPT ![t] = b]
    /\ leased' = [leased EXCEPT ![t] = TRUE]
    /\ slots' = slots \cup {[task |-> t, attempt |-> attempt'[t], node |-> b]}
    /\ ConfirmQuota(t)

\* The writes both claims share: CAS on builder_attempt, slot row, charge.
Grant(t, b) ==
    /\ status' = [status EXCEPT ![t] = "building"]
    /\ attempt' = [attempt EXCEPT ![t] = @ + 1]
    /\ builder' = [builder EXCEPT ![t] = b]
    /\ leased' = [leased EXCEPT ![t] = TRUE]
    /\ slots' = slots \cup {[task |-> t, attempt |-> attempt[t] + 1, node |-> b]}
    /\ ConfirmQuota(t)

(***************************************************************************)
(* claimScheduledTask.  The sweep of expired slots scans the whole slot    *)
(* table under exclusive locks before the first consistent read, so two    *)
(* claims are serialised and the counts are current.                       *)
(***************************************************************************)
ClaimScheduledBuildTask(n) ==
    /\ MayClaim(n)
    /\ NodeCount(n) < NodeMax[n]
    /\ PoolCount < PoolMax
    /\ \E x \in Servable(n) :
        /\ \A y \in Servable(n) : virtualFinish[x] <= virtualFinish[y]
        /\ \E t \in FirstOf(Candidates(n, x)) : Grant(t, n)
        /\ virtualFinish' = [virtualFinish EXCEPT ![x] = @ + FairCost[x]]
    /\ UNCHANGED <<nodeVars, retryOf, envVars>>

(***************************************************************************)
(* claimLocalAgentBuildTask.  The agent's status was read in an earlier    *)
(* transaction (authenticateLocalAgent) and is not read again, so it does  *)
(* not guard the claim.                                                    *)
(***************************************************************************)
AgentHead(b) ==
    Head({t \in Backlog(AgentTenant[b]) : AppOf[t] \in AgentApps[b]}, AgentWindow)

ClaimLocalAgentBuildTask(b) ==
    LET x == AgentTenant[b]
    IN  /\ subscribed[x]
        /\ EntitlementMax[x] >= 0 => TenantCount(x) < EntitlementMax[x]
        /\ NodeCount(b) < NodeMax[b]
        /\ \E t \in FirstOf({u \in AgentHead(b) : AppCount(AppOf[u]) < AppMax[AppOf[u]]}) :
                Grant(t, b)
        /\ UNCHANGED <<nodeVars, retryOf, virtualFinish, envVars>>

\* claimTask, kept for V1 builders: highest priority of all tenants, no node,
\* limit, subscription or quota check, and no slot row.
ClaimBuildTask(b) ==
    /\ \E t \in FirstOf({u \in Task : Claimable(u)}) :
        /\ status' = [status EXCEPT ![t] = "building"]
        /\ attempt' = [attempt EXCEPT ![t] = @ + 1]
        /\ builder' = [builder EXCEPT ![t] = b]
        /\ leased' = [leased EXCEPT ![t] = TRUE]
    /\ UNCHANGED <<nodeVars, retryOf, slots, billVars, virtualFinish, envVars>>

\* HeartbeatBuildTask succeeds iff both leases are still held, and changes
\* nothing that is visible here.
Renews(b, t, a) == Owns(b, t, a) /\ \E s \in SlotOf(t, a) : s.node = b

ReportBuildProgress(b, t, a, phase) ==
    /\ Owns(b, t, a)
    /\ status' = [status EXCEPT ![t] = phase]
    /\ UNCHANGED <<nodeVars, attempt, builder, leased, retryOf, slots, billVars, virtualFinish, envVars>>

\* Mutant: the slot is left to its lease.
FinishKeepsSlot(t, a, outcome, entries) ==
    /\ status' = [status EXCEPT ![t] = outcome]
    /\ leased' = [leased EXCEPT ![t] = FALSE]
    /\ ledger' = ledger \cup ({t} \X entries)
    /\ UNCHANGED <<nodeVars, attempt, builder, retryOf, slots, resv, virtualFinish, envVars>>

\* The writes CompleteBuildTask and FailBuildTask share.
Finish(t, a, outcome, entries) ==
    /\ status' = [status EXCEPT ![t] = outcome]
    /\ leased' = [leased EXCEPT ![t] = FALSE]
    /\ slots' = slots \ SlotOf(t, a)
    /\ ledger' = ledger \cup ({t} \X entries)
    /\ UNCHANGED <<nodeVars, attempt, builder, retryOf, resv, virtualFinish, envVars>>

\* What a build is not charged for after all.
Refund(t, charged) == IF ~charged /\ ~Uncharged(t) THEN {"refund"} ELSE {}

\* Mutant: every failed build is refunded.
FailsAndRefunds(b, t, a) ==
    Owns(b, t, a) /\ Finish(t, a, "failed", IF ~plan.chargeFailed THEN {"refund"} ELSE {})

\* What the two ways of completing, and of failing, share.
Succeeds(b, t, a, cacheHit) ==
    /\ Owns(b, t, a)
    /\ Finish(t, a, "success", {"succeeded"} \cup Refund(t, ~cacheHit \/ plan.chargeCacheHit))

Fails(b, t, a) == Owns(b, t, a) /\ Finish(t, a, "failed", Refund(t, plan.chargeFailed))

\* Binding the artifact reserves storage, which an inactive subscription refuses.
CompleteBuildTask(b, t, a, cacheHit) == Succeeds(b, t, a, cacheHit) /\ subscribed[TenantOf[t]]

FailBuildTask(b, t, a, withLog) == Fails(b, t, a) /\ (withLog => subscribed[TenantOf[t]])

(***************************************************************************)
(* The transactions of local agents.  upsertHybridArtifact binds an object *)
(* that is in the store already: one of the control plane, or of the       *)
(* customer's storage that was verified before.  Only one it has to        *)
(* register reserves storage.                                              *)
(***************************************************************************)
CompleteLocalAgentBuildTask(b, t, a, cacheHit, registers) ==
    Succeeds(b, t, a, cacheHit) /\ (registers => subscribed[TenantOf[t]])

FailLocalAgentBuildTask(b, t, a, registers) ==
    Fails(b, t, a) /\ (registers => subscribed[TenantOf[t]])

\* The attempt is bumped so that whoever still holds the old one is fenced off.
CancelBuildTask(t) ==
    /\ status[t] \in {"pending"} \cup Phase
    /\ IF attempt[t] = 0 THEN ReleaseQuota(t) ELSE UNCHANGED resv
    /\ status' = [status EXCEPT ![t] = "cancelled"]
    /\ leased' = [leased EXCEPT ![t] = FALSE]
    /\ attempt' = [attempt EXCEPT ![t] = @ + 1]
    /\ slots' = slots \ SlotOf(t, attempt[t])
    /\ UNCHANGED <<nodeVars, builder, retryOf, ledger, virtualFinish, envVars>>

-----------------------------------------------------------------------------
(* Time and billing *)

TaskLeasePasses(t) ==
    /\ leased[t] /\ attempt[t] < MaxAttempt
    /\ leased' = [leased EXCEPT ![t] = FALSE]
    /\ UNCHANGED <<nodeVars, status, attempt, builder, retryOf, slots, billVars, virtualFinish, envVars>>

SlotLeasePasses(s) ==
    /\ slots' = slots \ {s}
    /\ UNCHANGED <<nodeVars, taskVars, billVars, virtualFinish, envVars>>

BillingEvent == billingEvents < MaxBillingEvents /\ billingEvents' = billingEvents + 1

\* expires_at (7 days) passes on a reservation nobody confirmed.
ReservationExpires(t) ==
    /\ resv[t] = "reserved"
    /\ BillingEvent
    /\ resv' = [resv EXCEPT ![t] = "expired"]
    /\ UNCHANGED <<nodeVars, taskVars, slots, ledger, virtualFinish, subscribed, plan>>

\* Payments, the billing worker and administrators pause and resume tenants
\* and replace the entitlement.
ChangeSubscription(x) ==
    /\ BillingEvent
    /\ subscribed' = [subscribed EXCEPT ![x] = ~@]
    /\ UNCHANGED <<nodeVars, taskVars, slots, billVars, virtualFinish, plan>>

ChangePlan ==
    /\ BillingEvent
    /\ plan' \in Plan \ {plan}
    /\ UNCHANGED <<nodeVars, taskVars, slots, billVars, virtualFinish, subscribed>>

-----------------------------------------------------------------------------
Requests ==
    \/ \E t \in Task : CreateBuildTask(t) \/ CancelBuildTask(t)
    \/ \E t, source \in Task : RetryBuildTask(t, source)
    \/ \E n \in Node : ClaimScheduledBuildTask(n)
    \/ \E b \in Agent : ClaimLocalAgentBuildTask(b)
    \/ \E b \in Legacy : ClaimBuildTask(b)

BuilderRequests ==
    \E t \in Task, a \in 1..MaxAttempt :
        \/ \E b \in Builder, phase \in Phase : ReportBuildProgress(b, t, a, phase)
        \/ \E b \in Node \cup Legacy, flag \in BOOLEAN :
                CompleteBuildTask(b, t, a, flag) \/ FailBuildTask(b, t, a, flag)
        \/ \E b \in Agent, registers \in BOOLEAN :
            \/ \E cacheHit \in BOOLEAN : CompleteLocalAgentBuildTask(b, t, a, cacheHit, registers)
            \/ FailLocalAgentBuildTask(b, t, a, registers)

Environment ==
    \/ \E t \in Task : TaskLeasePasses(t) \/ ReservationExpires(t)
    \/ \E s \in slots : SlotLeasePasses(s)
    \/ \E x \in Tenant : ChangeSubscription(x)
    \/ ChangePlan

Next ==
    \/ Requests
    \/ BuilderRequests
    \/ Environment
    \/ NodeNext /\ UNCHANGED clusterVars

Spec == Init /\ [][Next]_vars

(***************************************************************************)
(* What goes on by itself: nodes register and keep polling, time passes,   *)
(* and the holder of a lease finishes its build sooner or later.  Requests *)
(* of users and billing events are not fair.                               *)
(***************************************************************************)
Finishes(t) ==
    \E a \in 1..MaxAttempt :
        \/ \E b \in Node \cup Legacy : CompleteBuildTask(b, t, a, FALSE)
        \/ \E b \in Agent : CompleteLocalAgentBuildTask(b, t, a, FALSE, FALSE)

Fairness ==
    /\ \A n \in Node :
        /\ WF_vars(RegisterBuilderNode(n, FALSE) /\ UNCHANGED clusterVars)
        /\ WF_vars(ClaimScheduledBuildTask(n))
    /\ \A t \in Task : WF_vars(Finishes(t))
    /\ WF_vars(\E s \in slots : SlotLeasePasses(s))

FairSpec == Spec /\ Fairness

-----------------------------------------------------------------------------
(* Properties *)

\* A counted slot of the current attempt belongs to a running task and to
\* its builder; no row is of an attempt that was never granted; and a task
\* has one row per attempt.  This is what the concurrency limits count, and
\* it needs complete, fail and cancel to release in the same transaction
\* (V4 specification, section 3.2).
SlotsMatchTasks ==
    /\ \A s \in slots :
        /\ s.attempt \in 1..attempt[s.task]
        /\ s.attempt = attempt[s.task] => Running(s.task) /\ builder[s.task] = s.node
        /\ status[s.task] = "cancelled" => s.attempt < attempt[s.task] - 1
    /\ \A r, s \in slots : r.task = s.task /\ r.attempt = s.attempt => r = s

\* A task that ended is never reopened, retried in place, re-attempted or
\* handed to another builder: its row is final.
FinishedIsFinal ==
    [][\A t \in Task : status[t] \in Terminal =>
          /\ status'[t] = status[t]
          /\ attempt'[t] = attempt[t]
          /\ builder'[t] = builder[t]]_vars

\* An attempt number is a fencing token: it never goes back, and a builder
\* never changes under an unchanged attempt, so a worker that lost its lease
\* can never satisfy the owner clause again (V4 specification 11.1, 11.5).
AttemptsFence ==
    [][\A t \in Task :
          /\ attempt'[t] \in {attempt[t], attempt[t] + 1}
          /\ attempt'[t] = attempt[t] => builder'[t] = builder[t]
          /\ ~leased[t] /\ leased'[t] => attempt'[t] = attempt[t] + 1]_vars

\* What BuildLifecycle calls the state of a task.
LifecycleState(t) ==
    IF Running(t) THEN IF leased[t] THEN "held" ELSE "lapsed"
    ELSE IF status[t] = "pending" THEN "queued" ELSE status[t]

Lifecycle ==
    INSTANCE BuildLifecycle WITH
        state <- [t \in Task |-> LifecycleState(t)],
        token <- attempt,
        holder <- builder,
        charged <- {t \in Task : <<t, "started">> \in ledger}

\* The cluster implements the lifecycle, with late, repeated and forged
\* requests, leases that pass at any moment, retries, changing plans and the
\* V1 claims.
ImplementsLifecycle == Lifecycle!LifecycleSpec

\* A builder never holds more live slots than its max_concurrency, although
\* slots outlive the lease of their task and recovered tasks take new ones.
NodeWithinLimit == \A b \in Builder : Cardinality({s \in slots : s.node = b}) <= NodeMax[b]

\* Cloud nodes and local agents together stay within the limit of an app.
AppWithinLimit ==
    \A p \in App : Cardinality({s \in slots : AppOf[s.task] = p}) <= AppMax[p]

\* Cloud nodes and local agents together stay within what the tenant paid for
\* (V6 specification 11.2); -1 is unlimited.
SlotsOfTenant(x) == {s \in slots : TenantOf[s.task] = x}
EntitlementWithinLimit ==
    \A x \in Tenant : EntitlementMax[x] >= 0 => Cardinality(SlotsOfTenant(x)) <= EntitlementMax[x]

\* The pool never runs more builds than its global limit (V4 specification 11.2).
PoolWithinLimit == Cardinality(slots) <= PoolMax

\* No tenant runs more builds than its concurrency policy allows (V4
\* specification 11.2).
TenantWithinPolicy == \A x \in Tenant : Cardinality(SlotsOfTenant(x)) <= TenantPolicyMax[x]

\* All of them at once, for cloud nodes: concurrent claims, recovered tasks and
\* slots that outlive or are outlived by their task never add up to more builds
\* than the pool, a node, an app or a tenant may run.  The claim of a local
\* agent counts neither the pool nor the tenant policy.
LimitsRespected == PoolWithinLimit /\ NodeWithinLimit /\ AppWithinLimit /\ TenantWithinPolicy

\* The last claim of a task went through the quota; the V1 claim does not.
Metered(t) == builder[t] \notin Legacy

\* build.started is written exactly when the reservation is confirmed, however
\* often the task is recovered, and a metered build only succeeds once it is
\* charged or is a retry, whatever unmetered claims came before.
ChargedWithReservation ==
    \A t \in Task :
        /\ <<t, "started">> \in ledger <=> resv[t] = "confirmed"
        /\ <<t, "succeeded">> \in ledger /\ Metered(t) =>
             retryOf[t] # NoTask \/ <<t, "started">> \in ledger

\* A metered task that ended, or one that ended in the queue, keeps no
\* reservation open against the quota.
NoReservationLeaks ==
    \A t \in Task : status[t] \in Terminal /\ Metered(t) => resv[t] # "reserved"

\* Of the metered builds only those that were charged are refunded (V6
\* specification 11.8).
RefundsWereCharged ==
    \A t \in Task : <<t, "refund">> \in ledger /\ Metered(t) => <<t, "started">> \in ledger

\* What the V4 specification promises ("high priority first, and ordinary tenants
\* are not starved for ever", line 146): a waiting task that is paid for and
\* whose tenant is in good standing is eventually handed to a builder, whatever
\* else is queued.  It is not what the code does once a reservation expired in
\* the queue: the claim that picks that task fails for every node, and it is
\* picked again each time.
Deserving(t) == status[t] = "pending" /\ resv[t] = "reserved" /\ subscribed[TenantOf[t]]

NoStarvation == \A t \in Task : Deserving(t) ~> ~Deserving(t)
=============================================================================
