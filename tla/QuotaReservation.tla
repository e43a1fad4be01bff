-------------------------- MODULE QuotaReservation --------------------------
(***************************************************************************)
(* How much of build.count one tenant has left: t_quota_reservation, the   *)
(* build.started rows of t_usage_ledger, and the subscription whose        *)
(* billing period they are summed over (billing_quota_service.go,          *)
(* billing_worker.go, billing_payment_service.go, billing_plan_service.go). *)
(* BuildCluster says when the operations are called; here is what they     *)
(* count.                                                                  *)
(*                                                                         *)
(* Rows are dated by the clock, and the clock runs past the end of the     *)
(* period: in grace the subscription keeps its period and may still        *)
(* consume, and a period is replaced only by a roll-over, a payment or a   *)
(* contract.                                                               *)
(*                                                                         *)
(* Every transaction locks the subscription row before it writes, so the   *)
(* writes are serial.  The sums of quotaSnapshot are consistent reads: they *)
(* come from the snapshot the transaction opened with its first such read. *)
(* Most transactions open it under the lock.  retryBuildTask (its policy   *)
(* read) and the CreateBuildTask of a source webhook (its deduplication    *)
(* read) open it before they wait for the lock: Stale is the set of their  *)
(* reservation keys.  Quantities are 1, the only value of build.count.     *)
(***************************************************************************)
EXTENDS Integers, FiniteSets

CONSTANTS
    Key,            \* idempotency keys "build:<id>"
    Stale,          \* keys reserved by transactions that read early
    Refundable,     \* keys whose builds may fail or come from the cache
    Limit,          \* quotaLimit: BuildsPerCycle of the entitlement, -1 unlimited
    Cycle,          \* length of a billing cycle, in ticks of the clock
    MonthLength,    \* length of a calendar month, in ticks
    LastTick,       \* bound on the clock
    LastPeriod      \* bound on the billing periods

ASSUME KeysAssumption == IsFiniteSet(Key) /\ Stale \subseteq Key /\ Refundable \subseteq Key
ASSUME LimitAssumption == Limit \in Int /\ Limit >= -1
ASSUME ClockAssumption == {Cycle, MonthLength, LastTick, LastPeriod} \subseteq Nat \ {0}

VARIABLES
    now,            \* billingNow()
    standing,       \* status of the subscription; PAUSED and CANCELED are "inactive"
    source,         \* of the subscription
    period,         \* how many periods it has had (history)
    start, end,     \* CurrentPeriodStart and -End; the row has those of the last period
    resv,           \* status of a reservation
    madeIn,         \* the period a reservation was made in, 0 before it exists
    charged,        \* occurred_at of the build.started row of a key, 0 without one
    chargedIn,      \* the period that was current then (history)
    refunded,       \* occurred_at of the build.started -1 row, 0 without one
    view            \* the snapshot of an early reader that waits for the lock

subscriptionVars == <<standing, source, period, start, end>>
accountVars == <<resv, madeIn, charged, chargedIn, refunded>>
quotaVars == <<now, subscriptionVars, accountVars, view>>

Tick == 1..LastTick
Period == 1..LastPeriod
Status == {"none", "reserved", "confirmed", "released", "expired"}
Source == {"stripe", "manual", "grant"}
Snapshot ==
    [resv : [Key -> Status], madeIn : [Key -> 0..LastPeriod],
     charged : [Key -> 0..LastTick], refunded : [Key -> 0..LastTick]]

QuotaTypeOK ==
    /\ now \in Tick
    /\ standing \in {"active", "grace", "inactive"}
    /\ source \in Source
    /\ period \in Period
    /\ start \in [Period -> Nat] /\ end \in [Period -> Nat]
    /\ resv \in [Key -> Status]
    /\ madeIn \in [Key -> 0..LastPeriod]
    /\ charged \in [Key -> 0..LastTick]
    /\ chargedIn \in [Key -> 0..LastPeriod]
    /\ refunded \in [Key -> 0..LastTick]
    /\ view \in [Stale -> SUBSET Snapshot]
    /\ \A p \in Period : IF p <= period THEN start[p] \in 1..(end[p] - 1) ELSE start[p] = 0 /\ end[p] = 0
    /\ \A k \in Key :
        /\ madeIn[k] <= period
        /\ resv[k] = "none" <=> madeIn[k] = 0
        /\ resv[k] = "confirmed" <=> charged[k] # 0
        /\ IF charged[k] = 0 THEN chargedIn[k] = 0
           ELSE charged[k] <= now /\ chargedIn[k] \in madeIn[k]..period

QuotaInit ==
    /\ now = 1
    /\ standing = "active"
    /\ source \in Source
    /\ period = 1
    /\ start = [p \in Period |-> IF p = 1 THEN 1 ELSE 0]
    /\ end = [p \in Period |-> IF p = 1 THEN 1 + Cycle ELSE 0]
    /\ resv = [k \in Key |-> "none"]
    /\ madeIn = [k \in Key |-> 0]
    /\ charged = [k \in Key |-> 0]
    /\ chargedIn = [k \in Key |-> 0]
    /\ refunded = [k \in Key |-> 0]
    /\ view = [k \in Stale |-> {}]

-----------------------------------------------------------------------------
(* What the queries read. *)

InPeriod(t, p) == start[p] <= t /\ t < end[p]

\* periodKey: the month a period starts in
PeriodKey(p) == start[p] \div MonthLength

\* subscriptionAllowsConsumption.  A grace that ran out is inactive here already:
\* until the billing worker writes that, nothing else tells the two apart.
Consuming ==
    \/ standing = "active" /\ now < end[period]
    \/ standing = "grace"

\* The rows a transaction reads that opens its snapshot now
Committed == [resv |-> resv, madeIn |-> madeIn, charged |-> charged, refunded |-> refunded]

\* usageForQuota: the sum of the rows dated within the period, never negative
Used(s) ==
    LET net == Cardinality({k \in Key : InPeriod(s.charged[k], period)})
                   - Cardinality({k \in Key : InPeriod(s.refunded[k], period)})
    IN  IF net < 0 THEN 0 ELSE net

\* quotaSnapshot: reservations count in the month of the period they were made in
Reserved(s) ==
    Cardinality({k \in Key : s.resv[k] = "reserved" /\ PeriodKey(s.madeIn[k]) = PeriodKey(period)})

\* Mutant: what is held is not counted.
TakenCharged(s) == Used(s)

Taken(s) == Used(s) + Reserved(s)

Fits(taken) == Limit >= 0 => taken + 1 <= Limit

-----------------------------------------------------------------------------
(* Reservations and ledger *)

\* What reserveQuotaInSession asks of subscription and entitlement (valid_from is
\* the start of the period), and of the sums.
Admits(s) == Consuming /\ start[period] <= now /\ Fits(Taken(s))

Insert(k) ==
    /\ resv' = [resv EXCEPT ![k] = "reserved"]
    /\ madeIn' = [madeIn EXCEPT ![k] = period]
    /\ UNCHANGED <<charged, chargedIn, refunded>>

\* reserveQuotaInSession with the snapshot opened under the lock.  A key
\* that exists already is returned as it is: nothing changes.
ReserveQuota(k) ==
    /\ k \notin Stale /\ resv[k] = "none"
    /\ Admits(Committed)
    /\ Insert(k)
    /\ UNCHANGED <<now, subscriptionVars, view>>

\* The first consistent read of a retry or of a webhook's build.
OpenSnapshot(k) ==
    /\ k \in Stale /\ resv[k] = "none" /\ view[k] = {}
    /\ view' = [view EXCEPT ![k] = {Committed}]
    /\ UNCHANGED <<now, subscriptionVars, accountVars>>

\* reserveQuotaInSession, later in that transaction.  The subscription is
\* read under the lock, the sums are not.
ReserveFromSnapshot(k) ==
    /\ k \in Stale /\ resv[k] = "none"
    /\ \E s \in view[k] : IF Admits(s) THEN Insert(k) ELSE UNCHANGED accountVars
    /\ view' = [view EXCEPT ![k] = {}]
    /\ UNCHANGED <<now, subscriptionVars>>

\* Mutant: the ledger row is written, the reservation stays open.
ChargeOnly(k) ==
    /\ Consuming /\ resv[k] = "reserved"
    /\ charged' = [charged EXCEPT ![k] = now]
    /\ chargedIn' = [chargedIn EXCEPT ![k] = period]
    /\ UNCHANGED <<now, subscriptionVars, resv, madeIn, refunded, view>>

\* confirmQuotaInSession: the row is dated now, wherever the period ends.  The
\* claims that call it have checked Consuming.  Confirming again changes nothing.
ConfirmQuota(k) ==
    /\ Consuming /\ resv[k] = "reserved"
    /\ resv' = [resv EXCEPT ![k] = "confirmed"]
    /\ charged' = [charged EXCEPT ![k] = now]
    /\ chargedIn' = [chargedIn EXCEPT ![k] = period]
    /\ UNCHANGED <<now, subscriptionVars, madeIn, refunded, view>>

\* releaseQuotaInSession (a cancelled build), or seven days have passed.
ReleaseQuota(k) ==
    /\ resv[k] = "reserved"
    /\ resv' \in {[resv EXCEPT ![k] = "released"], [resv EXCEPT ![k] = "expired"]}
    /\ UNCHANGED <<now, subscriptionVars, madeIn, charged, chargedIn, refunded, view>>

\* adjustUsageInSession for a failed or cached build; the key makes it once.
\* Nobody looks whether the build was charged (BuildCluster, RefundsWereCharged).
RefundUsage(k) ==
    /\ k \in Refundable
    /\ resv[k] # "released" /\ refunded[k] = 0
    /\ refunded' = [refunded EXCEPT ![k] = now]
    /\ UNCHANGED <<now, subscriptionVars, resv, madeIn, charged, chargedIn, view>>

-----------------------------------------------------------------------------
(* The subscription *)

Stands(s) == standing' = s /\ UNCHANGED <<source, period, start, end>>

\* A new period from b to e, of an active subscription.
Begins(b, e, from) ==
    /\ period < LastPeriod
    /\ period' = period + 1
    /\ start' = [start EXCEPT ![period + 1] = b]
    /\ end' = [end EXCEPT ![period + 1] = e]
    /\ standing' = "active"
    /\ source' = from

\* processSubscription of an active subscription whose period is over: it was
\* cancelled for the end of the period, or a contract has no grace left; a
\* payment or a contract is waited for, in the old period; or a grant rolls over.
PeriodEnds ==
    /\ standing = "active" /\ now >= end[period]
    /\ \/ Stands("inactive")
       \/ source \in {"stripe", "manual"} /\ Stands("grace")
       \/ source = "grant" /\ Begins(end[period], end[period] + Cycle, "grant")

\* grace_until has passed.
GraceEnds == standing = "grace" /\ Stands("inactive")

\* activateStripeSubscription: the event names a cycle that has begun, or one
\* begins now.
StripeActivates == \E b \in 1..now : Begins(b, b + Cycle, "stripe")

\* upsertManualSubscription: a contract has any period.
ManualUpsert == \E b, e \in 1..(LastTick + 1) : b < e /\ Begins(b, e, "manual")

\* invoice.payment_failed
PaymentFails == standing # "grace" /\ Stands("grace")

\* cancelTenantSubscription at once, customer.subscription.deleted
CancelNow == standing # "inactive" /\ Stands("inactive")

\* changeTenantSubscription at once: active in the same period, whatever it was.
ChangeNow == standing # "active" /\ Stands("active")

SubscriptionChanges ==
    /\ \/ PeriodEnds \/ GraceEnds
       \/ StripeActivates \/ ManualUpsert \/ PaymentFails \/ CancelNow \/ ChangeNow
    /\ UNCHANGED <<now, accountVars, view>>

TimePasses ==
    /\ now < LastTick
    /\ now' = now + 1
    /\ UNCHANGED <<subscriptionVars, accountVars, view>>

QuotaNext ==
    \/ \E k \in Key :
        \/ ReserveQuota(k) \/ OpenSnapshot(k) \/ ReserveFromSnapshot(k)
        \/ ConfirmQuota(k) \/ ReleaseQuota(k) \/ RefundUsage(k)
    \/ SubscriptionChanges
    \/ TimePasses

QuotaSpec == QuotaInit /\ [][QuotaNext]_quotaVars

-----------------------------------------------------------------------------
\* "Never oversold under concurrent requests" (V6 specification 11.2), said of
\* the reservations made in a period, whenever they are charged: they exceed
\* its quota by no more than the refunds dated in it, the early readers it had,
\* and the builds claimed under it when it was over (in grace) or had not begun,
\* whose rows usageForQuota does not sum.  Without these three the promise
\* holds, and it needs the lock, the sums, and that no reservation leaves
\* them before its row is in them.
MadeIn(p) == {k \in Key : madeIn[k] = p /\ resv[k] \in {"reserved", "confirmed"}}
RefundedIn(p) == {k \in Key : InPeriod(refunded[k], p)}
EarlyReaders(p) == {k \in Stale : madeIn[k] = p}
Unsummed(p) == {k \in Key : madeIn[k] = p /\ chargedIn[k] = p /\ ~InPeriod(charged[k], p)}

EveryPeriodFits ==
    Limit >= 0 => \A p \in Period :
        Cardinality(MadeIn(p)) <=
            Limit + Cardinality(RefundedIn(p)) + Cardinality(EarlyReaders(p)) + Cardinality(Unsummed(p))
=============================================================================
