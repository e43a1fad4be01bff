----------------------- MODULE QuotaReservationProofs -----------------------
(***************************************************************************)
(* Theorems about QuotaReservation for every set of requests, every quota, *)
(* every length of billing cycles and months and every way a subscription  *)
(* can go.                                                                 *)
(***************************************************************************)
EXTENDS QuotaReservation, FiniteSetTheorems, TLAPS

\* Every set of keys that the code sums over is finite.
LEMMA KeySetsFinite ==
    ASSUME NEW S \in SUBSET Key
    PROVE  IsFiniteSet(S) /\ Cardinality(S) \in Nat
BY KeysAssumption, FS_Subset, FS_CardinalityType

\* The sums of usageForQuota and quotaSnapshot are numbers, in any snapshot.
LEMMA TakenIsNatural ==
    ASSUME NEW STATE s PROVE Used(s) \in Nat /\ Reserved(s) \in Nat /\ Taken(s) \in Nat
<1> DEFINE Paid == {k \in Key : InPeriod(s.charged[k], period)}
           Refunds == {k \in Key : InPeriod(s.refunded[k], period)}
           Held == {k \in Key : s.resv[k] = "reserved" /\ PeriodKey(s.madeIn[k]) = PeriodKey(period)}
<1>1. Cardinality(Paid) \in Nat /\ Cardinality(Refunds) \in Nat /\ Cardinality(Held) \in Nat
    <2>1. Paid \in SUBSET Key /\ Refunds \in SUBSET Key /\ Held \in SUBSET Key
        OBVIOUS
    <2> HIDE DEF Paid, Refunds, Held
    <2> QED BY <2>1, KeySetsFinite
<1>2. Used(s) \in Nat /\ Reserved(s) \in Nat
    BY <1>1 DEF Used, Reserved
<1> QED BY <1>2 DEF Taken

\* What a transaction reads under the lock is a snapshot.
LEMMA CommittedIsSnapshot == ASSUME QuotaTypeOK PROVE Committed \in Snapshot
BY DEF QuotaTypeOK, Committed, Snapshot

-----------------------------------------------------------------------------
(* Type correctness, one lemma per kind of step *)

\* A new reservation is held in the current period and was never charged.
LEMMA InsertTypes ==
    ASSUME QuotaTypeOK, NEW k \in Key, resv[k] = "none", Insert(k),
           UNCHANGED <<now, subscriptionVars>>, view' \in [Stale -> SUBSET Snapshot]
    PROVE  QuotaTypeOK'
BY ClockAssumption DEF QuotaTypeOK, Insert, Period, Tick, Status, subscriptionVars

\* A new period is appended to those the subscription had.
LEMMA BeginsTypes ==
    ASSUME QuotaTypeOK, NEW b \in Nat, NEW e \in Nat, 1 <= b, b < e, NEW from \in Source,
           Begins(b, e, from), UNCHANGED <<now, accountVars, view>>
    PROVE  QuotaTypeOK'
<1>1. period' = period + 1 /\ period' \in Period
    BY ClockAssumption DEF QuotaTypeOK, Begins, Period
<1>2. /\ start' \in [Period -> Nat] /\ end' \in [Period -> Nat]
      /\ start'[period'] = b /\ end'[period'] = e
      /\ \A p \in Period : p # period' => start'[p] = start[p] /\ end'[p] = end[p]
    BY <1>1 DEF QuotaTypeOK, Begins
<1>3. \A p \in Period : IF p <= period' THEN start'[p] \in 1..(end'[p] - 1)
                        ELSE start'[p] = 0 /\ end'[p] = 0
    BY <1>1, <1>2 DEF QuotaTypeOK, Period
<1>4. \A k \in Key :
        /\ madeIn[k] <= period'
        /\ IF charged[k] = 0 THEN chargedIn[k] = 0
           ELSE charged[k] <= now /\ chargedIn[k] \in madeIn[k]..period'
    BY <1>1, ClockAssumption DEF QuotaTypeOK, Period
<1> QED BY <1>1, <1>2, <1>3, <1>4 DEF QuotaTypeOK, Begins, accountVars

\* So is whatever payments, contracts and the billing worker do.
LEMMA SubscriptionTypes ==
    ASSUME QuotaTypeOK, SubscriptionChanges PROVE QuotaTypeOK'
<1>0. UNCHANGED <<now, accountVars, view>>
    BY DEF SubscriptionChanges
<1>1. ASSUME NEW s \in {"active", "grace", "inactive"}, Stands(s) PROVE QuotaTypeOK'
    BY <1>0, <1>1 DEF Stands, QuotaTypeOK, accountVars
<1>2. /\ now \in Nat /\ now >= 1 /\ LastTick \in Nat /\ Cycle \in Nat \ {0}
      /\ start[period] \in Nat /\ end[period] \in Nat /\ start[period] \in 1..(end[period] - 1)
    BY ClockAssumption DEF QuotaTypeOK, Tick, Period
<1>3. CASE PeriodEnds
    <2>1. CASE Begins(end[period], end[period] + Cycle, "grant")
        BY <1>0, <1>2, <2>1, BeginsTypes DEF Source
    <2> QED BY <1>1, <1>3, <2>1 DEF PeriodEnds
<1>4. CASE GraceEnds \/ PaymentFails \/ CancelNow \/ ChangeNow
    BY <1>1, <1>4 DEF GraceEnds, PaymentFails, CancelNow, ChangeNow
<1>5. CASE StripeActivates
    <2>1. PICK b \in 1..now : Begins(b, b + Cycle, "stripe")
        BY <1>5 DEF StripeActivates
    <2> QED BY <1>0, <1>2, <2>1, BeginsTypes DEF Source
<1>6. CASE ManualUpsert
    <2>1. PICK b \in 1..(LastTick + 1), e \in 1..(LastTick + 1) : b < e /\ Begins(b, e, "manual")
        BY <1>6 DEF ManualUpsert
    <2> QED BY <1>0, <1>2, <2>1, BeginsTypes DEF Source
<1> QED BY <1>3, <1>4, <1>5, <1>6 DEF SubscriptionChanges

\* Reservations, periods and ledger rows stay consistent, also in grace and
\* when a period is cut short or replaced: a key is charged once, when its
\* reservation is confirmed, never before it was made and never in the future.
THEOREM QuotaTypeCorrect == QuotaSpec => []QuotaTypeOK
<1>1. QuotaInit => QuotaTypeOK
    BY ClockAssumption DEF QuotaInit, QuotaTypeOK, Period, Tick, Status
<1>2. QuotaTypeOK /\ [QuotaNext]_quotaVars => QuotaTypeOK'
    <2> SUFFICES ASSUME QuotaTypeOK, [QuotaNext]_quotaVars PROVE QuotaTypeOK'
        OBVIOUS
    <2>1. ASSUME NEW k \in Key, ReserveQuota(k) PROVE QuotaTypeOK'
        BY <2>1, InsertTypes DEF ReserveQuota, QuotaTypeOK
    <2>2. ASSUME NEW k \in Key, OpenSnapshot(k) PROVE QuotaTypeOK'
        BY <2>2, CommittedIsSnapshot DEF OpenSnapshot, QuotaTypeOK, subscriptionVars, accountVars
    <2>3. ASSUME NEW k \in Key, ReserveFromSnapshot(k) PROVE QuotaTypeOK'
        <3>1. view' \in [Stale -> SUBSET Snapshot]
            BY <2>3 DEF ReserveFromSnapshot, QuotaTypeOK
        <3>2. CASE Insert(k)
            BY <2>3, <3>1, <3>2, InsertTypes DEF ReserveFromSnapshot
        <3>3. CASE UNCHANGED accountVars
            BY <2>3, <3>1, <3>3 DEF ReserveFromSnapshot, QuotaTypeOK, subscriptionVars, accountVars
        <3> QED BY <2>3, <3>2, <3>3 DEF ReserveFromSnapshot
    <2>4. ASSUME NEW k \in Key, ConfirmQuota(k) PROVE QuotaTypeOK'
        BY <2>4, ClockAssumption DEF ConfirmQuota, QuotaTypeOK, Period, Tick, Status, subscriptionVars
    <2>5. ASSUME NEW k \in Key, ReleaseQuota(k) PROVE QuotaTypeOK'
        BY <2>5 DEF ReleaseQuota, QuotaTypeOK, Status, subscriptionVars
    <2>6. ASSUME NEW k \in Key, RefundUsage(k) PROVE QuotaTypeOK'
        BY <2>6, ClockAssumption DEF RefundUsage, QuotaTypeOK, Tick, subscriptionVars
    <2>7. CASE SubscriptionChanges
        BY <2>7, SubscriptionTypes
    <2>8. CASE TimePasses
        BY <2>8, ClockAssumption DEF TimePasses, QuotaTypeOK, Tick, Period, subscriptionVars, accountVars
    <2>9. CASE UNCHANGED quotaVars
        BY <2>9 DEF quotaVars, QuotaTypeOK, subscriptionVars, accountVars
    <2> QED BY <2>1, <2>2, <2>3, <2>4, <2>5, <2>6, <2>7, <2>8, <2>9 DEF QuotaNext
<1> QED BY <1>1, <1>2, PTL DEF QuotaSpec

-----------------------------------------------------------------------------
(***************************************************************************)
(* EveryPeriodFits is inductive over QuotaTypeOK.  The step that matters   *)
(* is a reservation: what was made in the current period is held in its    *)
(* month, or was charged and is summed, or was charged outside the period. *)
(***************************************************************************)

Bound(p) ==
    Limit + Cardinality(RefundedIn(p)) + Cardinality(EarlyReaders(p)) + Cardinality(Unsummed(p))

\* The sets the bound counts.
LEMMA CountedSets ==
    ASSUME NEW p \in Period
    PROVE  /\ IsFiniteSet(MadeIn(p)) /\ Cardinality(MadeIn(p)) \in Nat
           /\ IsFiniteSet(RefundedIn(p)) /\ Cardinality(RefundedIn(p)) \in Nat
           /\ IsFiniteSet(EarlyReaders(p)) /\ Cardinality(EarlyReaders(p)) \in Nat
           /\ IsFiniteSet(Unsummed(p)) /\ Cardinality(Unsummed(p)) \in Nat
<1>1. /\ MadeIn(p) \in SUBSET Key /\ RefundedIn(p) \in SUBSET Key
      /\ EarlyReaders(p) \in SUBSET Key /\ Unsummed(p) \in SUBSET Key
    BY KeysAssumption DEF MadeIn, RefundedIn, EarlyReaders, Unsummed
<1> QED BY <1>1, KeySetsFinite

\* Nothing happens in a period that has not begun; a row of one that has is
\* never dated 0, which stands for no row.
LEMMA PeriodBounds ==
    ASSUME QuotaTypeOK, NEW p \in Period
    PROVE  /\ period \in Nat /\ p \in Nat \ {0}
           /\ ~InPeriod(0, p)
           /\ p > period => /\ MadeIn(p) = {} /\ RefundedIn(p) = {}
                            /\ EarlyReaders(p) = {} /\ Unsummed(p) = {}
<1>1. period \in Nat /\ p \in Nat \ {0}
    BY ClockAssumption DEF QuotaTypeOK, Period
<1>2. ~InPeriod(0, p)
    BY <1>1 DEF QuotaTypeOK, InPeriod, Period
<1>3. ASSUME p > period PROVE MadeIn(p) = {} /\ EarlyReaders(p) = {} /\ Unsummed(p) = {}
    BY <1>1, <1>3, KeysAssumption DEF QuotaTypeOK, MadeIn, EarlyReaders, Unsummed
<1>4. ASSUME p > period PROVE RefundedIn(p) = {}
    <2>1. start[p] = 0 /\ end[p] = 0
        BY <1>1, <1>4 DEF QuotaTypeOK
    <2> QED BY <2>1 DEF RefundedIn, InPeriod, QuotaTypeOK
<1> QED BY <1>1, <1>2, <1>3, <1>4

\* The sums read under the lock, the refunds and the rows that are not summed
\* account for every reservation of the period.
LEMMA SnapshotCovers ==
    ASSUME QuotaTypeOK
    PROVE  Cardinality(MadeIn(period)) <=
             Taken(Committed) + Cardinality(RefundedIn(period)) + Cardinality(Unsummed(period))
<1> DEFINE Held == {k \in Key : resv[k] = "reserved" /\ PeriodKey(madeIn[k]) = PeriodKey(period)}
           Paid == {k \in Key : InPeriod(charged[k], period)}
           Late == Unsummed(period)
<1>0. period \in Period /\ period \in Nat \ {0}
    BY ClockAssumption DEF QuotaTypeOK, Period
<1>1. Held \in SUBSET Key /\ Paid \in SUBSET Key /\ Late \in SUBSET Key
    BY DEF Unsummed
<1>2. MadeIn(period) \in SUBSET ((Held \cup Paid) \cup Late)
    BY <1>0 DEF MadeIn, Unsummed, QuotaTypeOK
<1>3. Reserved(Committed) = Cardinality(Held)
    BY DEF Reserved, Committed
<1>4. Used(Committed) \in Nat /\ Used(Committed) >= Cardinality(Paid) - Cardinality(RefundedIn(period))
    <2>1. /\ {k \in Key : InPeriod(Committed.charged[k], period)} = Paid
          /\ {k \in Key : InPeriod(Committed.refunded[k], period)} = RefundedIn(period)
        BY DEF Committed, RefundedIn
    <2>2. Cardinality(Paid) \in Nat /\ Cardinality(RefundedIn(period)) \in Nat
        BY <1>0, <1>1, KeySetsFinite, CountedSets
    <2> HIDE DEF Paid
    <2> DEFINE net == Cardinality(Paid) - Cardinality(RefundedIn(period))
    <2>3. Used(Committed) = IF net < 0 THEN 0 ELSE net
        BY <2>1, Zenon DEF Used
    <2> QED BY <2>2, <2>3
<1> HIDE DEF Held, Paid, Late
<1>5. \A S, T \in SUBSET Key :
        /\ Cardinality(S) \in Nat /\ Cardinality(S \cup T) \in Nat
        /\ Cardinality(S \cup T) <= Cardinality(S) + Cardinality(T)
        /\ S \subseteq T => Cardinality(S) <= Cardinality(T)
    <2> SUFFICES ASSUME NEW S \in SUBSET Key, NEW T \in SUBSET Key
                 PROVE  /\ Cardinality(S) \in Nat /\ Cardinality(S \cup T) \in Nat
                        /\ Cardinality(S \cup T) <= Cardinality(S) + Cardinality(T)
                        /\ S \subseteq T => Cardinality(S) <= Cardinality(T)
        OBVIOUS
    <2>1. /\ IsFiniteSet(S) /\ IsFiniteSet(T) /\ Cardinality(S) \in Nat /\ Cardinality(T) \in Nat
          /\ Cardinality(S \cap T) \in Nat /\ Cardinality(S \cup T) \in Nat
        <3>1. S \cap T \in SUBSET Key /\ S \cup T \in SUBSET Key
            OBVIOUS
        <3> QED BY <3>1, KeySetsFinite
    <2>2. Cardinality(S \cup T) = Cardinality(S) + Cardinality(T) - Cardinality(S \cap T)
        BY <2>1, FS_Union
    <2>3. S \subseteq T => Cardinality(S) <= Cardinality(T)
        BY <2>1, FS_Subset
    <2> QED BY <2>1, <2>2, <2>3
<1>6. /\ Cardinality(Held) \in Nat /\ Cardinality(Paid) \in Nat /\ Cardinality(Late) \in Nat
      /\ Cardinality(Held \cup Paid) \in Nat /\ Cardinality((Held \cup Paid) \cup Late) \in Nat
      /\ Cardinality(Held \cup Paid) <= Cardinality(Held) + Cardinality(Paid)
      /\ Cardinality((Held \cup Paid) \cup Late) <= Cardinality(Held \cup Paid) + Cardinality(Late)
    <2>1. Held \cup Paid \in SUBSET Key
        BY <1>1
    <2> QED BY <1>1, <1>5, <2>1
<1>7. Cardinality(MadeIn(period)) <= Cardinality((Held \cup Paid) \cup Late)
      /\ Cardinality(MadeIn(period)) \in Nat
    <2>1. (Held \cup Paid) \cup Late \in SUBSET Key /\ MadeIn(period) \in SUBSET Key
        BY <1>1 DEF MadeIn
    <2> QED BY <1>2, <1>5, <2>1
<1>8. Cardinality(Late) = Cardinality(Unsummed(period)) /\ Cardinality(RefundedIn(period)) \in Nat
    BY <1>0, CountedSets DEF Late
<1> QED BY <1>3, <1>4, <1>6, <1>7, <1>8 DEF Taken

\* A step that makes no reservation, and takes none of the excuses back, keeps
\* the bound.
LEMMA NothingMade ==
    ASSUME EveryPeriodFits, NEW p \in Period, Limit >= 0,
           MadeIn(p)' \in SUBSET MadeIn(p), RefundedIn(p) \in SUBSET RefundedIn(p)',
           EarlyReaders(p) \in SUBSET EarlyReaders(p)', Unsummed(p) \in SUBSET Unsummed(p)'
    PROVE  Cardinality(MadeIn(p)') <= Bound(p)'
<1>1. /\ MadeIn(p)' \in SUBSET Key /\ RefundedIn(p)' \in SUBSET Key
      /\ EarlyReaders(p)' \in SUBSET Key /\ Unsummed(p)' \in SUBSET Key
    BY KeysAssumption DEF MadeIn, RefundedIn, EarlyReaders, Unsummed
<1>2. /\ Cardinality(MadeIn(p)') \in Nat
      /\ IsFiniteSet(RefundedIn(p)') /\ Cardinality(RefundedIn(p)') \in Nat
      /\ IsFiniteSet(EarlyReaders(p)') /\ Cardinality(EarlyReaders(p)') \in Nat
      /\ IsFiniteSet(Unsummed(p)') /\ Cardinality(Unsummed(p)') \in Nat
    BY <1>1, KeySetsFinite
<1>3. /\ Cardinality(MadeIn(p)') <= Cardinality(MadeIn(p))
      /\ Cardinality(RefundedIn(p)) <= Cardinality(RefundedIn(p)')
      /\ Cardinality(EarlyReaders(p)) <= Cardinality(EarlyReaders(p)')
      /\ Cardinality(Unsummed(p)) <= Cardinality(Unsummed(p)')
    BY <1>2, CountedSets, FS_Subset
<1>4. Cardinality(MadeIn(p)) <= Bound(p)
    BY DEF EveryPeriodFits, Bound
<1> QED BY <1>2, <1>3, <1>4, CountedSets, LimitAssumption DEF Bound

\* Inserting a reservation adds it to its period and touches no other.
LEMMA InsertMakes ==
    ASSUME QuotaTypeOK, NEW k \in Key, resv[k] = "none", Insert(k), UNCHANGED subscriptionVars,
           NEW p \in Period
    PROVE  /\ p # period => MadeIn(p)' = MadeIn(p)
           /\ p = period => MadeIn(p)' = MadeIn(p) \cup {k} /\ k \notin MadeIn(p)
           /\ RefundedIn(p)' = RefundedIn(p)
           /\ EarlyReaders(p)' = IF p = period /\ k \in Stale THEN EarlyReaders(p) \cup {k}
                                 ELSE EarlyReaders(p)
           /\ k \notin EarlyReaders(p)
           /\ Unsummed(p)' = Unsummed(p)
<1>1. /\ madeIn' = [madeIn EXCEPT ![k] = period] /\ madeIn[k] = 0 /\ chargedIn[k] = 0
      /\ resv' = [resv EXCEPT ![k] = "reserved"]
      /\ UNCHANGED <<start, end, charged, chargedIn, refunded>>
      /\ p \in Nat \ {0}
    BY PeriodBounds DEF QuotaTypeOK, Insert, subscriptionVars
<1>2. RefundedIn(p)' = RefundedIn(p)
    BY <1>1 DEF RefundedIn, InPeriod
<1>3. Unsummed(p)' = Unsummed(p)
    BY <1>1 DEF Unsummed, InPeriod, QuotaTypeOK
<1> QED BY <1>1, <1>2, <1>3, KeysAssumption DEF QuotaTypeOK, MadeIn, EarlyReaders

\* reserveQuotaInSession keeps the bound, whichever snapshot it reads.
LEMMA ReservationFits ==
    ASSUME QuotaTypeOK, EveryPeriodFits, NEW k \in Key, resv[k] = "none", Insert(k),
           UNCHANGED subscriptionVars, k \in Stale \/ Fits(Taken(Committed)),
           NEW p \in Period, Limit >= 0
    PROVE  Cardinality(MadeIn(p)') <= Bound(p)'
<1>1. CASE p # period
    <2>1. /\ MadeIn(p)' = MadeIn(p) /\ RefundedIn(p)' = RefundedIn(p)
          /\ EarlyReaders(p)' = EarlyReaders(p) /\ Unsummed(p)' = Unsummed(p)
        BY <1>1, InsertMakes
    <2> QED BY <2>1, NothingMade
<1>2. CASE p = period
    <2>1. /\ MadeIn(p)' = MadeIn(p) \cup {k} /\ k \notin MadeIn(p)
          /\ RefundedIn(p)' = RefundedIn(p) /\ k \notin EarlyReaders(p)
          /\ EarlyReaders(p)' = IF k \in Stale THEN EarlyReaders(p) \cup {k} ELSE EarlyReaders(p)
          /\ Unsummed(p)' = Unsummed(p)
        BY <1>2, InsertMakes
    <2>2. Cardinality(MadeIn(p)') = Cardinality(MadeIn(p)) + 1
        BY <2>1, CountedSets, FS_AddElement
    <2>3. CASE k \in Stale
        <3>1. Cardinality(EarlyReaders(p)') = Cardinality(EarlyReaders(p)) + 1
            BY <2>1, <2>3, CountedSets, FS_AddElement
        <3>2. Cardinality(MadeIn(p)) <= Bound(p)
            BY DEF EveryPeriodFits, Bound
        <3> QED BY <2>1, <2>2, <3>1, <3>2, CountedSets, LimitAssumption DEF Bound
    <2>4. CASE k \notin Stale
        <3>1. Taken(Committed) + 1 <= Limit /\ Taken(Committed) \in Nat
            BY <2>4, TakenIsNatural DEF Fits
        <3>2. Cardinality(MadeIn(p)) <=
                Taken(Committed) + Cardinality(RefundedIn(p)) + Cardinality(Unsummed(p))
            BY <1>2, SnapshotCovers
        <3>3. /\ Cardinality(EarlyReaders(p)') = Cardinality(EarlyReaders(p))
              /\ Cardinality(RefundedIn(p)') = Cardinality(RefundedIn(p))
              /\ Cardinality(Unsummed(p)') = Cardinality(Unsummed(p))
            BY <2>1, <2>4
        <3> QED BY <2>2, <3>1, <3>2, <3>3, CountedSets, LimitAssumption DEF Bound
    <2> QED BY <2>3, <2>4
<1> QED BY <1>1, <1>2

\* A period keeps its dates once it has begun, and no reservation is made by
\* what happens to the subscription.
LEMMA SubscriptionFits ==
    ASSUME QuotaTypeOK, EveryPeriodFits, SubscriptionChanges, NEW p \in Period, Limit >= 0
    PROVE  Cardinality(MadeIn(p)') <= Bound(p)'
<1>1. UNCHANGED accountVars
    BY DEF SubscriptionChanges
<1>2. p <= period => start'[p] = start[p] /\ end'[p] = end[p]
    <2>1. ASSUME NEW b, NEW e, NEW from, Begins(b, e, from), p <= period
          PROVE  start'[p] = start[p] /\ end'[p] = end[p]
        BY <2>1, PeriodBounds DEF Begins, QuotaTypeOK
    <2>2. ASSUME NEW s, Stands(s) PROVE start' = start /\ end' = end
        BY <2>2 DEF Stands
    <2> QED BY <2>1, <2>2 DEF SubscriptionChanges, PeriodEnds, GraceEnds, StripeActivates, ManualUpsert,
                PaymentFails, CancelNow, ChangeNow
<1>3. CASE p <= period
    <2>1. /\ MadeIn(p)' = MadeIn(p) /\ RefundedIn(p)' = RefundedIn(p)
          /\ EarlyReaders(p)' = EarlyReaders(p) /\ Unsummed(p)' = Unsummed(p)
        BY <1>1, <1>2, <1>3 DEF accountVars, MadeIn, RefundedIn, EarlyReaders, Unsummed, InPeriod
    <2> QED BY <2>1, NothingMade
<1>4. CASE p > period
    <2>1. MadeIn(p)' = MadeIn(p)
        BY <1>1 DEF accountVars, MadeIn
    <2> QED BY <1>4, <2>1, PeriodBounds, NothingMade
<1> QED BY <1>3, <1>4, PeriodBounds

\* The reservations made in any period stay within its quota, but for refunds,
\* readers that came early and builds claimed outside of the period, for any
\* number of competing requests and whatever happens to the subscription.
THEOREM PeriodsFit == QuotaSpec => []EveryPeriodFits
<1>1. QuotaInit => EveryPeriodFits
    <2> SUFFICES ASSUME QuotaInit, Limit >= 0, NEW p \in Period
                 PROVE  Cardinality(MadeIn(p)) <= Bound(p)
        BY DEF EveryPeriodFits, Bound
    <2>1. MadeIn(p) = {}
        BY DEF MadeIn, QuotaInit
    <2> QED BY <2>1, FS_EmptySet, CountedSets, LimitAssumption DEF Bound
<1>2. QuotaTypeOK /\ EveryPeriodFits /\ [QuotaNext]_quotaVars => EveryPeriodFits'
    <2> SUFFICES ASSUME QuotaTypeOK, EveryPeriodFits, [QuotaNext]_quotaVars,
                        NEW p \in Period, Limit >= 0
                 PROVE  Cardinality(MadeIn(p)') <= Bound(p)'
        BY DEF EveryPeriodFits, Bound
    <2>1. ASSUME NEW k \in Key, ReserveQuota(k) PROVE Cardinality(MadeIn(p)') <= Bound(p)'
        BY <2>1, ReservationFits DEF ReserveQuota, Admits
    <2>2. ASSUME UNCHANGED <<subscriptionVars, accountVars>>
          PROVE  Cardinality(MadeIn(p)') <= Bound(p)'
        <3>1. /\ MadeIn(p)' = MadeIn(p) /\ RefundedIn(p)' = RefundedIn(p)
              /\ EarlyReaders(p)' = EarlyReaders(p) /\ Unsummed(p)' = Unsummed(p)
            BY <2>2 DEF subscriptionVars, accountVars, MadeIn, RefundedIn, EarlyReaders, Unsummed, InPeriod
        <3> QED BY <3>1, NothingMade
    <2>3. ASSUME NEW k \in Key, ReserveFromSnapshot(k) PROVE Cardinality(MadeIn(p)') <= Bound(p)'
        <3>1. CASE Insert(k)
            BY <2>3, <3>1, ReservationFits DEF ReserveFromSnapshot
        <3>2. CASE UNCHANGED accountVars
            BY <2>2, <2>3, <3>2 DEF ReserveFromSnapshot
        <3> QED BY <2>3, <3>1, <3>2 DEF ReserveFromSnapshot
    <2>4. ASSUME NEW k \in Key, ConfirmQuota(k) PROVE Cardinality(MadeIn(p)') <= Bound(p)'
        <3>1. charged[k] = 0 /\ chargedIn[k] = 0 /\ p # 0
            BY <2>4, PeriodBounds DEF ConfirmQuota, QuotaTypeOK
        <3>2. MadeIn(p)' = MadeIn(p) /\ RefundedIn(p)' = RefundedIn(p)
              /\ EarlyReaders(p)' = EarlyReaders(p)
            BY <2>4 DEF ConfirmQuota, subscriptionVars, MadeIn, RefundedIn, EarlyReaders, InPeriod, QuotaTypeOK
        <3>3. Unsummed(p) \in SUBSET Unsummed(p)'
            BY <2>4, <3>1 DEF ConfirmQuota, subscriptionVars, Unsummed, InPeriod, QuotaTypeOK
        <3> QED BY <3>2, <3>3, NothingMade
    <2>5. ASSUME NEW k \in Key, ReleaseQuota(k) PROVE Cardinality(MadeIn(p)') <= Bound(p)'
        <3>1. /\ MadeIn(p)' \in SUBSET MadeIn(p) /\ RefundedIn(p)' = RefundedIn(p)
              /\ EarlyReaders(p)' = EarlyReaders(p) /\ Unsummed(p)' = Unsummed(p)
            BY <2>5 DEF ReleaseQuota, subscriptionVars, MadeIn, RefundedIn, EarlyReaders, Unsummed,
                InPeriod, QuotaTypeOK
        <3> QED BY <3>1, NothingMade
    <2>6. ASSUME NEW k \in Key, RefundUsage(k) PROVE Cardinality(MadeIn(p)') <= Bound(p)'
        <3>1. MadeIn(p)' = MadeIn(p) /\ EarlyReaders(p)' = EarlyReaders(p) /\ Unsummed(p)' = Unsummed(p)
            BY <2>6 DEF RefundUsage, subscriptionVars, MadeIn, EarlyReaders, Unsummed, InPeriod
        <3>2. RefundedIn(p) \in SUBSET RefundedIn(p)'
            <4>1. ~InPeriod(refunded[k], p)
                BY <2>6, PeriodBounds DEF RefundUsage
            <4> QED BY <2>6, <4>1 DEF RefundUsage, subscriptionVars, RefundedIn, InPeriod, QuotaTypeOK
        <3> QED BY <3>1, <3>2, NothingMade
    <2>7. CASE SubscriptionChanges
        BY <2>7, SubscriptionFits
    <2> QED BY <2>1, <2>2, <2>3, <2>4, <2>5, <2>6, <2>7
            DEF QuotaNext, OpenSnapshot, TimePasses, quotaVars
<1> QED BY <1>1, <1>2, QuotaTypeCorrect, PTL DEF QuotaSpec
=============================================================================
