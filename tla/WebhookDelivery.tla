--------------------------- MODULE WebhookDelivery ---------------------------
(***************************************************************************)
(* Webhooks of one tenant: the outbox (t_outbox_event), the deliveries     *)
(* (t_webhook_delivery) and the workers that every replica of the core     *)
(* service runs (webhookworker.go, webhookservice.go).                     *)
(*                                                                         *)
(* An event is written by the transaction of the business change.  A       *)
(* worker turns it into one delivery per subscribed endpoint, then claims  *)
(* deliveries one by one under a lease of 30 seconds, calls the endpoint   *)
(* and writes the result, fenced by status and attempt.  Between the claim *)
(* and the result a worker may die, may be slower than its lease, and the  *)
(* result may be lost: two workers that finish the last two deliveries of  *)
(* an event lock each other's rows, and since finishDelivery ignores the   *)
(* error of its second UPDATE, the victim's rolled-back transaction ends   *)
(* without an error.                                                       *)
(* Back-off is only a delay: a retry may be claimed at any later time.     *)
(***************************************************************************)
EXTENDS Naturals, FiniteSets

CONSTANTS
    Event, Endpoint, Worker,
    NoClaim,        \* the claim of an idle worker
    Limit,          \* values of max_attempts a user may choose, 1 to 20
    Subscribers,    \* endpoints whose event_types name the event, at first
    MaxAttempts,    \* max_attempts of an endpoint, at first
    MaxFaults,      \* bound on lost claims and on leases outlived
    MaxReplays,     \* bound on replays: none follows a delivery's last
    MaxEdits        \* bound on the changes of endpoints

Delivery == Event \X Endpoint
Answer == {"none", "ok", "bad"}
Claim == [delivery : Delivery, attempt : Nat \ {0}, max : Limit, answer : Answer]

ASSUME LimitAssumption == Limit \subseteq Nat \ {0}
ASSUME EndpointsAssumption ==
    Subscribers \in [Event -> SUBSET Endpoint] /\ MaxAttempts \in [Endpoint -> Limit]
ASSUME NoClaimAssumption == NoClaim \notin Claim
ASSUME FinitenessAssumption == IsFiniteSet(Event) /\ IsFiniteSet(Endpoint)

VARIABLES
    event,          \* t_outbox_event.status, "none" before the business change
    active,         \* endpoints with status ACTIVE
    subscribers,    \* endpoints whose event_types name the event
    maxAttempts,    \* max_attempts of an endpoint
    status,         \* t_webhook_delivery.status, "none" without a row
    attempt,        \* t_webhook_delivery.attempt
    leased,         \* lease_until is in the future
    holding,        \* what a worker claimed and what it was answered
    received,       \* deliveries the endpoint has answered with 2xx (history)
    limits,         \* the maxima a delivery was claimed under (history)
    lost,           \* attempts of a delivery that ended with its lease (history)
    replays,        \* replays of a delivery (history, bounded)
    faults, edits   \* bounded counters of the environment

endpointVars == <<active, subscribers, maxAttempts>>
tableVars == <<event, endpointVars, status, attempt, leased>>
historyVars == <<received, limits, lost, replays>>
vars == <<tableVars, holding, historyVars, faults, edits>>

DeliveryStatus == {"none", "pending", "delivering", "succeeded", "retry", "dead"}
Ended == {"succeeded", "dead"}

WebhookTypeOK ==
    /\ event \in [Event -> {"none", "pending", "dispatched", "completed"}]
    /\ active \in SUBSET Endpoint
    /\ subscribers \in [Event -> SUBSET Endpoint]
    /\ maxAttempts \in [Endpoint -> Limit]
    /\ status \in [Delivery -> DeliveryStatus]
    /\ attempt \in [Delivery -> Nat]
    /\ leased \in SUBSET Delivery
    /\ holding \in [Worker -> Claim \cup {NoClaim}]
    /\ received \in SUBSET Delivery
    /\ limits \in [Delivery -> SUBSET Limit]
    /\ lost \in [Delivery -> Nat]
    /\ replays \in [Delivery -> Nat]
    /\ faults \in Nat /\ edits \in Nat
    /\ \A d \in Delivery :
        /\ event[d[1]] \in {"none", "pending"} => status[d] = "none"
        /\ status[d] = "none" => attempt[d] = 0 /\ d \notin received
        /\ status[d] \in {"delivering", "retry"} \cup Ended => attempt[d] > 0
        /\ d \in leased => status[d] = "delivering"
    /\ \A w \in Worker : holding[w] # NoClaim =>
        status[holding[w].delivery] # "none" /\ holding[w].max \in limits[holding[w].delivery]

Init ==
    /\ event = [e \in Event |-> "none"]
    /\ active = Endpoint
    /\ subscribers = Subscribers
    /\ maxAttempts = MaxAttempts
    /\ status = [d \in Delivery |-> "none"]
    /\ attempt = [d \in Delivery |-> 0]
    /\ leased = {}
    /\ holding = [w \in Worker |-> NoClaim]
    /\ received = {}
    /\ limits = [d \in Delivery |-> {}]
    /\ lost = [d \in Delivery |-> 0]
    /\ replays = [d \in Delivery |-> 0]
    /\ faults = 0 /\ edits = 0

-----------------------------------------------------------------------------
\* insertOutboxEvent, inside the transaction of the business change
InsertOutboxEvent(e) ==
    /\ event[e] = "none"
    /\ event' = [event EXCEPT ![e] = "pending"]
    /\ UNCHANGED <<endpointVars, status, attempt, leased, holding, historyVars, faults, edits>>

\* The rows an event gets: attempt 0, due at once.
Enqueue(D) == status' = [d \in Delivery |-> IF d \in D THEN "pending" ELSE status[d]]

\* One round of dispatchOutbox: FOR UPDATE on the event, one delivery per
\* endpoint that is active and subscribed now; without any the event is done.
DispatchOutbox(e) ==
    LET created == {e} \X (active \cap subscribers[e])
    IN  /\ event[e] = "pending"
        /\ \E w \in Worker : holding[w] = NoClaim
        /\ Enqueue(created)
        /\ event' = [event EXCEPT ![e] = IF created = {} THEN "completed" ELSE "dispatched"]
        /\ UNCHANGED <<endpointVars, attempt, leased, holding, historyVars, faults, edits>>

\* createTestWebhookEvent: event and delivery in one transaction
CreateTestWebhookEvent(e, n) ==
    /\ event[e] = "none" /\ n \in active
    /\ Enqueue({<<e, n>>})
    /\ event' = [event EXCEPT ![e] = "dispatched"]
    /\ UNCHANGED <<endpointVars, attempt, leased, holding, historyVars, faults, edits>>

\* Mutant: a delivery whose worker died is not taken up again.
DueUnclaimed(d) == status[d] \in {"pending", "retry"}

Due(d) == status[d] \in {"pending", "retry"} \/ (status[d] = "delivering" /\ d \notin leased)

\* claimDelivery.  It takes max_attempts of the endpoint along and does not
\* compare it with attempt: an edit of the maximum reaches the next claim.
ClaimDelivery(w, d) ==
    /\ holding[w] = NoClaim
    /\ Due(d) /\ d[2] \in active
    /\ status' = [status EXCEPT ![d] = "delivering"]
    /\ attempt' = [attempt EXCEPT ![d] = @ + 1]
    /\ leased' = leased \cup {d}
    /\ holding' = [holding EXCEPT ![w] =
        [delivery |-> d, attempt |-> attempt[d] + 1, max |-> maxAttempts[d[2]], answer |-> "none"]]
    /\ limits' = [limits EXCEPT ![d] = @ \cup {maxAttempts[d[2]]}]
    /\ UNCHANGED <<event, endpointVars, received, lost, replays, faults, edits>>

Answered(w, a) == holding' = [holding EXCEPT ![w].answer = a]

\* deliver and sendWebhook: the endpoint answers 2xx; or it took the event and
\* the answer was lost or late; or it refused, or was not reached.
SendWebhook(w) ==
    /\ holding[w] # NoClaim /\ holding[w].answer = "none"
    /\ \/ Answered(w, "ok") /\ received' = received \cup {holding[w].delivery}
       \/ Answered(w, "bad") /\ received' \in {received, received \cup {holding[w].delivery}}
    /\ UNCHANGED <<tableVars, limits, lost, replays, faults, edits>>

Settles(c) == c.answer = "ok" \/ c.attempt >= c.max

\* Mutant: no attempt is the last one.
OutcomeNeverDead(c) == IF c.answer = "ok" THEN "succeeded" ELSE "retry"

Outcome(c) ==
    IF c.answer = "ok" THEN "succeeded"
    ELSE IF c.attempt >= c.max THEN "dead" ELSE "retry"

\* Mutant: the attempt alone fences a result.
FencedByAttempt(c) == attempt[c.delivery] = c.attempt

\* the WHERE clause of both UPDATEs of finishDelivery
Fenced(c) == status[c.delivery] = "delivering" /\ attempt[c.delivery] = c.attempt

\* The event is done when none of its deliveries is outside (3, 5).
CompleteEvent(e, newStatus) ==
    IF \A n \in Endpoint : newStatus[<<e, n>>] \in Ended \cup {"none"}
    THEN event' = [event EXCEPT ![e] = "completed"] ELSE UNCHANGED event

\* Mutant: only a success looks whether the event is done.
FinishForgetsDead(w) ==
    LET c == holding[w]
        newStatus == IF Fenced(c) THEN [status EXCEPT ![c.delivery] = Outcome(c)] ELSE status
    IN  /\ c # NoClaim /\ c.answer # "none"
        /\ status' = newStatus
        /\ leased' = IF Fenced(c) THEN leased \ {c.delivery} ELSE leased
        /\ IF c.answer = "ok" THEN CompleteEvent(c.delivery[1], newStatus) ELSE UNCHANGED event
        /\ holding' = [holding EXCEPT ![w] = NoClaim]
        /\ UNCHANGED <<endpointVars, attempt, historyVars, faults, edits>>

\* finishDelivery.  Whether a row matched is not looked at: a late result
\* still checks the event.
FinishDelivery(w) ==
    LET c == holding[w]
        newStatus == IF Fenced(c) THEN [status EXCEPT ![c.delivery] = Outcome(c)] ELSE status
    IN  /\ c # NoClaim /\ c.answer # "none"
        /\ status' = newStatus
        /\ leased' = IF Fenced(c) THEN leased \ {c.delivery} ELSE leased
        /\ IF Settles(c) THEN CompleteEvent(c.delivery[1], newStatus) ELSE UNCHANGED event
        /\ holding' = [holding EXCEPT ![w] = NoClaim]
        /\ UNCHANGED <<endpointVars, attempt, historyVars, faults, edits>>

\* The process dies, or the transaction of finishDelivery is rolled back.
LoseClaim(w) ==
    /\ holding[w] # NoClaim /\ faults < MaxFaults
    /\ faults' = faults + 1
    /\ holding' = [holding EXCEPT ![w] = NoClaim]
    /\ UNCHANGED <<tableVars, historyVars, edits>>

Attended(d) ==
    \E w \in Worker :
        holding[w] # NoClaim /\ holding[w].delivery = d /\ holding[w].attempt = attempt[d]

\* Thirty seconds pass.  A worker that is still at it has stalled: its call
\* is limited to ten.
LeaseLapses(d) ==
    /\ d \in leased
    /\ leased' = leased \ {d}
    /\ lost' = [lost EXCEPT ![d] = @ + 1]
    /\ IF Attended(d) THEN faults < MaxFaults /\ faults' = faults + 1 ELSE UNCHANGED faults
    /\ UNCHANGED <<event, endpointVars, status, attempt, holding, received, limits, replays, edits>>

Replayable == \A d \in Delivery : replays[d] < MaxReplays

\* Mutant: a delivery under way is replayed as well.
ReplayAnytime(d) ==
    /\ status[d] # "none" /\ Replayable
    /\ status' = [status EXCEPT ![d] = "pending"]
    /\ attempt' = [attempt EXCEPT ![d] = 0]
    /\ lost' = [lost EXCEPT ![d] = 0]
    /\ replays' = [replays EXCEPT ![d] = @ + 1]
    /\ UNCHANGED <<event, endpointVars, leased, holding, received, limits, faults, edits>>

\* replayWebhookDelivery: the attempts start again; the event keeps its
\* status, and a worker that still holds a claim from before keeps it.
ReplayWebhookDelivery(d) ==
    /\ status[d] \in {"succeeded", "retry", "dead"} /\ Replayable
    /\ status' = [status EXCEPT ![d] = "pending"]
    /\ attempt' = [attempt EXCEPT ![d] = 0]
    /\ lost' = [lost EXCEPT ![d] = 0]
    /\ replays' = [replays EXCEPT ![d] = @ + 1]
    /\ UNCHANGED <<event, endpointVars, leased, holding, received, limits, faults, edits>>

\* updateWebhookEndpoint writes status, event_types and max_attempts: any
\* status may follow any other, and the maximum may fall below the attempts
\* of a delivery under way.
UpdateWebhookEndpoint(n) ==
    /\ edits < MaxEdits
    /\ edits' = edits + 1
    /\ active' \in {active \cup {n}, active \ {n}}
    /\ \E E \in SUBSET Event : subscribers' =
         [e \in Event |-> IF e \in E THEN subscribers[e] \cup {n} ELSE subscribers[e] \ {n}]
    /\ \E m \in Limit : maxAttempts' = [maxAttempts EXCEPT ![n] = m]
    /\ UNCHANGED <<event, status, attempt, leased, holding, historyVars, faults>>

WorkerStep(w) == (\E d \in Delivery : ClaimDelivery(w, d)) \/ SendWebhook(w) \/ FinishDelivery(w)

Next ==
    \/ \E e \in Event :
        InsertOutboxEvent(e) \/ DispatchOutbox(e) \/ \E n \in Endpoint : CreateTestWebhookEvent(e, n)
    \/ \E w \in Worker : WorkerStep(w) \/ LoseClaim(w)
    \/ \E d \in Delivery : LeaseLapses(d) \/ ReplayWebhookDelivery(d)
    \/ \E n \in Endpoint : UpdateWebhookEndpoint(n)

Spec == Init /\ [][Next]_vars

\* Workers poll on a ticker; due deliveries are claimed oldest first, and a
\* retry goes to the end of that order, so that each has its turn; a call ends
\* by its timeout; time passes for leases.  Users and events are not fair.
Fairness ==
    /\ \A e \in Event : WF_vars(DispatchOutbox(e))
    /\ \A d \in Delivery : SF_vars(\E w \in Worker : ClaimDelivery(w, d))
    /\ \A w \in Worker : WF_vars(SendWebhook(w)) /\ WF_vars(FinishDelivery(w))
    /\ \A d \in Delivery : WF_vars(LeaseLapses(d))

FairSpec == Spec /\ Fairness

-----------------------------------------------------------------------------
\* An event is completed by the worker that settles its last delivery and by
\* nobody else; a replay alone opens a delivery of a completed event.  So no
\* event stays "dispatched" with nothing left to do, and none is reported
\* completed while a delivery was never settled.
EventsFollowDeliveries ==
    \A e \in Event :
        /\ event[e] = "dispatched" =>
             \E n \in Endpoint : status[<<e, n>>] \notin Ended \cup {"none"}
        /\ event[e] = "completed" =>
             \A n \in Endpoint : status[<<e, n>>] \in Ended \cup {"none"} \/ replays[<<e, n>>] > 0

\* Whatever maximum the endpoint has and is given, a delivery is tried no more
\* often than one of the maxima it was claimed under, except for attempts whose
\* result was lost with their lease: claimDelivery does not look at the maximum,
\* finishDelivery is the only place that gives up, and it judges by the maximum
\* of its own claim, which an edit, a replay or a later claim may have left behind.
AttemptsBounded ==
    \A d \in Delivery :
        attempt[d] > 0 => \E m \in limits[d] : attempt[d] <= m + lost[d]

\* At-least-once delivery with an upper limit: ReliableDelivery, where a
\* delivery that succeeded was received and one that is dead used up the tries
\* of a maximum it was claimed under.
Promise == INSTANCE ReliableDelivery WITH
    Delivery <- Delivery,
    state <- [d \in Delivery |->
                IF status[d] = "none" THEN "none"
                ELSE IF status[d] = "succeeded" THEN "delivered"
                ELSE IF status[d] = "dead" THEN "given up" ELSE "owed"],
    tries <- attempt,
    limits <- limits,
    received <- received

ImplementsReliableDelivery == Promise!DeliverySpec

\* "Webhook and business transaction lose no event" (V5 specification 11.5):
\* while its endpoints are active, every event that was written is completed,
\* and every delivery, a replayed one too, succeeds or becomes a dead letter.
EveryEventSettles ==
    /\ \A e \in Event :
         event[e] # "none" ~>
             \/ event[e] = "completed"
             \/ \E n \in Endpoint \ active : status[<<e, n>>] \notin Ended \cup {"none"}
    /\ \A d \in Delivery :
         status[d] # "none" ~> status[d] \in Ended \/ d[2] \notin active
=============================================================================
