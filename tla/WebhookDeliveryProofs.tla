------------------------ MODULE WebhookDeliveryProofs ------------------------
(***************************************************************************)
(* Theorems about WebhookDelivery: for any number of events, endpoints and *)
(* workers, any subscriptions and maxima, edited at any time, and any      *)
(* number of faults, replays and edits.                                    *)
(***************************************************************************)
EXTENDS WebhookDelivery, TLAPS

\* What a worker holds is a claim, of a delivery that exists.
LEMMA HeldClaim ==
    ASSUME WebhookTypeOK, NEW w \in Worker, holding[w] # NoClaim
    PROVE  /\ holding[w] \in Claim
           /\ holding[w].delivery \in Delivery
           /\ holding[w].attempt \in Nat \ {0}
           /\ holding[w].answer \in Answer
           /\ holding[w].delivery = <<holding[w].delivery[1], holding[w].delivery[2]>>
           /\ holding[w].delivery[1] \in Event /\ holding[w].delivery[2] \in Endpoint
           /\ holding[w].max \in Limit
           /\ holding[w].max \in limits[holding[w].delivery]
<1>1. holding[w] \in Claim
    BY DEF WebhookTypeOK
<1>2. /\ holding[w].delivery \in Delivery
      /\ holding[w].attempt \in Nat \ {0}
      /\ holding[w].max \in Limit
      /\ holding[w].answer \in Answer
    BY <1>1 DEF Claim
<1> QED BY <1>1, <1>2 DEF Delivery, WebhookTypeOK

\* The only outcomes of a call.
LEMMA Outcomes ==
    ASSUME NEW c PROVE Outcome(c) \in {"succeeded", "dead", "retry"}
BY DEF Outcome

\* The deliveries of an event concern that event.
LEMMA CreatedDeliveries ==
    ASSUME WebhookTypeOK, NEW e \in Event
    PROVE  \A d \in {e} \X (active \cap subscribers[e]) : d \in Delivery /\ d[1] = e
BY DEF Delivery, WebhookTypeOK

\* New rows of an event that has none.
LEMMA EnqueueKeepsTypes ==
    ASSUME WebhookTypeOK, NEW e \in Event, event[e] \in {"none", "pending"},
           NEW new \in {"dispatched", "completed"}, event' = [event EXCEPT ![e] = new],
           NEW D, \A d \in D : d \in Delivery /\ d[1] = e, Enqueue(D),
           UNCHANGED <<endpointVars, attempt, leased, holding, historyVars, faults, edits>>
    PROVE  WebhookTypeOK'
<1> USE DEF DeliveryStatus, Ended
<1>1. \A d \in D : status[d] = "none"
    BY DEF WebhookTypeOK
<1>2. status' = [d \in Delivery |-> IF d \in D THEN "pending" ELSE status[d]]
    BY DEF Enqueue
<1>3. /\ event' \in [Event -> {"none", "pending", "dispatched", "completed"}]
      /\ \A x \in Event : x # e => event'[x] = event[x]
      /\ event'[e] \in {"dispatched", "completed"}
    BY DEF WebhookTypeOK
<1>4. ASSUME NEW d \in Delivery
      PROVE  /\ event'[d[1]] \in {"none", "pending"} => status'[d] = "none"
             /\ status'[d] = "none" => attempt'[d] = 0 /\ d \notin received'
             /\ status'[d] \in {"delivering", "retry"} \cup Ended => attempt'[d] > 0
             /\ d \in leased' => status'[d] = "delivering"
    <2>1. d[1] \in Event
        BY DEF Delivery
    <2>2. CASE d \in D
        BY <1>1, <1>2, <1>3, <2>1, <2>2 DEF WebhookTypeOK, historyVars
    <2>3. CASE d \notin D
        BY <1>2, <1>3, <2>1, <2>3 DEF WebhookTypeOK, historyVars
    <2> QED BY <2>2, <2>3
<1>5. \A w \in Worker : holding'[w] # NoClaim =>
        status'[holding'[w].delivery] # "none" /\ holding'[w].max \in limits'[holding'[w].delivery]
    BY <1>2, HeldClaim DEF WebhookTypeOK, historyVars
<1>6. /\ status' \in [Delivery -> DeliveryStatus]
      /\ active' \in SUBSET Endpoint
      /\ subscribers' \in [Event -> SUBSET Endpoint]
      /\ maxAttempts' \in [Endpoint -> Limit]
      /\ attempt' \in [Delivery -> Nat]
      /\ leased' \in SUBSET Delivery
      /\ holding' \in [Worker -> Claim \cup {NoClaim}]
      /\ received' \in SUBSET Delivery
      /\ limits' \in [Delivery -> SUBSET Limit]
      /\ lost' \in [Delivery -> Nat]
      /\ replays' \in [Delivery -> Nat]
      /\ faults' \in Nat /\ edits' \in Nat
    BY <1>2 DEF WebhookTypeOK, endpointVars, historyVars
<1> QED BY <1>3, <1>4, <1>5, <1>6 DEF WebhookTypeOK

\* WebhookTypeOK is inductive by itself: rows, leases, claims and events agree
\* about which deliveries exist.
THEOREM WebhookTypeCorrect == Spec => []WebhookTypeOK
<1>1. Init => WebhookTypeOK
    BY EndpointsAssumption DEF Init, WebhookTypeOK, Delivery, DeliveryStatus, Ended
<1>2. WebhookTypeOK /\ [Next]_vars => WebhookTypeOK'
    <2> SUFFICES ASSUME WebhookTypeOK, [Next]_vars PROVE WebhookTypeOK'
        OBVIOUS
    <2> USE DEF DeliveryStatus, Ended
    <2>1. ASSUME NEW e \in Event, InsertOutboxEvent(e) PROVE WebhookTypeOK'
        BY <2>1 DEF InsertOutboxEvent, WebhookTypeOK, endpointVars, historyVars
    <2>2. ASSUME NEW e \in Event, DispatchOutbox(e) PROVE WebhookTypeOK'
        <3> DEFINE created == {e} \X (active \cap subscribers[e])
        <3>1. \A d \in created : d \in Delivery /\ d[1] = e
            BY CreatedDeliveries
        <3>2. PICK new \in {"dispatched", "completed"} : event' = [event EXCEPT ![e] = new]
            BY <2>2 DEF DispatchOutbox
        <3>3. /\ event[e] = "pending" /\ Enqueue(created)
              /\ UNCHANGED <<endpointVars, attempt, leased, holding, historyVars, faults, edits>>
            BY <2>2 DEF DispatchOutbox
        <3> HIDE DEF created
        <3> QED BY <3>1, <3>2, <3>3, EnqueueKeepsTypes
    <2>3. ASSUME NEW e \in Event, NEW n \in Endpoint, CreateTestWebhookEvent(e, n) PROVE WebhookTypeOK'
        <3>1. \A d \in {<<e, n>>} : d \in Delivery /\ d[1] = e
            BY DEF Delivery
        <3> QED BY <2>3, <3>1, EnqueueKeepsTypes DEF CreateTestWebhookEvent
    <2>4. ASSUME NEW w \in Worker, NEW d \in Delivery, ClaimDelivery(w, d) PROVE WebhookTypeOK'
        <3> DEFINE new == [delivery |-> d, attempt |-> attempt[d] + 1, max |-> maxAttempts[d[2]],
                           answer |-> "none"]
        <3>1. new \in Claim /\ maxAttempts[d[2]] \in Limit
            BY DEF Claim, Answer, WebhookTypeOK, Delivery
        <3>2. holding' \in [Worker -> Claim \cup {NoClaim}]
            BY <2>4, <3>1 DEF ClaimDelivery, WebhookTypeOK
        <3>3. \A v \in Worker : holding'[v] # NoClaim =>
                status'[holding'[v].delivery] # "none" /\ holding'[v].max \in limits'[holding'[v].delivery]
            <4> SUFFICES ASSUME NEW v \in Worker, holding'[v] # NoClaim
                         PROVE  /\ status'[holding'[v].delivery] # "none"
                                /\ holding'[v].max \in limits'[holding'[v].delivery]
                OBVIOUS
            <4>1. CASE v = w
                BY <2>4, <4>1 DEF ClaimDelivery, WebhookTypeOK
            <4>2. CASE v # w
                BY <2>4, <4>2, HeldClaim DEF ClaimDelivery, WebhookTypeOK
            <4> QED BY <4>1, <4>2
        <3>4. \A x \in Delivery :
                /\ event'[x[1]] \in {"none", "pending"} => status'[x] = "none"
                /\ status'[x] = "none" => attempt'[x] = 0 /\ x \notin received'
                /\ status'[x] \in {"delivering", "retry"} \cup Ended => attempt'[x] > 0
                /\ x \in leased' => status'[x] = "delivering"
            BY <2>4 DEF ClaimDelivery, Due, WebhookTypeOK
        <3>5. limits' \in [Delivery -> SUBSET Limit]
            BY <2>4, <3>1 DEF ClaimDelivery, WebhookTypeOK
        <3> QED BY <2>4, <3>2, <3>3, <3>4, <3>5 DEF ClaimDelivery, WebhookTypeOK, endpointVars
    <2>5. ASSUME NEW w \in Worker, SendWebhook(w) PROVE WebhookTypeOK'
        <3>1. PICK a \in {"ok", "bad"} : Answered(w, a)
            BY <2>5 DEF SendWebhook
        <3>2. [holding[w] EXCEPT !.answer = a] \in Claim
            BY <2>5, HeldClaim DEF SendWebhook, Claim, Answer
        <3>3. /\ [holding[w] EXCEPT !.answer = a].delivery = holding[w].delivery
              /\ [holding[w] EXCEPT !.answer = a].max = holding[w].max
            BY <2>5, HeldClaim DEF SendWebhook, Claim
        <3>4. /\ holding' \in [Worker -> Claim \cup {NoClaim}]
              /\ \A v \in Worker : holding'[v] # NoClaim =>
                    /\ holding[v] # NoClaim /\ holding'[v].delivery = holding[v].delivery
                    /\ holding'[v].max = holding[v].max
            BY <2>5, <3>1, <3>2, <3>3 DEF SendWebhook, Answered, WebhookTypeOK
        <3>5. received' \in {received, received \cup {holding[w].delivery}}
            BY <2>5 DEF SendWebhook
        <3> QED BY <2>5, <3>4, <3>5, HeldClaim DEF SendWebhook, WebhookTypeOK, tableVars, endpointVars
    <2>6. ASSUME NEW w \in Worker, FinishDelivery(w) PROVE WebhookTypeOK'
        <3> DEFINE c == holding[w]
        <3>1. c \in Claim /\ c.delivery \in Delivery /\ c.delivery[1] \in Event
            BY <2>6, HeldClaim DEF FinishDelivery
        <3>2. Outcome(c) \in {"succeeded", "dead", "retry"}
            BY Outcomes
        <3>3. event' = event \/ event' = [event EXCEPT ![c.delivery[1]] = "completed"]
            BY <2>6 DEF FinishDelivery, CompleteEvent
        <3>4. status[c.delivery] # "none" /\ event[c.delivery[1]] \notin {"none", "pending"}
            BY <2>6, <3>1 DEF FinishDelivery, WebhookTypeOK
        <3>5. /\ event' \in [Event -> {"none", "pending", "dispatched", "completed"}]
              /\ \A e \in Event : event'[e] \in {"none", "pending"} => event[e] \in {"none", "pending"}
            BY <3>1, <3>3, <3>4 DEF WebhookTypeOK
        <3>6. CASE Fenced(c)
            <4>1. status' = [status EXCEPT ![c.delivery] = Outcome(c)] /\ leased' = leased \ {c.delivery}
                BY <2>6, <3>6 DEF FinishDelivery
            <4>2. attempt[c.delivery] > 0
                BY <3>1, <3>6 DEF Fenced, WebhookTypeOK
            <4> QED BY <2>6, <3>1, <3>2, <3>4, <3>5, <4>1, <4>2
                DEF FinishDelivery, WebhookTypeOK, endpointVars, historyVars, Delivery
        <3>7. CASE ~Fenced(c)
            BY <2>6, <3>5, <3>7 DEF FinishDelivery, WebhookTypeOK, endpointVars, historyVars, Delivery
        <3> QED BY <3>6, <3>7
    <2>7. ASSUME NEW w \in Worker, LoseClaim(w) PROVE WebhookTypeOK'
        BY <2>7 DEF LoseClaim, WebhookTypeOK, tableVars, endpointVars, historyVars
    <2>8. ASSUME NEW d \in Delivery, LeaseLapses(d) PROVE WebhookTypeOK'
        BY <2>8 DEF LeaseLapses, WebhookTypeOK, endpointVars
    <2>9. ASSUME NEW d \in Delivery, ReplayWebhookDelivery(d) PROVE WebhookTypeOK'
        BY <2>9 DEF ReplayWebhookDelivery, WebhookTypeOK, endpointVars
    <2>10. ASSUME NEW n \in Endpoint, UpdateWebhookEndpoint(n) PROVE WebhookTypeOK'
        BY <2>10 DEF UpdateWebhookEndpoint, WebhookTypeOK, historyVars
    <2>11. CASE UNCHANGED vars
        BY <2>11 DEF vars, tableVars, endpointVars, historyVars, WebhookTypeOK
    <2> QED BY <2>1, <2>2, <2>3, <2>4, <2>5, <2>6, <2>7, <2>8, <2>9, <2>10, <2>11 DEF Next, WorkerStep
<1> QED BY <1>1, <1>2, PTL DEF Spec

-----------------------------------------------------------------------------
\* A delivery stands within a maximum it was claimed under; and the strengthening:
\* one that may be claimed again, after a try, has a try left or lost one.
Within(d) == attempt[d] > 0 => \E m \in limits[d] : attempt[d] <= m + lost[d]
Left(d) == Due(d) /\ attempt[d] > 0 => \E m \in limits[d] : attempt[d] < m + lost[d]
TriesLeft == \A d \in Delivery : Left(d)

\* AttemptsBounded holds for any maxima and any edits of them: only
\* finishDelivery makes a delivery due again after a try that was not lost, and
\* it compares with the maximum of a claim of that delivery.
THEOREM AttemptsStayBounded == Spec => []AttemptsBounded
<1> DEFINE Inv == WebhookTypeOK /\ TriesLeft /\ AttemptsBounded
<1>1. Init => TriesLeft /\ AttemptsBounded
    BY DEF Init, TriesLeft, Left, AttemptsBounded
<1>2. Inv /\ WebhookTypeOK' /\ [Next]_vars => (TriesLeft /\ AttemptsBounded)'
    <2> SUFFICES ASSUME WebhookTypeOK, WebhookTypeOK', TriesLeft, AttemptsBounded, [Next]_vars,
                        NEW d \in Delivery
                 PROVE  Left(d)' /\ Within(d)'
        BY DEF TriesLeft, AttemptsBounded, Within
    <2>0. /\ d[2] \in Endpoint /\ attempt[d] \in Nat /\ lost[d] \in Nat
          /\ limits[d] \subseteq Nat \ {0}
          /\ Left(d) /\ Within(d)
          /\ status[d] = "none" => attempt[d] = 0
        BY LimitAssumption DEF TriesLeft, AttemptsBounded, Within, WebhookTypeOK, Delivery
    <2>a. ASSUME UNCHANGED <<attempt, limits, lost, leased>>,
                 status'[d] = status[d] \/ (status[d] = "none" /\ status'[d] = "pending")
          PROVE  Left(d)' /\ Within(d)'
        BY <2>0, <2>a DEF Due, Left, Within
    <2>1. ASSUME NEW e \in Event, InsertOutboxEvent(e) PROVE status' = status
        BY <2>1 DEF InsertOutboxEvent
    <2>2. ASSUME NEW e \in Event, DispatchOutbox(e) 
          PROVE  status'[d] = status[d] \/ (status[d] = "none" /\ status'[d] = "pending")
        <3>1. CASE d \in {e} \X (active \cap subscribers[e])
            BY <2>2, <3>1, CreatedDeliveries DEF DispatchOutbox, Enqueue, WebhookTypeOK
        <3>2. CASE d \notin {e} \X (active \cap subscribers[e])
            BY <2>2, <3>2 DEF DispatchOutbox, Enqueue
        <3> QED BY <3>1, <3>2
    <2>3. ASSUME NEW e \in Event, NEW n \in Endpoint, CreateTestWebhookEvent(e, n)
          PROVE  status'[d] = status[d] \/ (status[d] = "none" /\ status'[d] = "pending")
        BY <2>3 DEF CreateTestWebhookEvent, Enqueue, WebhookTypeOK, Delivery
    <2>4. ASSUME NEW w \in Worker, NEW x \in Delivery, ClaimDelivery(w, x)
          PROVE  Left(d)' /\ Within(d)'
        <3>1. CASE x = d
            <4> DEFINE m == maxAttempts[d[2]]
            <4>1. m \in Nat \ {0}
                BY <2>0, LimitAssumption DEF WebhookTypeOK
            <4>2. /\ attempt'[d] = attempt[d] + 1 /\ lost' = lost
                  /\ limits'[d] = limits[d] \cup {m}
                  /\ Due(d) /\ d \in leased' /\ status'[d] = "delivering"
                BY <2>4, <3>1 DEF ClaimDelivery, WebhookTypeOK
            <4>3. CASE attempt[d] = 0
                BY <2>0, <4>1, <4>2, <4>3 DEF Due, Left, Within
            <4>4. CASE attempt[d] > 0
                <5>1. PICK k \in limits[d] : attempt[d] < k + lost[d]
                    BY <4>2, <4>4, <2>0 DEF Left
                <5> HIDE DEF m
                <5> QED BY <2>0, <4>2, <5>1 DEF Due, Left, Within
            <4> HIDE DEF m
            <4> QED BY <2>0, <4>3, <4>4
        <3>2. CASE x # d
            <4>1. /\ attempt'[d] = attempt[d] /\ lost' = lost /\ limits'[d] = limits[d]
                  /\ status'[d] = status[d] /\ (d \in leased' <=> d \in leased)
                BY <2>4, <3>2 DEF ClaimDelivery, WebhookTypeOK
            <4> QED BY <2>0, <4>1 DEF Due, Left, Within
        <3> QED BY <3>1, <3>2
    <2>5. ASSUME NEW w \in Worker, FinishDelivery(w) PROVE Left(d)' /\ Within(d)'
        <3> DEFINE c == holding[w]
        <3>1. /\ c \in Claim /\ c.delivery \in Delivery /\ c.attempt \in Nat
              /\ c.max \in limits[c.delivery]
            BY <2>5, HeldClaim DEF FinishDelivery
        <3>2. attempt' = attempt /\ limits' = limits /\ lost' = lost
            BY <2>5 DEF FinishDelivery, historyVars
        <3>3. CASE Fenced(c) /\ c.delivery = d
            <4>1. status'[d] = Outcome(c) /\ attempt[d] = c.attempt
                BY <2>5, <3>3 DEF FinishDelivery, Fenced, WebhookTypeOK
            <4>2. c.max \in limits[d] /\ c.max \in Nat /\ c.attempt \in Nat
                BY <2>0, <3>1, <3>3
            <4>3. Outcome(c) = "retry" => c.attempt < c.max
                BY <4>2 DEF Outcome
            <4>4. Outcome(c) \in {"succeeded", "dead", "retry"}
                BY Outcomes
            <4> HIDE DEF c
            <4> QED BY <2>0, <3>2, <4>1, <4>2, <4>3, <4>4 DEF Due, Left, Within
        <3>4. CASE ~(Fenced(c) /\ c.delivery = d)
            <4>1. status'[d] = status[d] /\ (d \in leased' <=> d \in leased)
                BY <2>5, <3>4 DEF FinishDelivery, WebhookTypeOK
            <4> QED BY <2>0, <3>2, <4>1 DEF Due, Left, Within
        <3> QED BY <3>3, <3>4
    <2>6. ASSUME NEW x \in Delivery, LeaseLapses(x) PROVE Left(d)' /\ Within(d)'
        <3>1. UNCHANGED <<status, attempt, limits>>
            BY <2>6 DEF LeaseLapses
        <3>2. CASE x = d
            <4>1. lost'[d] = lost[d] + 1
                BY <2>6, <3>2 DEF LeaseLapses, WebhookTypeOK
            <4> QED BY <2>0, <3>1, <4>1 DEF Left, Within
        <3>3. CASE x # d
            <4>1. lost'[d] = lost[d] /\ (d \in leased' <=> d \in leased)
                BY <2>6, <3>3 DEF LeaseLapses, WebhookTypeOK
            <4> QED BY <2>0, <3>1, <4>1 DEF Due, Left, Within
        <3> QED BY <3>2, <3>3
    <2>7. ASSUME NEW x \in Delivery, ReplayWebhookDelivery(x) PROVE Left(d)' /\ Within(d)'
        <3>1. CASE x = d
            BY <2>7, <3>1 DEF ReplayWebhookDelivery, Left, Within, WebhookTypeOK
        <3>2. CASE x # d
            <4>1. /\ status'[d] = status[d] /\ attempt'[d] = attempt[d] /\ lost'[d] = lost[d]
                  /\ UNCHANGED <<limits, leased>>
                BY <2>7, <3>2 DEF ReplayWebhookDelivery, WebhookTypeOK
            <4> QED BY <2>0, <4>1 DEF Due, Left, Within
        <3> QED BY <3>1, <3>2
    <2>8. ASSUME NEW w \in Worker, SendWebhook(w) \/ LoseClaim(w)
          PROVE  UNCHANGED <<attempt, limits, lost, leased, status>>
        BY <2>8 DEF SendWebhook, LoseClaim, tableVars, historyVars
    <2>9. ASSUME NEW n \in Endpoint, UpdateWebhookEndpoint(n)
          PROVE  UNCHANGED <<attempt, limits, lost, leased, status>>
        BY <2>9 DEF UpdateWebhookEndpoint, historyVars
    <2>10. CASE \E e \in Event : InsertOutboxEvent(e) \/ DispatchOutbox(e)
                                   \/ \E n \in Endpoint : CreateTestWebhookEvent(e, n)
        <3>1. UNCHANGED <<attempt, limits, lost, leased>>
            BY <2>10 DEF InsertOutboxEvent, DispatchOutbox, CreateTestWebhookEvent, historyVars
        <3> QED BY <2>a, <2>1, <2>2, <2>3, <2>10, <3>1
    <2>11. CASE UNCHANGED vars
        BY <2>a, <2>11 DEF vars, tableVars, historyVars
    <2> QED BY <2>a, <2>4, <2>5, <2>6, <2>7, <2>8, <2>9, <2>10, <2>11 DEF Next, WorkerStep
<1>3. QED BY <1>1, <1>2, WebhookTypeCorrect, PTL DEF Spec

-----------------------------------------------------------------------------
\* A step that moves one delivery to an open status keeps EventsFollowDeliveries,
\* if the delivery was open or its replay is counted.
LEMMA OneDelivery ==
    ASSUME WebhookTypeOK, EventsFollowDeliveries, NEW d \in Delivery,
           event' = event, replays' \in [Delivery -> Nat],
           \A x \in Delivery : replays'[x] >= replays[x],
           \A x \in Delivery : x # d => status'[x] = status[x],
           status'[d] \notin Ended \cup {"none"},
           status[d] \notin Ended \cup {"none"} \/ replays'[d] > 0
    PROVE  EventsFollowDeliveries'
<1> USE DEF Ended
<1>1. d = <<d[1], d[2]>> /\ d[1] \in Event /\ d[2] \in Endpoint
    BY DEF Delivery
<1>2. ASSUME NEW e \in Event, event[e] = "dispatched"
      PROVE  \E n \in Endpoint : status'[<<e, n>>] \notin Ended \cup {"none"}
    <2>1. PICK n \in Endpoint : status[<<e, n>>] \notin Ended \cup {"none"}
        BY <1>2 DEF EventsFollowDeliveries
    <2>2. <<e, n>> \in Delivery
        BY DEF Delivery
    <2>3. CASE <<e, n>> = d
        BY <2>3
    <2>4. CASE <<e, n>> # d
        BY <2>1, <2>2, <2>4
    <2> QED BY <2>3, <2>4
<1>3. ASSUME NEW e \in Event, event[e] = "completed", NEW n \in Endpoint
      PROVE  status'[<<e, n>>] \in Ended \cup {"none"} \/ replays'[<<e, n>>] > 0
    <2>1. <<e, n>> \in Delivery
        BY DEF Delivery
    <2>2. status[<<e, n>>] \in Ended \cup {"none"} \/ replays[<<e, n>>] > 0
        BY <1>3 DEF EventsFollowDeliveries
    <2>3. replays'[<<e, n>>] \in Nat /\ replays[<<e, n>>] \in Nat /\ replays'[<<e, n>>] >= replays[<<e, n>>]
        BY <2>1 DEF WebhookTypeOK
    <2>4. CASE <<e, n>> = d
        BY <2>2, <2>3, <2>4
    <2>5. CASE <<e, n>> # d
        BY <2>1, <2>2, <2>3, <2>5
    <2> QED BY <2>4, <2>5
<1> QED BY <1>2, <1>3 DEF EventsFollowDeliveries

\* New rows, and the status that goes with them, keep EventsFollowDeliveries.
LEMMA NewDeliveries ==
    ASSUME WebhookTypeOK, EventsFollowDeliveries,
           NEW e \in Event, event[e] \in {"none", "pending"},
           NEW D, \A d \in D : d \in Delivery /\ d[1] = e, Enqueue(D),
           event' = [event EXCEPT ![e] = IF D = {} THEN "completed" ELSE "dispatched"],
           replays' = replays
    PROVE  EventsFollowDeliveries'
<1> USE DEF Ended
<1>1. \A x \in Event, n \in Endpoint : <<x, n>> \in Delivery
    BY DEF Delivery
<1>2. \A x \in Event, n \in Endpoint : x # e => status'[<<x, n>>] = status[<<x, n>>]
    BY <1>1 DEF Enqueue
<1>3. CASE D = {}
    <2>1. event'[e] = "completed" /\ \A n \in Endpoint : status'[<<e, n>>] = "none"
        BY <1>1, <1>3 DEF Enqueue, WebhookTypeOK
    <2>2. \A x \in Event : x # e => event'[x] = event[x]
        BY DEF WebhookTypeOK
    <2> QED BY <1>2, <2>1, <2>2 DEF EventsFollowDeliveries
<1>4. CASE D # {}
    <2>1. PICK d \in D : TRUE
        BY <1>4
    <2>2. d = <<e, d[2]>> /\ d[2] \in Endpoint /\ status'[d] = "pending"
        BY <2>1 DEF Delivery, Enqueue
    <2>3. event'[e] = "dispatched" /\ \A x \in Event : x # e => event'[x] = event[x]
        BY <1>4 DEF WebhookTypeOK
    <2>4. \E n \in Endpoint : status'[<<e, n>>] \notin Ended \cup {"none"}
        BY <2>2
    <2> QED BY <1>2, <2>3, <2>4 DEF EventsFollowDeliveries
<1> QED BY <1>3, <1>4

\* No event is left "dispatched" with nothing to do, and none is completed
\* early: whichever of any number of workers settles the last delivery sees it.
THEOREM EventsFollow == Spec => []EventsFollowDeliveries
<1>1. Init => EventsFollowDeliveries
    BY DEF Init, EventsFollowDeliveries
<1>2. WebhookTypeOK /\ EventsFollowDeliveries /\ WebhookTypeOK' /\ [Next]_vars => EventsFollowDeliveries'
    <2> SUFFICES ASSUME WebhookTypeOK, EventsFollowDeliveries, WebhookTypeOK', [Next]_vars
                 PROVE  EventsFollowDeliveries'
        OBVIOUS
    <2> USE DEF Ended
    <2>0. ASSUME UNCHANGED <<event, status, replays>> PROVE EventsFollowDeliveries'
        BY <2>0 DEF EventsFollowDeliveries
    <2>1. ASSUME NEW e \in Event, InsertOutboxEvent(e) PROVE EventsFollowDeliveries'
        <3>1. /\ \A x \in Event : event'[x] = event[x] \/ event'[x] = "pending"
              /\ UNCHANGED <<status, replays>>
            BY <2>1 DEF InsertOutboxEvent, WebhookTypeOK, historyVars
        <3> QED BY <3>1 DEF EventsFollowDeliveries
    <2>2. ASSUME NEW e \in Event, DispatchOutbox(e) PROVE EventsFollowDeliveries'
        <3> DEFINE created == {e} \X (active \cap subscribers[e])
        <3>1. \A d \in created : d \in Delivery /\ d[1] = e
            BY CreatedDeliveries
        <3>2. /\ event[e] = "pending" /\ Enqueue(created) /\ replays' = replays
              /\ event' = [event EXCEPT ![e] = IF created = {} THEN "completed" ELSE "dispatched"]
            BY <2>2 DEF DispatchOutbox, historyVars
        <3> HIDE DEF created
        <3> QED BY <3>1, <3>2, NewDeliveries
    <2>3. ASSUME NEW e \in Event, NEW n \in Endpoint, CreateTestWebhookEvent(e, n)
          PROVE  EventsFollowDeliveries'
        <3>1. \A d \in {<<e, n>>} : d \in Delivery /\ d[1] = e
            BY DEF Delivery
        <3>2. event' = [event EXCEPT ![e] = IF {<<e, n>>} = {} THEN "completed" ELSE "dispatched"]
            BY <2>3 DEF CreateTestWebhookEvent
        <3> QED BY <2>3, <3>1, <3>2, NewDeliveries DEF CreateTestWebhookEvent, historyVars
    <2>4. ASSUME NEW w \in Worker, NEW d \in Delivery, ClaimDelivery(w, d) PROVE EventsFollowDeliveries'
        BY <2>4, OneDelivery DEF ClaimDelivery, Due, WebhookTypeOK, historyVars
    <2>5. ASSUME NEW w \in Worker, FinishDelivery(w) PROVE EventsFollowDeliveries'
        <3> DEFINE c == holding[w]
        <3>1. /\ c.delivery \in Delivery /\ c.delivery = <<c.delivery[1], c.delivery[2]>>
              /\ c.delivery[1] \in Event /\ c.delivery[2] \in Endpoint
            BY <2>5, HeldClaim DEF FinishDelivery
        <3>2. replays' = replays /\ \A x \in Delivery : x # c.delivery => status'[x] = status[x]
            BY <2>5 DEF FinishDelivery, historyVars, WebhookTypeOK
        <3>3. status'[c.delivery] # status[c.delivery] => status[c.delivery] = "delivering"
            BY <2>5, <3>1 DEF FinishDelivery, Fenced, WebhookTypeOK
        <3>4. \A e \in Event : event[e] = "completed" =>
                \A n \in Endpoint : status'[<<e, n>>] \in Ended \cup {"none"} \/ replays'[<<e, n>>] > 0
            BY <3>1, <3>2, <3>3 DEF EventsFollowDeliveries, Delivery
        <3>5. \A e \in Event : e # c.delivery[1] =>
                \A n \in Endpoint : status'[<<e, n>>] = status[<<e, n>>]
            BY <3>1, <3>2 DEF Delivery
        <3> DEFINE done == \A n \in Endpoint : status'[<<c.delivery[1], n>>] \in Ended \cup {"none"}
        <3>6. CASE Settles(c) /\ done
            <4>1. event' = [event EXCEPT ![c.delivery[1]] = "completed"]
                BY <2>5, <3>6 DEF FinishDelivery, CompleteEvent
            <4>2. /\ event'[c.delivery[1]] = "completed"
                  /\ \A e \in Event : e # c.delivery[1] => event'[e] = event[e]
                BY <3>1, <4>1 DEF WebhookTypeOK
            <4> HIDE DEF c
            <4> QED BY <3>2, <3>4, <3>5, <3>6, <4>2 DEF EventsFollowDeliveries
        <3>7. CASE Settles(c) /\ ~done
            <4>1. event' = event
                BY <2>5, <3>7 DEF FinishDelivery, CompleteEvent
            <4> HIDE DEF c
            <4> QED BY <3>2, <3>4, <3>5, <3>7, <4>1 DEF EventsFollowDeliveries
        <3>8. CASE ~Settles(c)
            <4>1. event' = event
                BY <2>5, <3>8 DEF FinishDelivery
            <4>2. Outcome(c) = "retry"
                BY <3>8 DEF Outcome, Settles
            <4>3. CASE Fenced(c)
                <5>1. status'[c.delivery] = "retry" /\ status[c.delivery] = "delivering"
                    BY <2>5, <3>1, <4>2, <4>3 DEF FinishDelivery, Fenced, WebhookTypeOK
                <5>2. \A x \in Delivery : replays'[x] >= replays[x]
                    BY <3>2 DEF WebhookTypeOK
                <5>3. replays' \in [Delivery -> Nat]
                    BY <3>2 DEF WebhookTypeOK
                <5> HIDE DEF c
                <5> QED BY <3>1, <3>2, <4>1, <5>1, <5>2, <5>3, OneDelivery
            <4>4. CASE ~Fenced(c)
                BY <2>0, <2>5, <3>2, <4>1, <4>4 DEF FinishDelivery
            <4> QED BY <4>3, <4>4
        <3> QED BY <3>6, <3>7, <3>8
    <2>6. ASSUME NEW d \in Delivery, ReplayWebhookDelivery(d) PROVE EventsFollowDeliveries'
        BY <2>6, OneDelivery DEF ReplayWebhookDelivery, WebhookTypeOK
    <2>7. ASSUME NEW w \in Worker, SendWebhook(w) \/ LoseClaim(w) PROVE EventsFollowDeliveries'
        BY <2>0, <2>7 DEF SendWebhook, LoseClaim, tableVars, historyVars
    <2>8. ASSUME NEW d \in Delivery, LeaseLapses(d) PROVE EventsFollowDeliveries'
        BY <2>0, <2>8 DEF LeaseLapses
    <2>9. ASSUME NEW n \in Endpoint, UpdateWebhookEndpoint(n) PROVE EventsFollowDeliveries'
        BY <2>0, <2>9 DEF UpdateWebhookEndpoint, historyVars
    <2>10. CASE UNCHANGED vars
        BY <2>0, <2>10 DEF vars, tableVars, historyVars
    <2> QED BY <2>1, <2>2, <2>3, <2>4, <2>5, <2>6, <2>7, <2>8, <2>9, <2>10 DEF Next, WorkerStep
<1> QED BY <1>1, <1>2, WebhookTypeCorrect, PTL DEF Spec

-----------------------------------------------------------------------------
\* A worker that holds a 2xx answer holds it of the endpoint.
AnswersReceived ==
    \A w \in Worker :
        holding[w] # NoClaim /\ holding[w].answer = "ok" => holding[w].delivery \in received

LEMMA AnswersReceivedInvariant == Spec => []AnswersReceived
<1>1. Init => AnswersReceived
    BY DEF Init, AnswersReceived
<1>2. WebhookTypeOK /\ AnswersReceived /\ [Next]_vars => AnswersReceived'
    <2> SUFFICES ASSUME WebhookTypeOK, AnswersReceived, [Next]_vars PROVE AnswersReceived'
        OBVIOUS
    <2>1. ASSUME NEW w \in Worker, NEW d \in Delivery, ClaimDelivery(w, d) PROVE AnswersReceived'
        BY <2>1 DEF ClaimDelivery, AnswersReceived, WebhookTypeOK, historyVars
    <2>2. ASSUME NEW w \in Worker, SendWebhook(w) PROVE AnswersReceived'
        <3>1. CASE Answered(w, "ok") /\ received' = received \cup {holding[w].delivery}
            <4>1. holding[w] \in Claim /\ holding[w] # NoClaim
                BY <2>2, HeldClaim DEF SendWebhook
            <4>2. holding'[w].delivery = holding[w].delivery
                BY <3>1, <4>1 DEF Answered, WebhookTypeOK, Claim
            <4>3. \A v \in Worker : v # w => holding'[v] = holding[v]
                BY <3>1 DEF Answered, WebhookTypeOK
            <4> QED BY <3>1, <4>2, <4>3 DEF AnswersReceived
        <3>2. CASE Answered(w, "bad") /\ received' \in {received, received \cup {holding[w].delivery}}
            <4>1. holding[w] \in Claim /\ holding[w] # NoClaim
                BY <2>2, HeldClaim DEF SendWebhook
            <4>2. holding'[w].answer = "bad"
                BY <3>2, <4>1 DEF Answered, WebhookTypeOK, Claim
            <4>3. \A v \in Worker : v # w => holding'[v] = holding[v]
                BY <3>2 DEF Answered, WebhookTypeOK
            <4> QED BY <3>2, <4>2, <4>3 DEF AnswersReceived
        <3> QED BY <2>2, <3>1, <3>2 DEF SendWebhook
    <2>3. ASSUME NEW w \in Worker, FinishDelivery(w) \/ LoseClaim(w) PROVE AnswersReceived'
        BY <2>3 DEF FinishDelivery, LoseClaim, AnswersReceived, WebhookTypeOK, historyVars
    <2>4. CASE UNCHANGED <<holding, received>>
        BY <2>4 DEF AnswersReceived
    <2>5. ASSUME NEW e \in Event,
                 \/ InsertOutboxEvent(e) \/ DispatchOutbox(e)
                 \/ \E n \in Endpoint : CreateTestWebhookEvent(e, n)
          PROVE  UNCHANGED <<holding, received>>
        BY <2>5 DEF InsertOutboxEvent, DispatchOutbox, CreateTestWebhookEvent, historyVars
    <2>6. ASSUME NEW d \in Delivery, LeaseLapses(d) \/ ReplayWebhookDelivery(d)
          PROVE  UNCHANGED <<holding, received>>
        BY <2>6 DEF LeaseLapses, ReplayWebhookDelivery
    <2>7. ASSUME NEW n \in Endpoint, UpdateWebhookEndpoint(n) PROVE UNCHANGED <<holding, received>>
        BY <2>7 DEF UpdateWebhookEndpoint, historyVars
    <2>8. CASE UNCHANGED vars
        BY <2>4, <2>8 DEF vars, historyVars
    <2> QED BY <2>1, <2>2, <2>3, <2>4, <2>5, <2>6, <2>7, <2>8 DEF Next, WorkerStep
<1> QED BY <1>1, <1>2, WebhookTypeCorrect, PTL DEF Spec

\* The status of a delivery as the promise sees it.
Seen(s) ==
    IF s = "none" THEN "none" ELSE IF s = "succeeded" THEN "delivered"
    ELSE IF s = "dead" THEN "given up" ELSE "owed"
SeenState == [d \in Delivery |-> Seen(status[d])]

\* A step that only moves delivery d changes the promise's state at d alone.
LEMMA SeenAtOne ==
    ASSUME NEW d \in Delivery, \A x \in Delivery : x # d => status'[x] = status[x]
    PROVE  SeenState' = [SeenState EXCEPT ![d] = Seen(status'[d])]
BY DEF SeenState, Seen

\* The workers, with their leases, crashes and late results, keep the promise
\* of ReliableDelivery: nothing is reported delivered that was not received,
\* nothing is given up early, and only a replay reopens a settled delivery.
THEOREM WorkersImplementReliableDelivery == Spec => ImplementsReliableDelivery
<1> DEFINE PNext == [Promise!DeliveryNext]_(Promise!deliveryVars)
<1>0. SeenState = [d \in Delivery |-> IF status[d] = "none" THEN "none"
                   ELSE IF status[d] = "succeeded" THEN "delivered"
                   ELSE IF status[d] = "dead" THEN "given up" ELSE "owed"]
    BY DEF SeenState, Seen
<1>1. Init => Promise!DeliveryInit
    BY DEF Init, Promise!DeliveryInit
<1>2. WebhookTypeOK /\ AnswersReceived /\ [Next]_vars => PNext
    <2> SUFFICES ASSUME WebhookTypeOK, AnswersReceived, [Next]_vars PROVE PNext
        OBVIOUS
    <2>0. ASSUME UNCHANGED <<status, attempt, limits, received>> PROVE PNext
        BY <2>0 DEF Promise!deliveryVars
    <2>a. ASSUME NEW D \in SUBSET Delivery, \A d \in D : status[d] = "none",
                 Enqueue(D), UNCHANGED <<attempt, limits, received>>
          PROVE  PNext
        <3>1. Promise!Owe(D)
            BY <2>a DEF Enqueue, Promise!Owe
        <3> QED BY <3>1 DEF Promise!DeliveryNext
    <2>b. ASSUME NEW d \in Delivery, Promise!Deliver(d) \/ Promise!GiveUp(d) PROVE PNext
        BY <2>b DEF Promise!DeliveryNext
    <2>1. ASSUME NEW e \in Event, DispatchOutbox(e) PROVE PNext
        <3> DEFINE created == {e} \X (active \cap subscribers[e])
        <3>1. \A d \in created : d \in Delivery /\ d[1] = e
            BY CreatedDeliveries
        <3>2. event[e] = "pending" /\ Enqueue(created) /\ UNCHANGED <<attempt, limits, received>>
            BY <2>1 DEF DispatchOutbox, historyVars
        <3> HIDE DEF created
        <3>3. created \in SUBSET Delivery /\ \A d \in created : status[d] = "none"
            BY <3>1, <3>2 DEF WebhookTypeOK
        <3> QED BY <2>a, <3>2, <3>3
    <2>2. ASSUME NEW e \in Event, NEW n \in Endpoint, CreateTestWebhookEvent(e, n) PROVE PNext
        <3>1. {<<e, n>>} \in SUBSET Delivery /\ \A d \in {<<e, n>>} : status[d] = "none"
            BY <2>2 DEF CreateTestWebhookEvent, WebhookTypeOK, Delivery
        <3> QED BY <2>2, <2>a, <3>1 DEF CreateTestWebhookEvent, historyVars
    <2>3. ASSUME NEW w \in Worker, NEW d \in Delivery, ClaimDelivery(w, d) PROVE PNext
        <3>1. status[d] \in {"pending", "retry", "delivering"} /\ status'[d] = "delivering"
              /\ \A x \in Delivery : x # d => status'[x] = status[x]
            BY <2>3 DEF ClaimDelivery, Due, WebhookTypeOK
        <3>2. SeenState' = SeenState /\ SeenState[d] = "owed"
            BY <3>1 DEF SeenState, Seen
        <3>3. maxAttempts[d[2]] \in Limit
            BY DEF WebhookTypeOK, Delivery
        <3>4. Promise!Try(d)
            BY <2>3, <3>2, <3>3, <1>0 DEF ClaimDelivery, Promise!Try, SeenState, Seen
        <3> QED BY <3>4 DEF Promise!DeliveryNext
    <2>4. ASSUME NEW w \in Worker, SendWebhook(w) PROVE PNext
        <3>1. holding[w].delivery \in Delivery /\ status[holding[w].delivery] # "none"
            BY <2>4, HeldClaim DEF SendWebhook, WebhookTypeOK
        <3>2. UNCHANGED <<status, attempt, limits>>
              /\ received' \in {received, received \cup {holding[w].delivery}}
            BY <2>4 DEF SendWebhook, tableVars
        <3>3. CASE received' = received
            BY <2>0, <3>2, <3>3
        <3>4. CASE received' = received \cup {holding[w].delivery}
            <4>1. Promise!Receive(holding[w].delivery)
                BY <3>1, <3>2, <3>4 DEF Promise!Receive
            <4> QED BY <3>1, <4>1 DEF Promise!DeliveryNext
        <3> QED BY <3>2, <3>3, <3>4
    <2>5. ASSUME NEW w \in Worker, FinishDelivery(w) PROVE PNext
        <3> DEFINE c == holding[w]
        <3>0. PICK d \in Delivery : d = c.delivery
            BY <2>5, HeldClaim DEF FinishDelivery
        <3>1. c # NoClaim /\ c \in Claim /\ UNCHANGED <<attempt, limits, received>>
            BY <2>5, HeldClaim DEF FinishDelivery, historyVars
        <3>2. CASE Fenced(c)
            <4>1. /\ status[d] = "delivering" /\ attempt[d] = c.attempt
                  /\ status' = [status EXCEPT ![d] = Outcome(c)]
                BY <2>5, <3>0, <3>2 DEF FinishDelivery, Fenced
            <4>2. CASE Outcome(c) = "succeeded"
                <5>1. d \in received
                    BY <3>0, <3>1, <4>2 DEF Outcome, AnswersReceived
                <5>2. Promise!Deliver(d)
                    BY <3>1, <4>1, <4>2, <5>1 DEF Promise!Deliver, WebhookTypeOK
                <5> QED BY <2>b, <5>2
            <4>3. CASE Outcome(c) = "dead"
                <5>1. c.max \in limits[d] /\ c.attempt >= c.max
                    BY <2>5, <3>0, <4>3, HeldClaim DEF FinishDelivery, Outcome
                <5>2. Promise!GiveUp(d)
                    BY <3>1, <4>1, <4>3, <5>1 DEF Promise!GiveUp, WebhookTypeOK
                <5> QED BY <2>b, <5>2
            <4>4. CASE Outcome(c) = "retry"
                <5>1. status'[d] = "retry" /\ \A x \in Delivery : x # d => status'[x] = status[x]
                    BY <3>1, <4>1, <4>4 DEF WebhookTypeOK
                <5>2. SeenState' = SeenState
                    BY <4>1, <5>1 DEF SeenState, Seen
                <5> QED BY <3>1, <5>2 DEF SeenState, Seen, Promise!deliveryVars
            <4> QED BY <4>2, <4>3, <4>4, Outcomes
        <3>3. CASE ~Fenced(c)
            BY <2>0, <2>5, <3>1, <3>3 DEF FinishDelivery
        <3> QED BY <3>2, <3>3
    <2>6. ASSUME NEW d \in Delivery, ReplayWebhookDelivery(d) PROVE PNext
        <3>1. Promise!Reopen(d)
            BY <2>6 DEF ReplayWebhookDelivery, Promise!Reopen, WebhookTypeOK
        <3> QED BY <3>1 DEF Promise!DeliveryNext
    <2>7. ASSUME NEW e \in Event, InsertOutboxEvent(e) PROVE PNext
        BY <2>0, <2>7 DEF InsertOutboxEvent, historyVars
    <2>8. ASSUME NEW w \in Worker, LoseClaim(w) PROVE PNext
        BY <2>0, <2>8 DEF LoseClaim, tableVars, historyVars
    <2>9. ASSUME NEW d \in Delivery, LeaseLapses(d) PROVE PNext
        BY <2>0, <2>9 DEF LeaseLapses
    <2>10. ASSUME NEW n \in Endpoint, UpdateWebhookEndpoint(n) PROVE PNext
        BY <2>0, <2>10 DEF UpdateWebhookEndpoint, historyVars
    <2>11. CASE UNCHANGED vars
        BY <2>0, <2>11 DEF vars, tableVars, historyVars
    <2> QED BY <2>1, <2>2, <2>3, <2>4, <2>5, <2>6, <2>7, <2>8, <2>9, <2>10, <2>11 DEF Next, WorkerStep
<1> QED BY <1>1, <1>2, WebhookTypeCorrect, AnswersReceivedInvariant, PTL
    DEF Spec, ImplementsReliableDelivery, Promise!DeliverySpec

=============================================================================
