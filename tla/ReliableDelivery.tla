-------------------------- MODULE ReliableDelivery --------------------------
(***************************************************************************)
(* What the webhooks promise about one event and one endpoint, whatever    *)
(* the workers, their leases and their crashes do: once owed, an event is  *)
(* tried until the receiver took it or the tries are used up that the      *)
(* endpoint allowed at one of them.  Nothing is reported delivered that was *)
(* never received, nothing is given up early, and only a replay opens a    *)
(* settled delivery again.  The receiver may get an event more than once.  *)
(***************************************************************************)
EXTENDS Naturals

CONSTANTS Delivery, Limit

VARIABLES
    state,      \* "none", "owed", "delivered" or "given up"
    tries,      \* tries since the delivery was opened
    limits,     \* the numbers of tries the endpoint allowed when it was tried
    received    \* deliveries the receiver acknowledged at least once

deliveryVars == <<state, tries, limits, received>>

Settled == {"delivered", "given up"}

DeliveryInit ==
    /\ state = [d \in Delivery |-> "none"]
    /\ tries = [d \in Delivery |-> 0]
    /\ limits = [d \in Delivery |-> {}]
    /\ received = {}

\* An event is owed to all its endpoints at once.
Owe(D) ==
    /\ \A d \in D : state[d] = "none"
    /\ state' = [d \in Delivery |-> IF d \in D THEN "owed" ELSE state[d]]
    /\ UNCHANGED <<tries, limits, received>>

Try(d) ==
    /\ state[d] = "owed"
    /\ tries' = [tries EXCEPT ![d] = @ + 1]
    /\ \E m \in Limit : limits' = [limits EXCEPT ![d] = @ \cup {m}]
    /\ UNCHANGED <<state, received>>

\* A call may reach the receiver late, even after the delivery is settled.
Receive(d) ==
    /\ state[d] # "none"
    /\ received' = received \cup {d}
    /\ UNCHANGED <<state, tries, limits>>

Deliver(d) ==
    /\ state[d] = "owed" /\ d \in received
    /\ state' = [state EXCEPT ![d] = "delivered"]
    /\ UNCHANGED <<tries, limits, received>>

GiveUp(d) ==
    /\ state[d] = "owed" /\ (\E m \in limits[d] : tries[d] >= m)
    /\ state' = [state EXCEPT ![d] = "given up"]
    /\ UNCHANGED <<tries, limits, received>>

Reopen(d) ==
    /\ state[d] # "none"
    /\ state' = [state EXCEPT ![d] = "owed"]
    /\ tries' = [tries EXCEPT ![d] = 0]
    /\ UNCHANGED <<limits, received>>

DeliveryNext ==
    \/ \E D \in SUBSET Delivery : Owe(D)
    \/ \E d \in Delivery :
        \/ Try(d) \/ Receive(d) \/ Deliver(d) \/ GiveUp(d) \/ Reopen(d)

DeliverySpec == DeliveryInit /\ [][DeliveryNext]_deliveryVars
=============================================================================
