---------------------------- MODULE BuilderNode ----------------------------
(***************************************************************************)
(* The rows of t_builder_node: registration, heartbeat, drain, isolation   *)
(* and recovery of the cloud builders (buildclusterservice.go).  Every     *)
(* handler is one database transaction on one row, hence one action.       *)
(*                                                                         *)
(* last_heartbeat_at is kept as "at most 90 seconds old" (fresh); the disk *)
(* figures as "the last reading was under the isolation threshold"         *)
(* (lowDisk).  consecutive_failures is left out: the worker never sends    *)
(* LastErrorMessage (worker.go:282), so the column stays 0.                *)
(***************************************************************************)
EXTENDS Integers

CONSTANTS
    Node,           \* node codes of the cloud builders
    MaxNodeEvents   \* bound: drains, low readings and silences per behaviour

ASSUME MaxNodeEventsAssumption == MaxNodeEvents \in Nat

VARIABLES
    nodeStatus,     \* t_builder_node.status; "absent" before the first row
    accepting,      \* drain_status is ACCEPTING
    fresh,          \* last_heartbeat_at is at most 90 s old
    lowDisk,        \* last disk reading is under the isolation threshold
    nodeEvents      \* how many of the bounded events have happened

nodeVars == <<nodeStatus, accepting, fresh, lowDisk, nodeEvents>>

NodeStatus == {"absent", "online", "offline", "isolated"}

NodeTypeOK ==
    /\ nodeStatus \in [Node -> NodeStatus]
    /\ accepting \in [Node -> BOOLEAN]
    /\ fresh \in [Node -> BOOLEAN]
    /\ lowDisk \in [Node -> BOOLEAN]
    /\ nodeEvents \in 0..MaxNodeEvents

NodeInit ==
    /\ nodeStatus = [n \in Node |-> "absent"]
    /\ accepting = [n \in Node |-> TRUE]
    /\ fresh = [n \in Node |-> FALSE]
    /\ lowDisk = [n \in Node |-> FALSE]
    /\ nodeEvents = 0

Bounded == nodeEvents < MaxNodeEvents /\ nodeEvents' = nodeEvents + 1

\* Mutant: registration puts any node online.
RegisterOnline(n, low) ==
    /\ nodeStatus' = [nodeStatus EXCEPT ![n] = "online"]
    /\ fresh' = [fresh EXCEPT ![n] = TRUE]
    /\ lowDisk' = [lowDisk EXCEPT ![n] = low]
    /\ UNCHANGED accepting
    /\ IF low THEN Bounded ELSE UNCHANGED nodeEvents

(***************************************************************************)
(* registerBuilderNode: an upsert.  It keeps an isolation and never        *)
(* touches the drain status of an existing row.                            *)
(***************************************************************************)
RegisterBuilderNode(n, low) ==
    /\ nodeStatus' = [nodeStatus EXCEPT ![n] = IF @ = "isolated" THEN @ ELSE "online"]
    /\ fresh' = [fresh EXCEPT ![n] = TRUE]
    /\ lowDisk' = [lowDisk EXCEPT ![n] = low]
    /\ UNCHANGED accepting
    /\ IF low THEN Bounded ELSE UNCHANGED nodeEvents

BuilderNodeHeartbeat(n, low) ==
    /\ nodeStatus[n] # "absent"
    /\ nodeStatus' = [nodeStatus EXCEPT ![n] =
                        IF low THEN "isolated" ELSE IF @ = "offline" THEN "online" ELSE @]
    /\ fresh' = [fresh EXCEPT ![n] = TRUE]
    /\ lowDisk' = [lowDisk EXCEPT ![n] = low]
    /\ UNCHANGED accepting
    /\ IF low THEN Bounded ELSE UNCHANGED nodeEvents

DrainBuilderNode(n, toAccepting) ==
    /\ nodeStatus[n] # "absent"
    /\ accepting[n] # toAccepting
    /\ accepting' = [accepting EXCEPT ![n] = toAccepting]
    /\ IF toAccepting THEN UNCHANGED nodeEvents ELSE Bounded
    /\ UNCHANGED <<nodeStatus, fresh, lowDisk>>

RecoverBuilderNode(n) ==
    /\ nodeStatus[n] = "isolated"
    /\ fresh[n]
    /\ ~lowDisk[n]
    /\ nodeStatus' = [nodeStatus EXCEPT ![n] = "online"]
    /\ UNCHANGED <<accepting, fresh, lowDisk, nodeEvents>>

\* A claim from a node whose heartbeat is stale only marks it offline.
ClaimFromStaleNode(n) ==
    /\ ~fresh[n]
    /\ nodeStatus[n] = "online"
    /\ nodeStatus' = [nodeStatus EXCEPT ![n] = "offline"]
    /\ UNCHANGED <<accepting, fresh, lowDisk, nodeEvents>>

\* 90 seconds pass without a heartbeat.
HeartbeatGoesStale(n) ==
    /\ fresh[n]
    /\ Bounded
    /\ fresh' = [fresh EXCEPT ![n] = FALSE]
    /\ UNCHANGED <<nodeStatus, accepting, lowDisk>>

\* The admission test at the head of claimScheduledTask.
MayClaim(n) == nodeStatus[n] = "online" /\ accepting[n] /\ fresh[n]

NodeNext ==
    \E n \in Node :
        \/ \E low \in BOOLEAN : RegisterBuilderNode(n, low) \/ BuilderNodeHeartbeat(n, low)
        \/ \E mode \in BOOLEAN : DrainBuilderNode(n, mode)
        \/ RecoverBuilderNode(n)
        \/ ClaimFromStaleNode(n)
        \/ HeartbeatGoesStale(n)

NodeSpec == NodeInit /\ [][NodeNext]_nodeVars

-----------------------------------------------------------------------------
\* An isolated node gets no work again, through registration or heartbeats,
\* until an operator recovers it over a fresh reading with enough disk
\* (buildclusterservice.go:364, the IF(status = 3, ...) of the upsert).
IsolationNeedsRecovery ==
    [][\A n \in Node : nodeStatus[n] = "isolated" /\ nodeStatus'[n] # "isolated" =>
          fresh[n] /\ ~lowDisk[n] /\ UNCHANGED <<fresh, lowDisk>>]_nodeVars
=============================================================================
