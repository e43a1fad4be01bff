--------------------------- MODULE MCBuildCluster ---------------------------
(***************************************************************************)
(* Instances of BuildCluster.  Tasks 1 and 2 belong to tenant x1 and app   *)
(* p1, tasks 3 and 4 to tenant x2 and app p2; task 2 outranks the others.  *)
(***************************************************************************)
EXTENDS BuildCluster

CONSTANTS x1, x2, n1, p1, p2, p3, NodeCap, PolicyCap, EntitlementCap

MCTenantOf == [t \in Task |-> IF t \in {1, 2} THEN x1 ELSE x2]
MCAppOf == [t \in Task |-> IF t \in {1, 2} THEN p1 ELSE p2]
MCOneTenant == [t \in Task |-> x1]
MCOneApp == [t \in Task |-> p1]
MCPriority == [t \in Task |-> IF t = 2 THEN 1 ELSE 0]
MCAgentTenant == [b \in Agent |-> x1]
MCAgentApps == [b \in Agent |-> {p1}]
MCNodeMax == [b \in Builder |-> NodeCap]
MCUnevenNodeMax == [b \in Builder |-> IF b = n1 THEN 2 ELSE 1]
MCAppMax == [p \in App |-> 2]
MCTenantPolicyMax == [x \in Tenant |-> PolicyCap]
\* Task 4 is of the kind of task 1, so it may be its retry; p1 is bound by the
\* limit of its app, x2 by its own, task 3 by that of the pool alone.
MCSpreadTenantOf == [t \in Task |-> IF t = 2 THEN x2 ELSE x1]
MCSpreadAppOf == [t \in Task |-> IF t = 2 THEN p2 ELSE IF t = 3 THEN p3 ELSE p1]
MCSpreadAppMax == [p \in App |-> IF p = p1 THEN 1 ELSE 3]
MCSpreadTenantMax == [x \in Tenant |-> IF x = x2 THEN 1 ELSE 3]
MCEntitlementMax == [x \in Tenant |-> EntitlementCap]
MCFairCost == [x \in Tenant |-> 1]
\* charge_retry_build on, refunds for failed and cached builds
MCPlan == [chargeRetry |-> TRUE, chargeFailed |-> FALSE, chargeCacheHit |-> FALSE]
\* retries are free as well
MCFreeRetryPlan == [MCPlan EXCEPT !.chargeRetry = FALSE]
=============================================================================
