--------------------------- MODULE MCBuildWorker ----------------------------
(***************************************************************************)
(* Instances of BuildWorker: one tenant, one app, every task alike.        *)
(***************************************************************************)
EXTENDS BuildWorker

CONSTANTS x1, p1, n1, NodeCap, PolicyCap, EntitlementCap

MCOneTenant == [t \in Task |-> x1]
MCOneApp == [t \in Task |-> p1]
MCPriority == [t \in Task |-> 0]
MCAgentTenant == [b \in Agent |-> x1]
MCAgentApps == [b \in Agent |-> {p1}]
MCNodeMax == [b \in Builder |-> NodeCap]
MCAppMax == [p \in App |-> 2]
MCTenantPolicyMax == [x \in Tenant |-> PolicyCap]
MCEntitlementMax == [x \in Tenant |-> EntitlementCap]
MCFairCost == [x \in Tenant |-> 1]
MCPlan == [chargeRetry |-> TRUE, chargeFailed |-> FALSE, chargeCacheHit |-> FALSE]
=============================================================================
