SPECIFICATION FairSpec
CONSTANTS
    Node = {n1}
    Agent = {}
    Legacy = {}
    MaxNodeEvents = 0
    Task = {1, 2, 3}
    Tenant = {x1, x2}
    App = {p1, p2}
    TenantOf <- MCTenantOf
    AppOf <- MCAppOf
    Priority <- MCPriority
    RemoteSigned = {}
    Signer = {}
    AgentTenant <- MCAgentTenant
    AgentApps <- MCAgentApps
    PoolMax = 2
    TenantPolicyMax <- MCTenantPolicyMax
    AppMax <- MCAppMax
    NodeMax <- MCNodeMax
    EntitlementMax <- MCEntitlementMax
    FairCost <- MCFairCost
    TenantWindow = 64
    TaskWindow = 32
    AgentWindow = 8
    Phase = {"building"}
    InitialPlan <- MCPlan
    MaxAttempt = 2
    MaxBillingEvents = 1
    x1 = x1
    n1 = n1
    x2 = x2
    p1 = p1
    p2 = p2
    p3 = p3
    NodeCap = 1
    PolicyCap = 1
    EntitlementCap = 2
PROPERTIES
    NoStarvation
CHECK_DEADLOCK FALSE
