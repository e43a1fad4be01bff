SPECIFICATION Spec
CONSTANTS
    Node = {n1, n2}
    Agent = {}
    Legacy = {}
    MaxNodeEvents = 0
    Task = {1, 2, 3, 4}
    Tenant = {x1, x2}
    App = {p1, p2, p3}
    TenantOf <- MCSpreadTenantOf
    AppOf <- MCSpreadAppOf
    Priority <- MCPriority
    RemoteSigned = {2}
    Signer = {n1}
    AgentTenant <- MCAgentTenant
    AgentApps <- MCAgentApps
    PoolMax = 2
    TenantPolicyMax <- MCSpreadTenantMax
    AppMax <- MCSpreadAppMax
    NodeMax <- MCUnevenNodeMax
    EntitlementMax <- MCEntitlementMax
    FairCost <- MCFairCost
    TenantWindow = 64
    TaskWindow = 32
    AgentWindow = 8
    Phase = {"building"}
    InitialPlan <- MCFreeRetryPlan
    MaxAttempt = 2
    MaxBillingEvents = 0
    x1 = x1
    n1 = n1
    x2 = x2
    p1 = p1
    p2 = p2
    p3 = p3
    NodeCap = 2
    PolicyCap = 2
    EntitlementCap = 3
INVARIANTS
    TypeOK
    LimitsRespected
CHECK_DEADLOCK FALSE
