SPECIFICATION WorkerFairSpec
CONSTANTS
    Node = {n1, n2}
    Agent = {}
    Legacy = {}
    MaxNodeEvents = 1
    Task = {1}
    Tenant = {x1}
    App = {p1}
    TenantOf <- MCOneTenant
    AppOf <- MCOneApp
    Priority <- MCPriority
    RemoteSigned = {}
    Signer = {}
    AgentTenant <- MCAgentTenant
    AgentApps <- MCAgentApps
    PoolMax = 2
    TenantPolicyMax <- MCTenantPolicyMax
    AppMax <- MCAppMax
    NodeMax <- MCNodeMax
    EntitlementMax <- MCEntitlementMax
    FairCost <- MCFairCost
    TenantWindow = 64
    TaskWindow = 32
    AgentWindow = 8
    Phase = {"building"}
    InitialPlan <- MCPlan
    MaxAttempt = 2
    MaxBillingEvents = 0
    x1 = x1
    n1 = n1
    p1 = p1
    NodeCap = 1
    PolicyCap = 2
    EntitlementCap = 2
    MaxFaults = 1
PROPERTIES
    EveryBuildEnds
    FencedBuildsStop
CHECK_DEADLOCK FALSE
