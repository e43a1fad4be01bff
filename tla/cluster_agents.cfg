SPECIFICATION Spec
CONSTANTS
    Node = {n1}
    Agent = {g1}
    Legacy = {v1}
    MaxNodeEvents = 1
    Task = {1, 2}
    Tenant = {x1}
    App = {p1}
    TenantOf <- MCOneTenant
    AppOf <- MCOneApp
    Priority <- MCPriority
    RemoteSigned = {}
    Signer = {}
    AgentTenant <- MCAgentTenant
    AgentApps <- MCAgentApps
    PoolMax = 2
    TenantPolicyMax <- MCTenantPolicyMax
    AppMax <- MCAppMax
    NodeMax <- MCNodeMax
    EntitlementMax <- MCEntitlementMax
    FairCost <- MCFairCost
    TenantWindow = 64
    TaskWindow = 32
    AgentWindow = 8
    Phase = {"building", "uploading"}
    InitialPlan <- MCFreeRetryPlan
    MaxAttempt = 3
    MaxBillingEvents = 0
    x1 = x1
    n1 = n1
    x2 = x2
    p1 = p1
    p2 = p2
    p3 = p3
    NodeCap = 1
    PolicyCap = 2
    EntitlementCap = 1
INVARIANTS
    SlotsMatchTasks
    EntitlementWithinLimit
    NoReservationLeaks
    RefundsWereCharged
PROPERTIES
    AttemptsFence
    IsolationNeedsRecovery
    FinishedIsFinal
    ImplementsLifecycle
CHECK_DEADLOCK FALSE
