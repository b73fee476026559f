CONSTANTS
    w1 = w1
    w2 = w2
    t1 = t1
    t2 = t2
    t3 = t3
    cpu = cpu
    gpu = gpu
    None = None
    NaN = NaN
    Task = {t1, t2, t3}
    Workflow = {w1, w2}
    AgingRate = 20
    Dags <- AllDags
    Capability <- MCCapability
    CapabilityOf <- MCCapabilityOf
    PriorityOf <- MCPriorityOf
    AgentPriority <- MCAgentPriority
    SENSITIVE_CAPABILITIES = {"medical", "robotics"}
    PolicyDenies = {"medical", "search"}
    Runtime <- MCRuntime
    RuntimeName = {cpu, gpu}
    FitChoices = {1, 4}
    MAX_TASK_RETRIES = 2
    MaxRecords = 2
    MaxSamples = 1
SPECIFICATION MCSpec
INVARIANTS TypeOK DependenciesRespected AnnouncedMeansFinished ResultsInDependencyOrder HistoryMatchesState AuditKeepsTheLatest
PROPERTIES EveryCallReturns ImplementsWorkflowSpec
