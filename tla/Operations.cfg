SPECIFICATION OperationsSpec
CONSTANTS
    Plan <- MCPlan
    ModelBearing = {"first", "second", "withheld"}
    Invoking = {"first", "second"}
    Workers = {w1, w2}
    MaxAttempts = 2
    ProgressEvery = 2
    FaultBound = 2
    InterruptionBound = 2
    SourceKeys <- MCSourceKeys
    RuleKeys <- MCRuleKeys
    RuleIds = {"reuse"}
    Scopes = {"EU"}
    PredicateLists <- MCPredicateLists
    SourceInputs <- MCSourceInputs
    RuleInputs <- MCRuleInputs
    RuleTimes = {0, 1, 2}
    EconomicScale = 4
    AssessmentInputs <- MCAssessmentInputs
    LedgerInputs <- MCLedgerInputs
    CitationSets <- MCCitationSets
    TrafficMixes <- MCTrafficMixes
    Limit = 2
    WindowTicks = 2
    MaxBuckets = 2
    CleanupEvery = 3
INVARIANTS
    EveryRequestIsJournalled
    StoredObservationsReconcile
    StopsAreExplained
    ActiveRulesRestOnActiveSources
    CommandsRunOnceUnlessOverlapped
    RateLimitIsExact
PROPERTIES
    PreferredRouteDominates
CHECK_DEADLOCK FALSE
