SPECIFICATION MCSpec
CONSTANTS
    Events <- MCEvents
    Kind <- MCKind
    Situation <- MCSituation
    Whom <- MCWhom
    MarketingSubject <- MCMarketingSubject
    Recipients = {"own", "ref"}
    Workers = {w1, w2}
    Urls = {"set", "disabled", "missing"}
    RetryLimit = 2
    DailyCap = 1
    WorkflowCap = 1
    MaxRuns = 3
    MaxCalls = 2
    MaxRetries = 2
    MaxFaults = 1
CONSTRAINT IsBusy
PROPERTIES
    CompletedEventsStay
CHECK_DEADLOCK FALSE
