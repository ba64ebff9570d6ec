SPECIFICATION FairSpec
CONSTANTS
    Interval = 2
    MaxRetries = 2
    InitialBackoff = 1
    MaxBackoff = 3
    MaxRetryAfter = 3
    Statuses = {302, 401, 402, 404, 422, 429, 500, 503}
    Headers = {0, 2, 4}
    DurationSpan = 8
    MaxBudget = 4
INVARIANTS
    RetriesUsed
    ContextErrorsMeanDone
PROPERTIES
    RequestsSpaced
    RetryAfterHonoured
    FetchEnds
