SPECIFICATION RuntimeSpec
CONSTANTS
    Services = {s1, s2}
    StartsAt = 1
    LocalEnd = 8
    PlanEnds = {5, 12}
    Life = 3
    Grace = 2
    CheckTime = 1
    Poll = 1
    Term = 1
    MaxTime = 11
    Callers = {c1, c2}
    Capacity = 2
    Share = 3
    Rate = 2
    Delay = 2
    MaxCalls = 5
    BucketTime = 6
    t1 = t1
    t2 = t2
    m4 = m4
    Receipts = {m1, m2, m3, m4}
    Tenants = {t1, t2}
    TenantOf <- MCTenantOf
    Receives = {r1, r2}
    BatchSize = 2
    Limit = 1
    MaxPending = 1
    NoOne = NoOne
    Sources = {outbox, sqs}
    Timeout = 1
    SamplerTime = 4
    Watched = {outbox}
    Ranges = {g1, g2}
    Pages = {p1, p2}
    ScrapeStale = 2
    SampleStale = 2
    CacheLife = 2
    SnapshotTime = 1
    MaxFlights = 1
    MaxCached = 1
    MonitorTime = 3
INVARIANTS
    StopsBind
    BudgetExact
    TurnsAndReleases
    TruthfulReports
    RuntimeTypeOK
    CutoffHonoured
    TruthfulSample
PROPERTY
    KeepsReceiving
CHECK_DEADLOCK FALSE
