SPECIFICATION Spec
CONSTANTS
    a = a
    b = b
    c1 = c1
    c2 = c2
    p1 = p1
    p2 = p2
    None = None
    Client = {c1, c2}
    Table = {t}
    Value <- MCValue
    Inserts <- MCInserts
    Updates <- MCUpdates
    Filters <- MCFilters
    Orders <- MCOrders
    PageSize = {1}
    Within <- MCWithin
    MaxRows = 3
    Caller = {c1, c2}
    Path = {p1, p2}
    Inode = {1, 2, 3, 4, 5, 6, 7}
    Content <- MCContent
    Hole = hole
    MaxResults = {1, None}
    MaxCalls = 3
    Files <- MCFiles
    Environment <- MCEnvironment
    Depth = 2
    Overrides <- MCOverrides
    MaxOverrides = 1
    Backend = {"sidecar", "otel"}
    Port = {0, 2}
    DefaultPort = 1
    MaxBuilderCalls = 3
    Sender = {c1, c2}
    Notification <- MCNotification
    Batches <- MCBatches
    MaxSubject = 5
    MaxReceipts = 4
    MaxMillis = 15
    Millis = {0, 1, 3, 6}
    Limits = {1, 4}
    Predicates <- MCPredicates
    Nanos = {0, 2, 5}
    MaxSettings = 2
    Headers <- MCHeaders
    BodyTypes = {"json", "form"}
    Auths <- MCAuths
    Bases <- MCBases
    Urls <- MCUrls
    MaxGiven = 2
    CapacityArg = 2
    RateArg = 2
    MIN_REFILL_RATE = 1
    Unit = 3
    MaxTime = 7
    Task = {t1, t2, t3}
    NoService = NoService
    MaxInits = 4
    MaxResets = 2
SYMMETRY Symmetric
INVARIANTS
    RowsAddUp
    RowsUnderTheirIds
    PagesAreTheTable
    WholeAtRest
    AloneIsExact
    ListComplete
    FieldsAsWritten
    NoStraySidecar
    ReceiptsStand
    BacksOff
    OwnHeadersWin
    ValidatedSinkWrites
    LimiterTypeOK
    WindowBound
    AvailableIsTightestWindow
    CacheTypeOK
    OneInstancePerEpoch
PROPERTIES
    ImplementsTokenBucket
    ImplementsOnceCell
CHECK_DEADLOCK FALSE
