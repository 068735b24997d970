SPECIFICATION Spec
CONSTANTS
    Request = {r1}
    Pre <- RetriedCache
    PostCount = 2
    MaxAttempts = 2
    Full = 2
    Unit = 2
    Rate = 1
INVARIANTS
    CacheHitSkipsRouter
