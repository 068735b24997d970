SPECIFICATION CacheSpec
CONSTANTS
    Task = {t1, t2}
    NoService = NoService
    MaxInits = 2
    MaxResets = 1
INVARIANTS
    ResetForcesReinit
