SPECIFICATION Spec
CONSTANTS
    Request = {r1, r2}
    Pre <- FullChain
    PostCount = 2
    MaxAttempts = 2
    Full = 2
    Unit = 2
    Rate = 1
INVARIANTS
    PostAlwaysRuns
