SPECIFICATION Spec
CONSTANTS
    Request = {r1, r2}
    Pre <- FullChain
    PostCount = 2
    MaxAttempts = 3
    Full = 2
    Unit = 2
    Rate = 1
INVARIANTS
    TypeOK
    StagesInOrder
    ResponsePostProcessed
    AuthGatesTheRest
    RetryBounded
PROPERTIES
    NoSecondThoughts
    RequestsAnswered
