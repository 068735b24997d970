SPECIFICATION Spec
CONSTANTS
    Task = {t1, t2, t3}
    Config = {c1, c2}
    None = None
    MaxInits = 2
    MaxResets = 1
INVARIANTS
    PairBelongsTogether
    AnswerMatchesRequest
PROPERTIES
    CallsReturn
