SPECIFICATION Spec
CONSTANTS
    Task = {t1, t2}
    PaymentId = {p1}
    RefundId = {r1}
    Amount = {1}
    Seeded = {}
    None = None
    MaxRefunds = 2
PROPERTIES
    RefundsReturn
CHECK_DEADLOCK FALSE
