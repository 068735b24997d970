SPECIFICATION Spec
CONSTANTS
    Task = {t1, t2}
    PaymentId = {p1, p2}
    RefundId = {r1, r2}
    Amount = {0, 1}
    Seeded = {"Refunded"}
    None = None
    MaxRefunds = 2
INVARIANTS
    RefundedHasRefund
PROPERTIES
    FullRefundIsWhole
    RefundsReturnUnlessCrossed
CHECK_DEADLOCK FALSE
