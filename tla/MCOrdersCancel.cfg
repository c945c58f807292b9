\* Two concurrent cancellations of one order.
SPECIFICATION Spec
CONSTANTS
    Replica = {r1}
    Call = {c1, c2, c3}
    OrderId = {o1}
    Key = {k1}
    Payload = {p1, p2}
    ValidPayload = {p1}
    NumPackages = 1
    TTL = 0
    MaxNow = 0
    MaxCrashes = 0
    None = None
INVARIANTS
    CancelledOnce
\* Every call is made at most once: when all are answered nothing is left to do.
CHECK_DEADLOCK FALSE
