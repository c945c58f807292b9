\* A second call with the same key that reaches another replica.
SPECIFICATION Spec
CONSTANTS
    Replica = {r1, r2}
    Call = {c1, c2}
    OrderId = {o1, o2}
    Key = {k1}
    Payload = {p1, p2}
    ValidPayload = {p1}
    NumPackages = 1
    TTL = 0
    MaxNow = 0
    MaxCrashes = 0
    None = None
PROPERTIES
    SecondCallIsCached
\* Every call is made at most once: when all are answered nothing is left to do.
CHECK_DEADLOCK FALSE
