\* One create request with a key, retried once; one replica that never crashes.
SPECIFICATION Spec
CONSTANTS
    Client = {g1}
    Wish <- KeyedCreates
    Replica = {r1}
    OrderId = {o1, o2}
    Key = {k1}
    Payload = {p1, p2}
    ValidPayload = {p1}
    NumPackages = 1
    TTL = 0
    MaxNow = 0
    MaxCrashes = 0
    MaxRetries = 1
    None = None
    k1 = k1
    p1 = p1
    p2 = p2
    o1 = o1
INVARIANTS RetryAfterTimeoutFindsKey
\* Every request is made at most once: when all are answered nothing is left to do.
CHECK_DEADLOCK FALSE
