\* An order that is created, cancelled and put on a receipt by three requests
\* that overlap or follow each other, without retries, on two replicas.
SPECIFICATION Spec
CONSTANTS
    Client = {g1, g2, g3}
    Wish <- Lifecycle
    Replica = {r1, r2}
    OrderId = {o1}
    Key = {k1}
    Payload = {p1, p2}
    ValidPayload = {p1}
    NumPackages = 1
    TTL = 0
    MaxNow = 0
    MaxCrashes = 0
    MaxRetries = 0
    None = None
    k1 = k1
    p1 = p1
    p2 = p2
    o1 = o1
SYMMETRY OrderSymmetry
INVARIANTS OkIsTrue CancellationIsSeen
\* Every request is made at most once: when all are answered nothing is left to do.
CHECK_DEADLOCK FALSE
