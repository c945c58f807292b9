\* Two requests that create an order, with the same key or none, each with one
\* retry; the orders service does not crash and the clock stands still.
SPECIFICATION Spec
CONSTANTS
    Client = {g1, g2}
    Wish <- Creates
    Replica = {r1}
    OrderId = {o1, o2}
    Key = {k1}
    Payload = {p1, p2}
    ValidPayload = {p1}
    NumPackages = 1
    TTL = 0
    MaxNow = 0
    MaxCrashes = 0
    MaxRetries = 1
    None = None
    k1 = k1
    p1 = p1
    p2 = p2
    o1 = o1
SYMMETRY OrderSymmetry
INVARIANTS FlowTypeOK BadRequestMeansNothing DuplicatesAreUncertain
\* Every request is made at most once: when all are answered nothing is left to do.
CHECK_DEADLOCK FALSE
