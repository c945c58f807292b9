\* One request, a create with a key or a receipt, with two retries, so that three
\* attempts of it overlap and follow each other; the service may be restarted
\* once, and the clock outlives the entries.  Nothing is assumed of the services
\* but that the gateway's timers fire.  No symmetry: a liveness property is
\* checked.
SPECIFICATION FairSpec
CONSTANTS
    Client = {g1}
    Wish <- Retried
    Replica = {r1}
    OrderId = {o1, o2}
    Key = {k1}
    Payload = {p1, p2}
    ValidPayload = {p1}
    NumPackages = 1
    TTL = 1
    MaxNow = 2
    MaxCrashes = 1
    MaxRetries = 2
    None = None
    k1 = k1
    p1 = p1
    p2 = p2
    o1 = o1
PROPERTIES EveryRequestEnds AttemptsFindOriginal
\* Every request is made at most once: when all are answered nothing is left to do.
CHECK_DEADLOCK FALSE
