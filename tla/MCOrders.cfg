\* Two replicas over one database, three concurrent calls, two packages in an
\* order.  The replicas crash, once each, or the clock ticks, past the last moment
\* of the entries stored before.
SPECIFICATION Spec
CONSTANTS
    Replica = {r1, r2}
    Call = {c1, c2, c3}
    OrderId = {o1, o2}
    Key = {k1}
    Payload = {p1, p2}
    ValidPayload = {p1}
    NumPackages = 2
    TTL = 0
    MaxNow = 1
    MaxCrashes = 1
    None = None
SYMMETRY ReplicaSymmetry
VIEW View
CONSTRAINT CrashOrTick
INVARIANTS
    TypeOK
    SaveIsAtomic
    OneOrderPerCall
    EntriesAreTruthful
    CreateAnswersAreTruthful
    RefusalsAreTruthful
PROPERTIES
    ImplementsOrderBook
    RetryFindsOriginal
\* Every call is made at most once: when all are answered nothing is left to do.
CHECK_DEADLOCK FALSE
