\* One conversion with the time limits of the deployment, in seconds
\* (k8s/applications/fx): the fallback provider answers at once.
SPECIFICATION FlowSpec
CONSTANTS
    Call = {c1}
    PairKey = {pair}
    BaseKey = {}
    Known = {pair}
    Reliable = {"fallback"}
    Attempts = 2
    BreakerTimeout = 3
    ResetTimeout = 30
    ApiTimeout = 5
    BaseDelay = 1
    TTL = 300
    GatewayTimeout = 5
    LastArrival = 0
    MaxDelay = 1
    MaxNow = 8
    None = None
INVARIANT FallbackReachesClient
\* The call is answered and the clock stops.
CHECK_DEADLOCK FALSE
